------------------------ MODULE FrameSchedulingProofs ------------------------
(***************************************************************************)
(* Proofs about the vsync dispatch and its clients: types, that a callback *)
(* is dispatched once per vsync, that every wakeup is covered by the timer,*)
(* and that a frame or a vsync that is awaited is on its way.              *)
(***************************************************************************)
EXTENDS FrameScheduling, FiniteSetTheorems, TLAPS

USE Zenon

(***************************************************************************)
(* The predictor and the entries.                                          *)
(***************************************************************************)
\* The predicted vsync is after the time that is asked for, by at most a period
\* (nextAnticipatedVSyncTimeFrom).
LEMMA NextVsyncIsLater ==
  ASSUME vsyncPhase \in 1..Period, NEW t \in Int
  PROVE  /\ nextAnticipatedVSyncTimeFrom(t) \in Int
         /\ nextAnticipatedVSyncTimeFrom(t) > t
         /\ nextAnticipatedVSyncTimeFrom(t) <= t + Period
  <1> DEFINE n == t - vsyncPhase
  <1>1. n \in Int /\ Period \in Nat /\ Period > 0 /\ vsyncPhase \in Int
    BY DispatchAssumption, SMT
  <1> HIDE DEF n
  <1>2. /\ n \div Period \in Int
        /\ Period * (n \div Period) + Period > n /\ Period * (n \div Period) <= n
    BY <1>1, SMT
  <1>3. QED
    BY <1>1, <1>2, SMT DEF nextAnticipatedVSyncTimeFrom, n

\* Armed for a vsync only more than MinVsyncDistance after the last one and not for one
\* later than need be, with the timing it was armed with at hand.
GoodEntry(e) ==
  /\ e \in Entries
  /\ Armed(e) => e.mScheduleTiming # None
  /\ Armed(e) /\ e.mLastDispatchTime # None =>
       e.mArmedInfo.vsync > e.mLastDispatchTime + MinVsyncDistance
  /\ ~DontSkipOnEarly /\ Armed(e) =>
       e.mArmedInfo.vsync <= MayBeArmedFrom(e.mScheduleTiming, e.mLastDispatchTime) + Period

Awaits(e) == Armed(e) \/ HasPendingWorkloadUpdate(e)

\* What an entry is scheduled for is in the future (NextVsync).
LEMMA NextVsyncType ==
  ASSUME vsyncPhase \in 1..Period, NEW timing \in Timing
  PROVE  /\ Lead(timing) \in Nat
         /\ NextVsync(timing) \in Int
         /\ NextVsync(timing) > Lead(timing)
         /\ NextVsync(timing) <= max(timing.earliestVsync, Lead(timing)) + Period
  <1>1. Lead(timing) \in Nat /\ timing.earliestVsync \in Nat
    BY SMT DEF Timing, Lead
  <1>2. max(timing.earliestVsync, Lead(timing)) \in Int
        /\ max(timing.earliestVsync, Lead(timing)) >= Lead(timing)
    BY <1>1, SMT DEF max
  <1>3. QED
    BY <1>1, <1>2, NextVsyncIsLater, SMT DEF NextVsync

\* adjustVsyncIfNeeded never moves a vsync forward, and keeps its distance from the
\* last dispatch.
LEMMA AdjustedVsync ==
  ASSUME vsyncPhase \in 1..Period, NEW e \in Entries, NEW vsync \in Int
  PROVE  /\ adjustVsyncIfNeeded(e, vsync) \in Int
         /\ adjustVsyncIfNeeded(e, vsync) >= vsync
         /\ e.mLastDispatchTime # None =>
              adjustVsyncIfNeeded(e, vsync) > e.mLastDispatchTime + MinVsyncDistance
         /\ \/ adjustVsyncIfNeeded(e, vsync) = vsync
            \/ /\ e.mLastDispatchTime # None
               /\ adjustVsyncIfNeeded(e, vsync) <= e.mLastDispatchTime + Period + Period
  <1> DEFINE last == e.mLastDispatchTime
  <1>1. CASE last = None
    BY <1>1, SMT DEF adjustVsyncIfNeeded
  <1>2. CASE last # None
    <2>1. last \in Int /\ Period \in Nat \ {0} /\ MinVsyncDistance \in 0..Period
      BY <1>2, DispatchAssumption DEF Entries, Optional
    <2>2. /\ last + MinVsyncDistance \in Int /\ last + Period \in Int
      BY <2>1, SMT
    <2>3. /\ nextAnticipatedVSyncTimeFrom(last + MinVsyncDistance) \in Int
          /\ nextAnticipatedVSyncTimeFrom(last + MinVsyncDistance) > last + MinVsyncDistance
          /\ nextAnticipatedVSyncTimeFrom(last + Period) \in Int
          /\ nextAnticipatedVSyncTimeFrom(last + Period) > last + Period
          /\ nextAnticipatedVSyncTimeFrom(last + MinVsyncDistance)
               <= last + MinVsyncDistance + Period
          /\ nextAnticipatedVSyncTimeFrom(last + Period) <= last + Period + Period
      BY <2>2, NextVsyncIsLater
    <2>4. QED
      BY <1>2, <2>1, <2>3, SMT DEF adjustVsyncIfNeeded
  <1>3. QED
    BY <1>1, <1>2

\* The vsync an entry is armed for, when it is armed anew, is not later than need be.
LEMMA AdjustedNotPutOff ==
  ASSUME vsyncPhase \in 1..Period, NEW e \in Entries, NEW timing \in Timing
  PROVE  adjustVsyncIfNeeded(e, NextVsync(timing)) <=
           MayBeArmedFrom(timing, e.mLastDispatchTime) + Period
  <1> DEFINE last == e.mLastDispatchTime
             vsync == NextVsync(timing)
             adjusted == adjustVsyncIfNeeded(e, vsync)
             fits == max(timing.earliestVsync, Lead(timing))
  <1>1. /\ vsync \in Int /\ vsync <= fits + Period
        /\ adjusted \in Int
        /\ adjusted = vsync \/ (last # None /\ adjusted <= last + Period + Period)
    BY NextVsyncType, AdjustedVsync
  <1>2. fits \in Int /\ Period \in Nat /\ (last # None => last \in Int)
    <2>1. Period \in Nat /\ (last # None => last \in Int)
      BY DispatchAssumption DEF Entries, Optional
    <2>2. fits \in Int
      BY SMT DEF Timing, Lead, max
    <2>3. QED
      BY <2>1, <2>2
  <1> HIDE DEF vsync, adjusted, fits, last
  <1>3. adjusted <= (IF last = None THEN fits ELSE max(fits, last + Period)) + Period
    BY <1>1, <1>2, SMT DEF max
  <1>4. QED
    BY <1>3 DEF MayBeArmedFrom, adjusted, vsync, fits, last

\* Arming an entry with a vsync of its own keeps it good.
LEMMA RearmedGood ==
  ASSUME NEW e, GoodEntry(e), NEW timing \in Timing, NEW vsync \in Int, NEW wakeup \in Int,
         e.mLastDispatchTime # None => vsync > e.mLastDispatchTime + MinVsyncDistance,
         ~DontSkipOnEarly => vsync <= MayBeArmedFrom(timing, e.mLastDispatchTime) + Period
  PROVE  LET r == Rearmed(e, timing, vsync, wakeup) IN
         /\ GoodEntry(r)
         /\ r.mArmedInfo.wakeup = wakeup
         /\ r.mName = e.mName /\ r.mWorkloadUpdateInfo = e.mWorkloadUpdateInfo
         /\ Armed(r)
  <1>1. timing # None /\ [wakeup |-> wakeup, vsync |-> vsync] \in ArmingInfo
    BY NoneAssumption DEF ArmingInfo
  <1>2. [wakeup |-> wakeup, vsync |-> vsync] # None
    BY <1>1, NoneAssumption
  <1>3. QED
    BY <1>1, <1>2 DEF GoodEntry, Rearmed, Armed, Entries, Optional

\* Scheduling an entry arms it (VSyncDispatchTimerQueueEntry::schedule); when the
\* schedule is skipped the wakeup it had stays.
LEMMA EntrySchedules ==
  ASSUME vsyncPhase \in 1..Period, NEW e, GoodEntry(e), NEW timing \in Timing
  PROVE  LET r == EntrySchedule(e, timing) IN
         /\ GoodEntry(r)
         /\ Armed(r)
         /\ r.mName = e.mName /\ r.mWorkloadUpdateInfo = e.mWorkloadUpdateInfo
         /\ r = e \/ r.mArmedInfo.wakeup >= 0
  <1> DEFINE next == NextVsync(timing)
             adjusted == adjustVsyncIfNeeded(e, next)
             skips == WouldSkipVsync(e, next) \/ WouldSkipWakeup(e, next - Lead(timing))
             vsync == IF DontSkipOnEarly /\ skips THEN e.mArmedInfo.vsync ELSE adjusted
             wakeup == vsync - Lead(timing)
             r == EntrySchedule(e, timing)
  <1>1. /\ next \in Int /\ Lead(timing) \in Nat /\ next > Lead(timing)
        /\ adjusted \in Int /\ adjusted >= next
        /\ e.mLastDispatchTime # None => adjusted > e.mLastDispatchTime + MinVsyncDistance
    BY NextVsyncType, AdjustedVsync DEF GoodEntry
  <1>2. skips => Armed(e)
    BY DEF WouldSkipVsync, WouldSkipWakeup
  <1>3. Armed(e) => /\ e.mArmedInfo.vsync \in Int
                    /\ e.mLastDispatchTime # None =>
                         e.mArmedInfo.vsync > e.mLastDispatchTime + MinVsyncDistance
    BY DEF GoodEntry, Armed, Entries, Optional, ArmingInfo
  <1>4. /\ vsync \in Int /\ wakeup \in Int /\ max(0, wakeup) \in Int /\ max(0, wakeup) >= 0
        /\ e.mLastDispatchTime # None => vsync > e.mLastDispatchTime + MinVsyncDistance
        /\ ~DontSkipOnEarly => wakeup >= 0
        /\ ~DontSkipOnEarly => vsync = adjusted
    <2> HIDE DEF next, adjusted, skips
    <2>1. CASE DontSkipOnEarly /\ skips
      BY <1>1, <1>2, <1>3, <2>1, SMT DEF max
    <2>2. CASE ~(DontSkipOnEarly /\ skips)
      BY <1>1, <2>2, SMT DEF max
    <2>3. QED
      BY <2>1, <2>2
  <1>4a. adjusted <= MayBeArmedFrom(timing, e.mLastDispatchTime) + Period
    BY AdjustedNotPutOff DEF GoodEntry
  <1> HIDE DEF next, adjusted, skips, vsync, wakeup
  <1>5. ASSUME NEW w \in Int, w >= 0
        PROVE  LET rearmed == Rearmed(e, timing, vsync, w) IN
               /\ GoodEntry(rearmed)
               /\ Armed(rearmed)
               /\ rearmed.mName = e.mName
               /\ rearmed.mWorkloadUpdateInfo = e.mWorkloadUpdateInfo
               /\ rearmed.mArmedInfo.wakeup >= 0
    <2>1. /\ e.mLastDispatchTime # None => vsync > e.mLastDispatchTime + MinVsyncDistance
          /\ vsync \in Int
          /\ ~DontSkipOnEarly =>
               vsync <= MayBeArmedFrom(timing, e.mLastDispatchTime) + Period
      BY <1>4, <1>4a
    <2>2. LET rearmed == Rearmed(e, timing, vsync, w) IN
          /\ GoodEntry(rearmed)
          /\ Armed(rearmed)
          /\ rearmed.mName = e.mName
          /\ rearmed.mWorkloadUpdateInfo = e.mWorkloadUpdateInfo
          /\ rearmed.mArmedInfo.wakeup = w
      BY <2>1, RearmedGood, ZenonT(30)
    <2>3. QED
      BY <2>2, <1>5
  <1>6. CASE DontSkipOnEarly
    <2>1. r = Rearmed(e, timing, vsync, max(0, wakeup))
      BY <1>6 DEF EntrySchedule, next, adjusted, skips, vsync, wakeup
    <2>2. QED
      BY <2>1, <1>4, <1>5, SMT
  <1>7. CASE ~DontSkipOnEarly /\ WouldSkipVsync(e, next) /\ WouldSkipWakeup(e, next - Lead(timing))
    <2>1. r = e
      BY <1>7 DEF EntrySchedule, next
    <2>2. QED
      BY <2>1, <1>2, <1>7 DEF skips
  <1>8. CASE ~DontSkipOnEarly
             /\ ~(WouldSkipVsync(e, next) /\ WouldSkipWakeup(e, next - Lead(timing)))
    <2>1. r = Rearmed(e, timing, vsync, wakeup)
      BY <1>8 DEF EntrySchedule, next, adjusted, skips, vsync, wakeup
    <2>2. QED
      BY <2>1, <1>4, <1>5, <1>8, SMT
  <1>9. QED
    BY <1>6, <1>7, <1>8

\* Updating an entry arms it when it was armed or a timing was waiting in it, takes
\* the timing that waits, and gives it a wakeup that is not in the past
\* (VSyncDispatchTimerQueueEntry::update).
LEMMA EntryUpdates ==
  ASSUME vsyncPhase \in 1..Period, NEW e, GoodEntry(e)
  PROVE  LET r == EntryUpdate(e) IN
         /\ GoodEntry(r)
         /\ r.mName = e.mName
         /\ ~HasPendingWorkloadUpdate(r)
         /\ Armed(r) <=> Awaits(e)
         /\ Armed(r) => r.mArmedInfo.wakeup >= 0
  <1>1. CASE ~Awaits(e)
    BY <1>1 DEF EntryUpdate, Awaits
  <1>2. CASE Awaits(e)
    <2> DEFINE timing == IF HasPendingWorkloadUpdate(e) THEN e.mWorkloadUpdateInfo
                         ELSE e.mScheduleTiming
               vsync == adjustVsyncIfNeeded(e, NextVsync(timing))
               rearmed == Rearmed(e, timing, vsync, vsync - Lead(timing))
    <2>1. timing \in Timing
      BY <1>2 DEF Awaits, GoodEntry, HasPendingWorkloadUpdate, Entries, Optional
    <2>2. EntryUpdate(e) = [rearmed EXCEPT !.mWorkloadUpdateInfo = None]
      BY <1>2 DEF EntryUpdate, Awaits
    <2> HIDE DEF timing
    <2>3. /\ vsync \in Int /\ vsync - Lead(timing) \in Int /\ vsync - Lead(timing) >= 0
          /\ e.mLastDispatchTime # None => vsync > e.mLastDispatchTime + MinVsyncDistance
      BY <2>1, NextVsyncType, AdjustedVsync, SMT DEF GoodEntry
    <2>3a. vsync <= MayBeArmedFrom(timing, e.mLastDispatchTime) + Period
      BY <2>1, AdjustedNotPutOff DEF GoodEntry
    <2> HIDE DEF vsync
    <2>4. /\ GoodEntry(rearmed) /\ Armed(rearmed) /\ rearmed.mName = e.mName
          /\ rearmed.mArmedInfo.wakeup = vsync - Lead(timing)
      BY <2>1, <2>3, <2>3a, RearmedGood
    <2> HIDE DEF rearmed
    <2>5. QED
      BY <1>2, <2>2, <2>3, <2>4, SMT
         DEF GoodEntry, Armed, HasPendingWorkloadUpdate, Entries, Optional
  <1>3. QED
    BY <1>1, <1>2

\* An entry that is cancelled or executed is not armed any more; a timing that
\* waits in it goes on waiting (disarm, executing).
LEMMA EntryDisarms ==
  ASSUME NEW e, GoodEntry(e), NEW r,
         r = Disarm(e) \/ (Armed(e) /\ r = Executing(e))
  PROVE  /\ GoodEntry(r)
         /\ r.mName = e.mName /\ r.mWorkloadUpdateInfo = e.mWorkloadUpdateInfo
         /\ ~Armed(r)
  BY DEF GoodEntry, Disarm, Executing, Armed, Entries, Optional, ArmingInfo

\* A new entry is good and waits for nothing.
LEMMA NewEntryGood ==
  ASSUME NEW name \in Clients
  PROVE  GoodEntry(NewEntry(name)) /\ ~Awaits(NewEntry(name)) /\ NewEntry(name).mName = name
  BY DEF GoodEntry, NewEntry, Entries, Optional, Armed, Awaits, HasPendingWorkloadUpdate

\* As time passes an entry stays what it is.
LEMMA EntryTicks ==
  ASSUME NEW e, GoodEntry(e)
  PROVE  LET r == EarlierEntry(e) IN
         /\ GoodEntry(r)
         /\ r.mName = e.mName
         /\ Armed(r) <=> Armed(e)
         /\ HasPendingWorkloadUpdate(r) <=> HasPendingWorkloadUpdate(e)
         /\ Armed(e) => r.mArmedInfo.wakeup = e.mArmedInfo.wakeup - 1
  <1>1. \A timing \in Timing : EarlierTiming(timing) \in Timing /\ timing # None
    BY NoneAssumption, SMT DEF EarlierTiming, Timing, EarlierDownTo0, max
  <1>2. /\ EarlierTiming(e.mScheduleTiming) \in Optional(Timing)
        /\ EarlierTiming(e.mWorkloadUpdateInfo) \in Optional(Timing)
        /\ EarlierTiming(e.mScheduleTiming) = None <=> e.mScheduleTiming = None
        /\ EarlierTiming(e.mWorkloadUpdateInfo) = None <=> e.mWorkloadUpdateInfo = None
    <2>1. EarlierTiming(None) = None
      BY DEF EarlierTiming
    <2>2. QED
      BY <1>1, <2>1, NoneAssumption DEF GoodEntry, Entries, Optional
  <1>3. /\ EarlierDispatch(e.mLastDispatchTime) \in Optional(Int)
        /\ EarlierDispatch(e.mLastDispatchTime) # None =>
             /\ e.mLastDispatchTime # None
             /\ EarlierDispatch(e.mLastDispatchTime) = e.mLastDispatchTime - 1
    BY SMT DEF EarlierDispatch, GoodEntry, Entries, Optional
  <1> DEFINE armed == IF Armed(e) THEN [wakeup |-> e.mArmedInfo.wakeup - 1,
                                        vsync |-> e.mArmedInfo.vsync - 1] ELSE None
  <1>4. /\ armed \in Optional(ArmingInfo)
        /\ armed # None <=> Armed(e)
        /\ Armed(e) => /\ e.mArmedInfo.wakeup \in Int /\ e.mArmedInfo.vsync \in Int
                       /\ armed.wakeup = e.mArmedInfo.wakeup - 1
                       /\ armed.vsync = e.mArmedInfo.vsync - 1
    <2>1. CASE Armed(e)
      <3>1. e.mArmedInfo \in ArmingInfo
        BY <2>1 DEF GoodEntry, Armed, Entries, Optional
      <3>2. armed \in ArmingInfo /\ ArmingInfo \subseteq Optional(ArmingInfo)
        BY <2>1, <3>1, SMT DEF ArmingInfo, Optional
      <3>3. QED
        BY <2>1, <3>1, <3>2, NoneAssumption DEF ArmingInfo
    <2>2. CASE ~Armed(e)
      BY <2>2 DEF Optional
    <2>3. QED
      BY <2>1, <2>2
  <1> HIDE DEF armed
  <1> DEFINE r == EarlierEntry(e)
  <1>5. /\ r \in Entries /\ r.mName = e.mName /\ r.mArmedInfo = armed
        /\ r.mScheduleTiming = EarlierTiming(e.mScheduleTiming)
        /\ r.mWorkloadUpdateInfo = EarlierTiming(e.mWorkloadUpdateInfo)
        /\ r.mLastDispatchTime = EarlierDispatch(e.mLastDispatchTime)
    BY <1>2, <1>3, <1>4 DEF EarlierEntry, GoodEntry, Entries, armed
  <1>6. /\ Armed(r) <=> Armed(e)
        /\ HasPendingWorkloadUpdate(r) <=> HasPendingWorkloadUpdate(e)
        /\ Armed(e) => r.mArmedInfo.wakeup = e.mArmedInfo.wakeup - 1
    BY <1>2, <1>4, <1>5 DEF Armed, HasPendingWorkloadUpdate
  <1> HIDE DEF r
  <1>7. Armed(r) => r.mScheduleTiming # None
    BY <1>2, <1>5, <1>6 DEF GoodEntry
  <1>8. ASSUME Armed(r), r.mLastDispatchTime # None
        PROVE  r.mArmedInfo.vsync > r.mLastDispatchTime + MinVsyncDistance
    <2>1. /\ r.mArmedInfo.vsync = e.mArmedInfo.vsync - 1 /\ e.mArmedInfo.vsync \in Int
          /\ r.mLastDispatchTime = e.mLastDispatchTime - 1 /\ e.mLastDispatchTime \in Int
          /\ e.mArmedInfo.vsync > e.mLastDispatchTime + MinVsyncDistance
      BY <1>3, <1>4, <1>5, <1>6, <1>8 DEF GoodEntry, Entries, Optional
    <2>2. MinVsyncDistance \in Int
      BY DispatchAssumption, SMT
    <2>3. QED
      BY <2>1, <2>2, SMT
  <1>9. ASSUME Armed(r), ~DontSkipOnEarly
        PROVE  r.mArmedInfo.vsync <=
                 MayBeArmedFrom(r.mScheduleTiming, r.mLastDispatchTime) + Period
    <2> DEFINE timing == e.mScheduleTiming
               later == EarlierTiming(timing)
               last == e.mLastDispatchTime
               fits == max(timing.earliestVsync, Lead(timing))
               fitsLater == max(later.earliestVsync, Lead(later))
    <2>1. /\ timing \in Timing /\ (last # None => last \in Int)
          /\ e.mArmedInfo.vsync \in Int
          /\ e.mArmedInfo.vsync <= MayBeArmedFrom(timing, last) + Period
          /\ r.mArmedInfo.vsync = e.mArmedInfo.vsync - 1
      BY <1>4, <1>5, <1>6, <1>9 DEF GoodEntry, Entries, Optional
    <2>2. /\ fits \in Nat /\ fitsLater \in Nat /\ fits - 1 <= fitsLater
      <3>1. /\ later = [timing EXCEPT !.earliestVsync = EarlierDownTo0(timing.earliestVsync)]
            /\ timing.earliestVsync \in Nat /\ Lead(timing) \in Nat
        BY <2>1, NoneAssumption, SMT DEF EarlierTiming, Timing, Lead
      <3>2. /\ later.earliestVsync = EarlierDownTo0(timing.earliestVsync)
            /\ Lead(later) = Lead(timing)
        BY <2>1, <3>1 DEF Timing, Lead
      <3>3. QED
        BY <3>1, <3>2, SMT DEF max, EarlierDownTo0
    <2> HIDE DEF fits, fitsLater, later, timing, last
    <2>3. e.mArmedInfo.vsync <= (IF last = None THEN fits ELSE max(fits, last + Period)) + Period
      BY <2>1 DEF MayBeArmedFrom, fits
    <2>4. EarlierDispatch(last) = IF last = None \/ last - 1 <= -Period THEN None ELSE last - 1
      BY DEF EarlierDispatch
    <2>5. Period \in Nat /\ None \notin Int
      BY DispatchAssumption, NoneAssumption
    <2>6. r.mArmedInfo.vsync <=
            (IF EarlierDispatch(last) = None THEN fitsLater
             ELSE max(fitsLater, EarlierDispatch(last) + Period)) + Period
      <3>1. CASE last = None
        BY <2>1, <2>2, <2>3, <2>4, <2>5, <3>1, SMT
      <3>2. CASE last # None /\ last - 1 <= -Period
        BY <2>1, <2>2, <2>3, <2>4, <2>5, <3>2, SMT DEF max
      <3>3. CASE last # None /\ ~(last - 1 <= -Period)
        <4>1. last \in Int /\ EarlierDispatch(last) = last - 1 /\ last - 1 # None
          BY <2>1, <2>4, <2>5, <3>3, SMT
        <4>2. QED
          BY <2>1, <2>2, <2>3, <2>5, <3>3, <4>1, SMT DEF max
      <3>4. QED
        BY <3>1, <3>2, <3>3
    <2>7. QED
      BY <1>5, <2>6 DEF MayBeArmedFrom, fitsLater, later, timing, last
  <1>10. QED
    BY <1>5, <1>6, <1>7, <1>8, <1>9 DEF GoodEntry, r

(***************************************************************************)
(* The dispatch, with mMutex held.                                         *)
(***************************************************************************)
\* A function from a finite set to the integers has a least value: the smallest
\* subset on which it had none would have one without any of its elements.
LEMMA LeastValue ==
  ASSUME NEW S, IsFiniteSet(S), S # {}, NEW f \in [S -> Int]
  PROVE  \E x \in S : \A y \in S : f[x] <= f[y]
  <1> DEFINE HasLeast(A) == \E x \in A : \A y \in A : f[x] <= f[y]
             bad == {A \in SUBSET S : A # {} /\ ~HasLeast(A)}
  <1>1. SUFFICES ASSUME ~HasLeast(S) PROVE FALSE
    OBVIOUS
  <1>2. bad # {} /\ bad \subseteq SUBSET S
    BY <1>1
  <1>3. IsWellFoundedOn(StrictSubsetOrdering(S), SUBSET S)
    BY FS_StrictSubsetOrderingWellFounded, FS_FiniteSubsetsOfFinite
  <1> HIDE DEF bad
  <1>4. PICK A \in bad : \A B \in bad : ~(<<B, A>> \in StrictSubsetOrdering(S))
    BY <1>2, <1>3, WFMin
  <1>5. A \subseteq S /\ A # {} /\ ~HasLeast(A)
    BY <1>4 DEF bad
  <1>6. PICK a \in A : TRUE
    BY <1>5
  <1> DEFINE B == A \ {a}
  <1>7. <<B, A>> \in StrictSubsetOrdering(S)
    BY <1>5, <1>6 DEF StrictSubsetOrdering
  <1>8. B = {} \/ HasLeast(B)
    BY <1>4, <1>5, <1>7 DEF bad
  <1>9. CASE B = {}
    BY <1>5, <1>6, <1>9, SMT
  <1>10. CASE HasLeast(B)
    <2>1. PICK b \in B : \A y \in B : f[b] <= f[y]
      BY <1>10
    <2>2. f[a] \in Int /\ f[b] \in Int /\ \A y \in A : f[y] \in Int
      BY <1>5, <1>6
    <2>3. CASE f[a] <= f[b]
      BY <1>5, <1>6, <2>1, <2>2, <2>3, SMT
    <2>4. CASE f[b] <= f[a]
      BY <1>5, <1>6, <2>1, <2>2, <2>4
    <2>5. QED
      BY <2>2, <2>3, <2>4, SMT
  <1>11. QED
    BY <1>8, <1>9, <1>10

\* Types, tokens in use are tokens handed out, and every entry is good.
GoodDispatch(d) ==
  /\ d \in Dispatches(DOMAIN d.mCallbacks)
  /\ DOMAIN d.mCallbacks \subseteq 1..d.mCallbackToken
  /\ \A t \in DOMAIN d.mCallbacks : GoodEntry(d.mCallbacks[t])

\* The part of WakeupsCovered and WakeupsInTime under mMutex.  A timing waits in an
\* entry only while the timer thread is late.
Covered(d) ==
  /\ -MaxLate <= d.mIntendedWakeupTime /\ d.mIntendedWakeupTime <= kInvalidTime
  /\ \A t \in DOMAIN d.mCallbacks :
       /\ Armed(d.mCallbacks[t]) =>
            d.mIntendedWakeupTime <= d.mCallbacks[t].mArmedInfo.wakeup + TimerSlack
       /\ HasPendingWorkloadUpdate(d.mCallbacks[t]) => d.mIntendedWakeupTime < 0

AlarmSet(d) == d.mIntendedWakeupTime # kInvalidTime => d.alarm = d.mIntendedWakeupTime

\* A timer thread that wakes up finds what it has to run.
CallbackSet(d) == d.mIntendedWakeupTime # kInvalidTime => d.mCallback

\* r has the callbacks of d.
SameCallbacks(d, r) ==
  /\ r.mCallbackToken = d.mCallbackToken
  /\ DOMAIN r.mCallbacks = DOMAIN d.mCallbacks
  /\ \A t \in DOMAIN d.mCallbacks : r.mCallbacks[t].mName = d.mCallbacks[t].mName

\* The fields of a good dispatch.
LEMMA DispatchFields ==
  ASSUME NEW d, GoodDispatch(d)
  PROVE  /\ d.mCallbackToken \in Tokens /\ d.mCallbackToken \in Nat
         /\ d.mIntendedWakeupTime \in Int
         /\ IsFiniteSet(DOMAIN d.mCallbacks) /\ DOMAIN d.mCallbacks \subseteq Tokens
         /\ \A t \in DOMAIN d.mCallbacks :
              Armed(d.mCallbacks[t]) => d.mCallbacks[t].mArmedInfo.wakeup \in Int
  <1>1. d.mCallbackToken \in Tokens /\ d.mIntendedWakeupTime \in Int
    BY DEF GoodDispatch, Dispatches
  <1>2. Cardinality(Tokens) \in Nat /\ Tokens = 1..Cardinality(Tokens)
    BY DispatchAssumption, FS_CardinalityType
  <1>3. d.mCallbackToken \in Nat /\ DOMAIN d.mCallbacks \subseteq Tokens
    BY <1>1, <1>2, SMT DEF GoodDispatch
  <1>4. IsFiniteSet(DOMAIN d.mCallbacks)
    BY <1>3, DispatchAssumption, FS_Subset
  <1>5. \A t \in DOMAIN d.mCallbacks :
          Armed(d.mCallbacks[t]) => d.mCallbacks[t].mArmedInfo.wakeup \in Int
    BY DEF GoodDispatch, GoodEntry, Armed, Entries, Optional, ArmingInfo
  <1>6. QED
    BY <1>1, <1>3, <1>4, <1>5

\* What rearmTimerSkippingUpdateFor makes of d: the entries are updated but for those
\* of skip, and the timer is set to the earliest wakeup if it is before the intended
\* one.
RearmedTo(d, skip, r) ==
  /\ GoodDispatch(r) /\ SameCallbacks(d, r)
  /\ \A t \in DOMAIN d.mCallbacks :
       r.mCallbacks[t] = IF t \in skip THEN d.mCallbacks[t]
                         ELSE EntryUpdate(d.mCallbacks[t])
  /\ \/ /\ r.mIntendedWakeupTime < d.mIntendedWakeupTime
        /\ r.alarm = r.mIntendedWakeupTime /\ r.mCallback
        /\ \E t \in DOMAIN r.mCallbacks :
             /\ Armed(r.mCallbacks[t])
             /\ r.mIntendedWakeupTime = r.mCallbacks[t].mArmedInfo.wakeup
        /\ \A t \in DOMAIN r.mCallbacks :
             Armed(r.mCallbacks[t]) =>
               r.mIntendedWakeupTime <= r.mCallbacks[t].mArmedInfo.wakeup
     \/ /\ r.mIntendedWakeupTime = kInvalidTime
        /\ \A t \in DOMAIN r.mCallbacks :
             Armed(r.mCallbacks[t]) =>
               d.mIntendedWakeupTime <= r.mCallbacks[t].mArmedInfo.wakeup

\* rearmTimerSkippingUpdateFor updates the other entries, and sets the timer to
\* the earliest wakeup if that comes sooner.
LEMMA Rearms ==
  ASSUME vsyncPhase \in 1..Period, NEW d, GoodDispatch(d), NEW skip
  PROVE  RearmedTo(d, skip, rearmTimerSkippingUpdateFor(d, skip))
  <1> DEFINE r == rearmTimerSkippingUpdateFor(d, skip)
             dom == DOMAIN d.mCallbacks
             cbs == [t \in dom |-> IF t \in skip THEN d.mCallbacks[t]
                                   ELSE EntryUpdate(d.mCallbacks[t])]
             armed == {u \in dom : Armed(cbs[u])}
             wakeups == {cbs[t].mArmedInfo.wakeup : t \in armed}
             updated == [d EXCEPT !.mCallbacks = cbs]
             first == CHOOSE w \in wakeups : \A v \in wakeups : w <= v
             sooner == \E w \in wakeups : w < d.mIntendedWakeupTime
  <1>1. \A t \in dom : GoodEntry(d.mCallbacks[t]) /\ GoodEntry(EntryUpdate(d.mCallbacks[t]))
                       /\ EntryUpdate(d.mCallbacks[t]).mName = d.mCallbacks[t].mName
    <2>1. SUFFICES ASSUME NEW t \in dom
                   PROVE  /\ GoodEntry(d.mCallbacks[t])
                          /\ GoodEntry(EntryUpdate(d.mCallbacks[t]))
                          /\ EntryUpdate(d.mCallbacks[t]).mName = d.mCallbacks[t].mName
      OBVIOUS
    <2>2. GoodEntry(d.mCallbacks[t])
      BY DEF GoodDispatch
    <2>3. QED
      BY <2>2, EntryUpdates
  <1>2. /\ \A t \in dom : GoodEntry(cbs[t]) /\ cbs[t].mName = d.mCallbacks[t].mName
        /\ cbs \in [dom -> Entries]
    BY <1>1 DEF GoodEntry
  <1>3. \A t \in armed : cbs[t].mArmedInfo.wakeup \in Int
    BY <1>2 DEF GoodEntry, Armed, Entries, Optional, ArmingInfo
  <1>4. r = IF sooner THEN setTimer(updated, first) ELSE cancelTimer(updated)
    BY SMT DEF rearmTimerSkippingUpdateFor
  <1>5. /\ updated \in Dispatches(dom) /\ updated.mCallbacks = cbs
        /\ updated.mCallbackToken = d.mCallbackToken
    <2> HIDE DEF cbs
    <2>1. QED
      BY <1>2 DEF GoodDispatch, Dispatches
  <1>6. dom \subseteq 1..d.mCallbackToken /\ IsFiniteSet(dom) /\ d.mIntendedWakeupTime \in Int
    BY DispatchFields DEF GoodDispatch
  <1> HIDE DEF updated
  <1>7. CASE ~sooner
    <2>1. r = [updated EXCEPT !.mIntendedWakeupTime = kInvalidTime, !.alarm = None,
                              !.mCallback = FALSE]
      BY <1>4, <1>7 DEF cancelTimer
    <2>2. kInvalidTime \in Int
      BY DispatchAssumption, SMT
    <2>3. \A t \in armed : d.mIntendedWakeupTime <= cbs[t].mArmedInfo.wakeup
      <3> HIDE DEF cbs
      <3>1. QED
        BY <1>3, <1>6, <1>7, SMT
    <2> HIDE DEF r, cbs
    <2>4. /\ r \in Dispatches(dom) /\ r.mCallbacks = cbs
          /\ r.mCallbackToken = d.mCallbackToken /\ r.mIntendedWakeupTime = kInvalidTime
      BY <1>5, <2>1, <2>2 DEF Dispatches, Optional
    <2>5. DOMAIN cbs = dom
      BY DEF cbs
    <2>6. GoodDispatch(r) /\ SameCallbacks(d, r)
      BY <1>2, <1>6, <2>4, <2>5 DEF GoodDispatch, SameCallbacks
    <2>7. \A t \in dom : r.mCallbacks[t] = IF t \in skip THEN d.mCallbacks[t]
                                           ELSE EntryUpdate(d.mCallbacks[t])
      BY <2>4 DEF cbs
    <2>8. \A t \in DOMAIN r.mCallbacks : Armed(r.mCallbacks[t]) =>
            d.mIntendedWakeupTime <= r.mCallbacks[t].mArmedInfo.wakeup
      BY <2>3, <2>4, <2>5
    <2>9. QED
      BY <2>4, <2>6, <2>7, <2>8 DEF r, RearmedTo
  <1>8. CASE sooner
    <2> HIDE DEF cbs
    <2> DEFINE f == [t \in armed |-> cbs[t].mArmedInfo.wakeup]
    <2>1. armed # {} /\ IsFiniteSet(armed) /\ f \in [armed -> Int]
      BY <1>3, <1>6, <1>8, FS_Subset
    <2>2. PICK x \in armed : \A y \in armed : f[x] <= f[y]
      BY <2>1, LeastValue
    <2>3. /\ first \in wakeups
          /\ \A v \in wakeups : first <= v
      BY <2>2
    <2> HIDE DEF first
    <2>4. first \in Int /\ first < d.mIntendedWakeupTime
      <3>1. wakeups \subseteq Int
        BY <1>3
      <3>2. PICK w \in wakeups : w < d.mIntendedWakeupTime
        BY <1>8
      <3> HIDE DEF wakeups
      <3>3. w \in Int /\ first \in Int /\ first <= w
        BY <2>3, <3>1, <3>2
      <3>4. QED
        BY <1>6, <3>2, <3>3, SMT
    <2>5. r = [updated EXCEPT !.mIntendedWakeupTime = first, !.alarm = first,
                              !.mCallback = TRUE]
      BY <1>4, <1>8 DEF setTimer
    <2> HIDE DEF r
    <2>6. /\ r \in Dispatches(dom) /\ r.mCallbacks = cbs
          /\ r.mCallbackToken = d.mCallbackToken /\ r.mIntendedWakeupTime = first
          /\ r.alarm = first /\ r.mCallback
      BY <1>5, <2>4, <2>5 DEF Dispatches, Optional
    <2>7. DOMAIN cbs = dom
      BY DEF cbs
    <2>8. GoodDispatch(r) /\ SameCallbacks(d, r)
      BY <1>2, <1>6, <2>6, <2>7 DEF GoodDispatch, SameCallbacks
    <2>9. \A t \in dom : r.mCallbacks[t] = IF t \in skip THEN d.mCallbacks[t]
                                           ELSE EntryUpdate(d.mCallbacks[t])
      BY <2>6 DEF cbs
    <2>10. /\ \E t \in DOMAIN r.mCallbacks :
                /\ Armed(r.mCallbacks[t])
                /\ r.mIntendedWakeupTime = r.mCallbacks[t].mArmedInfo.wakeup
           /\ \A t \in DOMAIN r.mCallbacks : Armed(r.mCallbacks[t]) =>
                r.mIntendedWakeupTime <= r.mCallbacks[t].mArmedInfo.wakeup
      BY <2>3, <2>6, <2>7
    <2>11. QED
      BY <2>4, <2>6, <2>8, <2>9, <2>10 DEF r, RearmedTo
  <1>9. QED
    BY <1>7, <1>8

\* Replacing an entry by a good one of the same name.
LEMMA EntryReplaced ==
  ASSUME NEW d, GoodDispatch(d), NEW token \in DOMAIN d.mCallbacks, NEW e, GoodEntry(e),
         e.mName = d.mCallbacks[token].mName
  PROVE  LET r == [d EXCEPT !.mCallbacks[token] = e] IN
         /\ GoodDispatch(r) /\ SameCallbacks(d, r)
         /\ r.mIntendedWakeupTime = d.mIntendedWakeupTime
         /\ r.alarm = d.alarm /\ r.mCallback = d.mCallback
         /\ r.mCallbacks[token] = e
         /\ \A t \in DOMAIN d.mCallbacks \ {token} : r.mCallbacks[t] = d.mCallbacks[t]
  <1> DEFINE r == [d EXCEPT !.mCallbacks[token] = e]
             dom == DOMAIN d.mCallbacks
  <1>1. e \in Entries /\ d \in Dispatches(dom)
    BY DEF GoodEntry, GoodDispatch
  <1>2. /\ r \in Dispatches(dom) /\ DOMAIN r.mCallbacks = dom
        /\ r.mCallbackToken = d.mCallbackToken
        /\ r.mIntendedWakeupTime = d.mIntendedWakeupTime
        /\ r.alarm = d.alarm /\ r.mCallback = d.mCallback
        /\ r.mCallbacks[token] = e
        /\ \A t \in dom \ {token} : r.mCallbacks[t] = d.mCallbacks[t]
    BY <1>1 DEF Dispatches
  <1> HIDE DEF r
  <1>3. GoodDispatch(r) /\ SameCallbacks(d, r)
    BY <1>2 DEF GoodDispatch, SameCallbacks
  <1>4. QED
    BY <1>2, <1>3 DEF r

\* Setting the timer anew covers every wakeup (rearmTimer, after mIntendedWakeupTime
\* was made invalid).
LEMMA RearmCovers ==
  ASSUME vsyncPhase \in 1..Period, NEW d, GoodDispatch(d),
         d.mIntendedWakeupTime = kInvalidTime
  PROVE  LET r == rearmTimer(d) IN
         /\ GoodDispatch(r) /\ SameCallbacks(d, r)
         /\ \A t \in DOMAIN d.mCallbacks : Awaits(d.mCallbacks[t]) => Awaits(r.mCallbacks[t])
         /\ Covered(r) /\ AlarmSet(r) /\ CallbackSet(r)
  <1> DEFINE r == rearmTimerSkippingUpdateFor(d, {})
  <1>0. RearmedTo(d, {}, r)
    BY Rearms
  <1> HIDE DEF r
  <1>1. /\ GoodDispatch(r) /\ SameCallbacks(d, r)
        /\ \A t \in DOMAIN d.mCallbacks : r.mCallbacks[t] = EntryUpdate(d.mCallbacks[t])
    BY <1>0 DEF RearmedTo
  <1>3. \A t \in DOMAIN d.mCallbacks :
          /\ ~HasPendingWorkloadUpdate(r.mCallbacks[t])
          /\ Armed(r.mCallbacks[t]) <=> Awaits(d.mCallbacks[t])
          /\ Armed(r.mCallbacks[t]) => r.mCallbacks[t].mArmedInfo.wakeup >= 0
    <2>1. \A t \in DOMAIN d.mCallbacks : GoodEntry(d.mCallbacks[t])
      BY DEF GoodDispatch
    <2>2. QED
      BY <1>1, <2>1, EntryUpdates
  <1>4. /\ DOMAIN r.mCallbacks = DOMAIN d.mCallbacks
        /\ r.mIntendedWakeupTime \in Int
        /\ \A t \in DOMAIN r.mCallbacks :
             Armed(r.mCallbacks[t]) => r.mCallbacks[t].mArmedInfo.wakeup \in Int
    BY <1>1, DispatchFields DEF SameCallbacks
  <1>5. kInvalidTime \in Nat /\ TimerSlack \in Nat /\ MaxLate \in Nat
    BY DispatchAssumption
  <1>6. Covered(r) /\ AlarmSet(r) /\ CallbackSet(r)
    <2>1. ASSUME NEW t \in DOMAIN r.mCallbacks, Armed(r.mCallbacks[t])
          PROVE  r.mIntendedWakeupTime <= r.mCallbacks[t].mArmedInfo.wakeup + TimerSlack
      BY <1>0, <1>4, <1>5, <2>1, SMT DEF RearmedTo
    <2>2. -MaxLate <= r.mIntendedWakeupTime /\ r.mIntendedWakeupTime <= kInvalidTime
      BY <1>0, <1>3, <1>4, <1>5, SMT DEF RearmedTo
    <2>3. r.mIntendedWakeupTime # kInvalidTime =>
            r.mCallback /\ r.alarm = r.mIntendedWakeupTime
      BY <1>0 DEF RearmedTo
    <2>4. QED
      BY <1>3, <1>4, <2>1, <2>2, <2>3 DEF Covered, AlarmSet, CallbackSet
  <1>7. QED
    BY <1>1, <1>3, <1>6 DEF rearmTimer, Awaits, r

\* An operation that makes r of d leaves the callbacks registered and awaited, but
\* for those it cancels, and the timer covers them as before.
Serves(d, r, cancelled) ==
  /\ GoodDispatch(r) /\ SameCallbacks(d, r)
  /\ \A t \in DOMAIN d.mCallbacks \ cancelled :
       Awaits(d.mCallbacks[t]) => Awaits(r.mCallbacks[t])
  /\ Covered(d) => Covered(r)
  /\ AlarmSet(d) => AlarmSet(r)
  /\ CallbackSet(d) => CallbackSet(r)

\* Serving all serves those that are not cancelled.
LEMMA ServesMore ==
  \A d, r, cancelled : Serves(d, r, {}) => Serves(d, r, cancelled)
  BY DEF Serves

\* Scheduling a registered callback: it is awaited, the others still are, and the
\* timer covers them all.  A callback that becomes the first sets the timer anew;
\* when the timer thread is late its timing waits (schedule, scheduleLocked).
LEMMA Schedules ==
  ASSUME vsyncPhase \in 1..Period, NEW d, GoodDispatch(d),
         NEW token \in DOMAIN d.mCallbacks, NEW timing \in Timing
  PROVE  LET r == schedule(d, token, timing)
         IN  Serves(d, r, {}) /\ Awaits(r.mCallbacks[token])
  <1> DEFINE r == schedule(d, token, timing)
             dom == DOMAIN d.mCallbacks
             e == d.mCallbacks[token]
             scheduled == EntrySchedule(e, timing)
             d2 == [d EXCEPT !.mCallbacks[token] = scheduled]
  <1>1. /\ GoodEntry(e)
        /\ GoodEntry(scheduled) /\ Armed(scheduled) /\ scheduled.mName = e.mName
        /\ scheduled.mWorkloadUpdateInfo = e.mWorkloadUpdateInfo
        /\ scheduled = e \/ scheduled.mArmedInfo.wakeup >= 0
    <2>1. GoodEntry(e)
      BY DEF GoodDispatch
    <2>2. QED
      BY <2>1, EntrySchedules
  <1>2. /\ GoodDispatch(d2) /\ SameCallbacks(d, d2)
        /\ d2.mIntendedWakeupTime = d.mIntendedWakeupTime
        /\ d2.alarm = d.alarm /\ d2.mCallback = d.mCallback
        /\ d2.mCallbacks[token] = scheduled
        /\ \A t \in dom \ {token} : d2.mCallbacks[t] = d.mCallbacks[t]
    BY <1>1, EntryReplaced, SMT
  <1>3. kInvalidTime \in Nat /\ TimerSlack \in Nat /\ MaxLate \in Nat
    BY DispatchAssumption
  <1>4. d.mIntendedWakeupTime \in Int /\ scheduled.mArmedInfo.wakeup \in Int
        /\ DOMAIN d2.mCallbacks = dom
    <2>1. \A t \in dom : Armed(d2.mCallbacks[t]) => d2.mCallbacks[t].mArmedInfo.wakeup \in Int
      BY <1>2, DispatchFields DEF SameCallbacks
    <2>2. QED
      BY <1>1, <1>2, <2>1, DispatchFields DEF SameCallbacks
  <1> HIDE DEF scheduled
  <1>5. CASE RearmImminent(d)
    <2> DEFINE waiting == [e EXCEPT !.mWorkloadUpdateInfo = timing]
    <2>1. r = [d EXCEPT !.mCallbacks[token].mWorkloadUpdateInfo = timing]
      BY <1>5 DEF schedule
    <2>2. r = [d EXCEPT !.mCallbacks[token] = waiting]
      BY <2>1
    <2>3. /\ GoodEntry(waiting) /\ waiting.mName = e.mName
          /\ waiting.mArmedInfo = e.mArmedInfo /\ HasPendingWorkloadUpdate(waiting)
      BY <1>1, NoneAssumption
         DEF GoodEntry, HasPendingWorkloadUpdate, Entries, Optional, Armed
    <2> HIDE DEF r, waiting
    <2>4. /\ GoodDispatch(r) /\ SameCallbacks(d, r)
          /\ r.mIntendedWakeupTime = d.mIntendedWakeupTime
          /\ r.alarm = d.alarm /\ r.mCallback = d.mCallback
          /\ r.mCallbacks[token] = waiting
          /\ \A t \in dom \ {token} : r.mCallbacks[t] = d.mCallbacks[t]
      BY <2>2, <2>3, EntryReplaced, SMT
    <2>5. d.mIntendedWakeupTime < 0
      BY <1>4, <1>5 DEF RearmImminent
    <2>6. Awaits(r.mCallbacks[token])
          /\ \A t \in dom : Awaits(d.mCallbacks[t]) => Awaits(r.mCallbacks[t])
      BY <2>3, <2>4 DEF Awaits
    <2>7. Covered(d) => Covered(r)
      BY <2>3, <2>4, <2>5 DEF Covered, SameCallbacks, Armed
    <2>8. QED
      BY <2>4, <2>6, <2>7 DEF Serves, AlarmSet, CallbackSet, r
  <1>6. CASE /\ ~RearmImminent(d)
             /\ scheduled.mArmedInfo.wakeup < d.mIntendedWakeupTime - TimerSlack
    <2>1. r = rearmTimerSkippingUpdateFor(d2, {token})
      BY <1>6 DEF schedule, scheduled
    <2> HIDE DEF r, d2
    <2>2. RearmedTo(d2, {token}, r)
      BY <1>2, <2>1, Rearms
    <2>3. /\ DOMAIN r.mCallbacks = dom /\ r.mIntendedWakeupTime \in Int
          /\ \A t \in dom :
               Armed(r.mCallbacks[t]) => r.mCallbacks[t].mArmedInfo.wakeup \in Int
      BY <1>4, <2>2, DispatchFields DEF RearmedTo, SameCallbacks
    <2>4. /\ r.mCallbacks[token] = scheduled
          /\ \A t \in dom \ {token} : r.mCallbacks[t] = EntryUpdate(d.mCallbacks[t])
      BY <1>2, <1>4, <2>2 DEF RearmedTo
    <2>5. \A t \in dom \ {token} :
            /\ ~HasPendingWorkloadUpdate(r.mCallbacks[t])
            /\ Armed(r.mCallbacks[t]) <=> Awaits(d.mCallbacks[t])
            /\ Armed(r.mCallbacks[t]) => r.mCallbacks[t].mArmedInfo.wakeup >= 0
      <3>1. \A t \in dom : GoodEntry(d.mCallbacks[t])
        BY DEF GoodDispatch
      <3>2. QED
        BY <2>4, <3>1, EntryUpdates
    <2>6. \A t \in dom : Awaits(d.mCallbacks[t]) => Awaits(r.mCallbacks[t])
      BY <1>1, <2>4, <2>5 DEF Awaits
    <2>7. Awaits(r.mCallbacks[token])
      BY <1>1, <2>4 DEF Awaits
    <2>8. /\ r.mIntendedWakeupTime < d.mIntendedWakeupTime
          /\ r.alarm = r.mIntendedWakeupTime /\ r.mCallback
          /\ \E t \in dom :
               /\ Armed(r.mCallbacks[t])
               /\ r.mIntendedWakeupTime = r.mCallbacks[t].mArmedInfo.wakeup
          /\ \A t \in dom :
               Armed(r.mCallbacks[t]) =>
                 r.mIntendedWakeupTime <= r.mCallbacks[t].mArmedInfo.wakeup
      <3>1. ~(d2.mIntendedWakeupTime <= r.mCallbacks[token].mArmedInfo.wakeup)
        BY <1>2, <1>3, <1>4, <1>6, <2>4, SMT
      <3>2. QED
        BY <1>1, <1>2, <2>2, <2>3, <2>4, <3>1 DEF RearmedTo
    <2>9. ASSUME Covered(d)
          PROVE  Covered(r)
      <3>1. d.mIntendedWakeupTime >= 0
        BY <1>4, <1>6, SMT DEF RearmImminent
      <3>2. ~HasPendingWorkloadUpdate(scheduled)
        BY <1>1, <1>4, <2>9, <3>1, SMT DEF Covered, HasPendingWorkloadUpdate
      <3>3. scheduled.mArmedInfo.wakeup >= 0
        <4>1. scheduled # e
          BY <1>1, <1>3, <1>4, <1>6, <2>9, SMT DEF Covered
        <4>2. QED
          BY <1>1, <4>1
      <3>4. r.mIntendedWakeupTime >= 0
        BY <2>4, <2>5, <2>8, <3>3
      <3>5. -MaxLate <= r.mIntendedWakeupTime /\ r.mIntendedWakeupTime <= kInvalidTime
        BY <1>3, <1>4, <2>3, <2>8, <2>9, <3>4, SMTT(30) DEF Covered
      <3>6. ASSUME NEW t \in dom
            PROVE  /\ Armed(r.mCallbacks[t]) =>
                        r.mIntendedWakeupTime <= r.mCallbacks[t].mArmedInfo.wakeup + TimerSlack
                   /\ ~HasPendingWorkloadUpdate(r.mCallbacks[t])
        BY <1>3, <2>3, <2>4, <2>5, <2>8, <3>2, SMT
      <3>7. QED
        BY <2>3, <2>8, <3>5, <3>6 DEF Covered
    <2>10. SameCallbacks(d, r)
      BY <1>2, <2>2 DEF RearmedTo, SameCallbacks
    <2>11. QED
      BY <2>2, <2>6, <2>7, <2>8, <2>9, <2>10 DEF RearmedTo, Serves, AlarmSet, CallbackSet, r
  <1>7. CASE /\ ~RearmImminent(d)
             /\ ~(scheduled.mArmedInfo.wakeup < d.mIntendedWakeupTime - TimerSlack)
    <2>1. r = d2
      BY <1>7 DEF schedule, scheduled
    <2> HIDE DEF r, d2
    <2>2. Awaits(r.mCallbacks[token])
          /\ \A t \in dom : Awaits(d.mCallbacks[t]) => Awaits(r.mCallbacks[t])
      BY <1>1, <1>2, <2>1 DEF Awaits
    <2>3. ASSUME Covered(d)
          PROVE  Covered(r)
      <3>1. d.mIntendedWakeupTime <= scheduled.mArmedInfo.wakeup + TimerSlack
        BY <1>3, <1>4, <1>7, SMT
      <3>2. HasPendingWorkloadUpdate(scheduled) => d.mIntendedWakeupTime < 0
        BY <1>1, <2>3 DEF Covered, HasPendingWorkloadUpdate
      <3>3. QED
        BY <1>2, <1>4, <2>1, <2>3, <3>1, <3>2 DEF Covered
    <2>4. QED
      BY <1>2, <2>1, <2>2, <2>3 DEF Serves, AlarmSet, CallbackSet, r
  <1>8. QED
    BY <1>5, <1>6, <1>7

\* update of a registered callback schedules it if it was scheduled.
LEMMA Updates ==
  ASSUME vsyncPhase \in 1..Period, NEW d, GoodDispatch(d),
         NEW token \in DOMAIN d.mCallbacks, NEW timing \in Timing
  PROVE  LET r == update(d, token, timing)
         IN  Serves(d, r, {}) /\ (Armed(d.mCallbacks[token]) => Awaits(r.mCallbacks[token]))
  <1>1. Serves(d, d, {})
    BY DEF Serves, SameCallbacks
  <1>2. QED
    BY <1>1, Schedules DEF update

\* Cancelling a callback: only that one is not awaited any more, and when it was the
\* first one the timer is set for the next (cancel).
LEMMA Cancels ==
  ASSUME vsyncPhase \in 1..Period, NEW d, GoodDispatch(d), NEW token \in DOMAIN d.mCallbacks
  PROVE  Serves(d, cancel(d, token), {token})
  <1> DEFINE r == cancel(d, token)
             dom == DOMAIN d.mCallbacks
             e == Disarm(d.mCallbacks[token])
             d2 == [d EXCEPT !.mCallbacks[token] = e]
             d3 == [d2 EXCEPT !.mIntendedWakeupTime = kInvalidTime]
  <1>1. CASE CancelResult(d, token) # "Cancelled"
    BY <1>1 DEF cancel, Serves, SameCallbacks
  <1>2. /\ GoodEntry(e) /\ ~Armed(e) /\ e.mName = d.mCallbacks[token].mName
        /\ e.mWorkloadUpdateInfo = d.mCallbacks[token].mWorkloadUpdateInfo
    <2>1. GoodEntry(d.mCallbacks[token])
      BY DEF GoodDispatch
    <2>2. QED
      BY <2>1, EntryDisarms
  <1>3. /\ GoodDispatch(d2) /\ SameCallbacks(d, d2)
        /\ d2.mIntendedWakeupTime = d.mIntendedWakeupTime
        /\ d2.alarm = d.alarm /\ d2.mCallback = d.mCallback
        /\ d2.mCallbacks[token] = e
        /\ \A t \in dom \ {token} : d2.mCallbacks[t] = d.mCallbacks[t]
    <2> HIDE DEF e
    <2>1. QED
      BY <1>2, EntryReplaced, SMT
  <1>4. CASE /\ CancelResult(d, token) = "Cancelled"
             /\ d.mCallbacks[token].mArmedInfo.wakeup = d.mIntendedWakeupTime
    <2>1. r = rearmTimer(d3)
      BY <1>4 DEF cancel
    <2> HIDE DEF r, d2, e
    <2>2. /\ GoodDispatch(d3) /\ d3.mIntendedWakeupTime = kInvalidTime
          /\ d3.mCallbacks = d2.mCallbacks /\ d3.mCallbackToken = d2.mCallbackToken
      <3>1. kInvalidTime \in Int
        BY DispatchAssumption, SMT
      <3>2. QED
        BY <1>3, <3>1 DEF GoodDispatch, Dispatches
    <2> HIDE DEF d3
    <2>3. /\ GoodDispatch(r) /\ SameCallbacks(d3, r)
          /\ \A t \in DOMAIN d3.mCallbacks : Awaits(d3.mCallbacks[t]) => Awaits(r.mCallbacks[t])
          /\ Covered(r) /\ AlarmSet(r) /\ CallbackSet(r)
      BY <2>1, <2>2, RearmCovers
    <2>4. QED
      BY <1>3, <2>2, <2>3 DEF Serves, SameCallbacks, r
  <1>5. CASE /\ CancelResult(d, token) = "Cancelled"
             /\ d.mCallbacks[token].mArmedInfo.wakeup # d.mIntendedWakeupTime
    <2>1. r = d2
      BY <1>5 DEF cancel
    <2> HIDE DEF r, d2, e
    <2>2. DOMAIN d2.mCallbacks = dom
      BY <1>3 DEF SameCallbacks
    <2>3. Covered(d) => Covered(d2)
      BY <1>2, <1>3, <2>2 DEF Covered, HasPendingWorkloadUpdate
    <2>4. QED
      BY <1>3, <2>1, <2>3 DEF Serves, AlarmSet, CallbackSet, r
  <1>6. QED
    BY <1>1, <1>4, <1>5

\* A new callback has a token of its own and nothing waits for it
\* (registerCallback).
LEMMA Registers ==
  ASSUME NEW d, GoodDispatch(d), d.mCallbackToken + 1 \in Tokens, NEW name \in Clients
  PROVE  LET r == registerCallback(d, name)
             token == d.mCallbackToken + 1
         IN  /\ GoodDispatch(r)
             /\ r.mCallbackToken = token /\ token \notin DOMAIN d.mCallbacks
             /\ DOMAIN r.mCallbacks = DOMAIN d.mCallbacks \cup {token}
             /\ \A t \in DOMAIN d.mCallbacks : r.mCallbacks[t] = d.mCallbacks[t]
             /\ r.mCallbacks[token].mName = name
             /\ Covered(d) => Covered(r)
             /\ AlarmSet(d) => AlarmSet(r)
             /\ CallbackSet(d) => CallbackSet(r)
  <1> DEFINE r == registerCallback(d, name)
             token == d.mCallbackToken + 1
             dom == DOMAIN d.mCallbacks
             cbs == [t \in dom \cup {token} |-> IF t = token THEN NewEntry(name)
                                                ELSE d.mCallbacks[t]]
  <1>1. r = [d EXCEPT !.mCallbackToken = token, !.mCallbacks = cbs]
    BY DEF registerCallback
  <1>2. token \notin dom /\ dom \cup {token} \subseteq 1..token
    BY DispatchFields, SMT DEF GoodDispatch
  <1>3. /\ GoodEntry(NewEntry(name)) /\ NewEntry(name).mName = name
        /\ ~Armed(NewEntry(name)) /\ ~HasPendingWorkloadUpdate(NewEntry(name))
    BY NewEntryGood DEF Awaits
  <1>4. /\ DOMAIN cbs = dom \cup {token} /\ cbs \in [dom \cup {token} -> Entries]
        /\ cbs[token] = NewEntry(name)
        /\ \A t \in dom : cbs[t] = d.mCallbacks[t]
        /\ \A t \in dom \cup {token} : GoodEntry(cbs[t])
    BY <1>2, <1>3 DEF GoodDispatch, GoodEntry
  <1> HIDE DEF cbs, r
  <1>5. /\ r \in Dispatches(dom \cup {token}) /\ r.mCallbacks = cbs /\ r.mCallbackToken = token
        /\ r.mIntendedWakeupTime = d.mIntendedWakeupTime
        /\ r.alarm = d.alarm /\ r.mCallback = d.mCallback
    BY <1>1, <1>4 DEF GoodDispatch, Dispatches
  <1>6. GoodDispatch(r)
    BY <1>2, <1>4, <1>5 DEF GoodDispatch
  <1>7. Covered(d) => Covered(r)
    BY <1>3, <1>4, <1>5, ZenonT(30) DEF Covered
  <1>8. QED
    BY <1>2, <1>3, <1>4, <1>5, <1>6, <1>7 DEF AlarmSet, CallbackSet, r

\* A callback that is unregistered leaves the others alone (unregisterCallback).
LEMMA Unregisters ==
  ASSUME NEW d, GoodDispatch(d), NEW token
  PROVE  LET r == Unregistered(d, token)
         IN  /\ GoodDispatch(r) /\ r.mCallbackToken = d.mCallbackToken
             /\ DOMAIN r.mCallbacks = DOMAIN d.mCallbacks \ {token}
             /\ \A t \in DOMAIN r.mCallbacks : r.mCallbacks[t] = d.mCallbacks[t]
             /\ Covered(d) => Covered(r)
             /\ AlarmSet(d) => AlarmSet(r)
             /\ CallbackSet(d) => CallbackSet(r)
  <1> DEFINE r == Unregistered(d, token)
             dom == DOMAIN d.mCallbacks \ {token}
             cbs == [t \in dom |-> d.mCallbacks[t]]
  <1>1. r = [d EXCEPT !.mCallbacks = cbs]
    BY DEF Unregistered, Restrict
  <1>2. /\ DOMAIN cbs = dom /\ cbs \in [dom -> Entries]
        /\ \A t \in dom : cbs[t] = d.mCallbacks[t] /\ GoodEntry(cbs[t])
    BY DEF GoodDispatch, GoodEntry
  <1> HIDE DEF cbs, r
  <1>3. /\ r \in Dispatches(dom) /\ r.mCallbacks = cbs /\ r.mCallbackToken = d.mCallbackToken
        /\ r.mIntendedWakeupTime = d.mIntendedWakeupTime
        /\ r.alarm = d.alarm /\ r.mCallback = d.mCallback
    BY <1>1, <1>2 DEF GoodDispatch, Dispatches
  <1>4. GoodDispatch(r)
    BY <1>2, <1>3 DEF GoodDispatch
  <1>5. Covered(d) => Covered(r)
    BY <1>2, <1>3 DEF Covered
  <1>6. QED
    BY <1>2, <1>3, <1>4, <1>5 DEF AlarmSet, CallbackSet, r

\* timerCallback with mMutex held: the callbacks that are due are taken out, the
\* others stay awaited and the timer is set for them.
LEMMA Executes ==
  ASSUME vsyncPhase \in 1..Period, NEW d, GoodDispatch(d)
  PROVE  LET r == rearmTimer(Executed(d)) IN
         /\ GoodDispatch(r) /\ SameCallbacks(d, r)
         /\ \A t \in DOMAIN d.mCallbacks \ DueTokens(d) :
              Awaits(d.mCallbacks[t]) => Awaits(r.mCallbacks[t])
         /\ Covered(r) /\ AlarmSet(r) /\ CallbackSet(r)
  <1> DEFINE dom == DOMAIN d.mCallbacks
             cbs == [t \in dom |-> IF t \in DueTokens(d) THEN Executing(d.mCallbacks[t])
                                   ELSE d.mCallbacks[t]]
             d2 == Executed(d)
             r == rearmTimer(d2)
  <1>1. d2 = [d EXCEPT !.mCallbacks = cbs, !.mIntendedWakeupTime = kInvalidTime]
    BY DEF Executed
  <1>2. /\ DOMAIN cbs = dom
        /\ \A t \in dom : GoodEntry(cbs[t]) /\ cbs[t].mName = d.mCallbacks[t].mName
        /\ \A t \in dom \ DueTokens(d) : cbs[t] = d.mCallbacks[t]
    <2>1. \A t \in dom : GoodEntry(d.mCallbacks[t])
      BY DEF GoodDispatch
    <2>2. \A t \in DueTokens(d) : t \in dom /\ Armed(d.mCallbacks[t])
      BY DEF DueTokens, Due
    <2>3. \A t \in DueTokens(d) : /\ GoodEntry(Executing(d.mCallbacks[t]))
                                  /\ Executing(d.mCallbacks[t]).mName = d.mCallbacks[t].mName
      BY <2>1, <2>2, EntryDisarms
    <2>4. QED
      BY <2>1, <2>2, <2>3
  <1>3. cbs \in [dom -> Entries]
    BY <1>2 DEF GoodEntry
  <1> HIDE DEF cbs, d2
  <1>4. /\ d2 \in Dispatches(dom) /\ d2.mCallbacks = cbs
        /\ d2.mCallbackToken = d.mCallbackToken /\ d2.mIntendedWakeupTime = kInvalidTime
    <2>1. kInvalidTime \in Int
      BY DispatchAssumption, SMT
    <2>2. QED
      BY <1>1, <1>3, <2>1 DEF GoodDispatch, Dispatches
  <1>5. GoodDispatch(d2)
    BY <1>2, <1>4 DEF GoodDispatch
  <1>6. /\ GoodDispatch(r) /\ SameCallbacks(d2, r)
        /\ \A t \in DOMAIN d2.mCallbacks : Awaits(d2.mCallbacks[t]) => Awaits(r.mCallbacks[t])
        /\ Covered(r) /\ AlarmSet(r) /\ CallbackSet(r)
    BY <1>4, <1>5, RearmCovers
  <1>7. QED
    BY <1>2, <1>4, <1>6 DEF SameCallbacks, d2

\* Every armed wakeup, with the slack, is a time before kInvalidTime, the largest nsecs_t
\* (some 292 years after boot).
TimesRepresentable ==
  \A t \in DOMAIN dispatch.mCallbacks :
    Armed(dispatch.mCallbacks[t]) =>
      dispatch.mCallbacks[t].mArmedInfo.wakeup + TimerSlack < kInvalidTime

\* As time passes the timer goes on covering the wakeups, because no wakeup is at the
\* end of time where kInvalidTime stands still.
LEMMA Ticks ==
  ASSUME GoodDispatch(dispatch), DispatchTick
  PROVE  /\ GoodDispatch(dispatch') /\ SameCallbacks(dispatch, dispatch')
         /\ \A t \in DOMAIN dispatch.mCallbacks :
              Awaits(dispatch.mCallbacks[t]) => Awaits(dispatch'.mCallbacks[t])
         /\ Covered(dispatch) /\ TimesRepresentable => Covered(dispatch')
         /\ Covered(dispatch) /\ AlarmSet(dispatch) => AlarmSet(dispatch')
         /\ CallbackSet(dispatch) => CallbackSet(dispatch')
  <1> DEFINE d == dispatch
             dom == DOMAIN d.mCallbacks
             cbs == [t \in dom |-> EarlierEntry(d.mCallbacks[t])]
             intended == IF d.mIntendedWakeupTime = kInvalidTime THEN kInvalidTime
                         ELSE d.mIntendedWakeupTime - 1
  <1>1. dispatch' = [d EXCEPT !.mCallbacks = cbs, !.mIntendedWakeupTime = intended,
                              !.alarm = Earlier(d.alarm)]
    BY DEF DispatchTick
  <1>2. \A t \in dom :
          /\ GoodEntry(cbs[t]) /\ cbs[t].mName = d.mCallbacks[t].mName
          /\ Armed(cbs[t]) <=> Armed(d.mCallbacks[t])
          /\ HasPendingWorkloadUpdate(cbs[t]) <=> HasPendingWorkloadUpdate(d.mCallbacks[t])
          /\ Armed(d.mCallbacks[t]) =>
               cbs[t].mArmedInfo.wakeup = d.mCallbacks[t].mArmedInfo.wakeup - 1
    <2>1. \A t \in dom : GoodEntry(d.mCallbacks[t])
      BY DEF GoodDispatch
    <2>2. \A t \in dom : cbs[t] = EarlierEntry(d.mCallbacks[t])
      OBVIOUS
    <2> HIDE DEF cbs
    <2>3. QED
      BY <2>1, <2>2, EntryTicks
  <1>3. DOMAIN cbs = dom /\ cbs \in [dom -> Entries]
    BY <1>2 DEF GoodEntry
  <1>4. /\ kInvalidTime \in Nat /\ MaxLate \in Nat /\ TimerSlack \in Nat
        /\ d.mIntendedWakeupTime \in Int
        /\ intended \in Int /\ Earlier(d.alarm) \in Optional(Int)
        /\ d \in Dispatches(dom)
    BY DispatchAssumption, SMT DEF GoodDispatch, Dispatches, Earlier, Optional
  <1> HIDE DEF cbs
  <1>5. /\ dispatch' \in Dispatches(dom) /\ dispatch'.mCallbacks = cbs
        /\ dispatch'.mCallbackToken = d.mCallbackToken
        /\ dispatch'.mIntendedWakeupTime = intended
        /\ dispatch'.alarm = Earlier(d.alarm) /\ dispatch'.mCallback = d.mCallback
    <2> HIDE DEF intended
    <2>1. QED
      BY <1>1, <1>3, <1>4 DEF Dispatches
  <1>6. GoodDispatch(dispatch')
    BY <1>2, <1>3, <1>5 DEF GoodDispatch
  <1>7. SameCallbacks(dispatch, dispatch')
        /\ \A t \in dom : Awaits(d.mCallbacks[t]) => Awaits(dispatch'.mCallbacks[t])
    BY <1>2, <1>3, <1>5 DEF SameCallbacks, Awaits
  <1>8. ASSUME Covered(dispatch), TimesRepresentable
        PROVE  Covered(dispatch')
    <2>1. -MaxLate <= intended /\ intended <= kInvalidTime
      BY <1>4, <1>8, SMT DEF Covered, DispatchTick
    <2>2. ASSUME NEW t \in dom, Armed(cbs[t])
          PROVE  intended <= cbs[t].mArmedInfo.wakeup + TimerSlack
      <3>1. /\ d.mCallbacks[t].mArmedInfo.wakeup \in Int
            /\ cbs[t].mArmedInfo.wakeup = d.mCallbacks[t].mArmedInfo.wakeup - 1
            /\ d.mIntendedWakeupTime <= d.mCallbacks[t].mArmedInfo.wakeup + TimerSlack
            /\ d.mCallbacks[t].mArmedInfo.wakeup + TimerSlack < kInvalidTime
        BY <1>2, <1>8, <2>2, DispatchFields DEF Covered, TimesRepresentable
      <3>2. QED
        BY <1>4, <3>1, SMT
    <2>3. ASSUME NEW t \in dom, HasPendingWorkloadUpdate(cbs[t])
          PROVE  intended < 0
      <3>1. d.mIntendedWakeupTime < 0
        BY <1>2, <1>8, <2>3 DEF Covered
      <3>2. QED
        BY <1>4, <3>1, SMT
    <2> HIDE DEF intended
    <2>4. QED
      BY <1>3, <1>5, <2>1, <2>2, <2>3 DEF Covered
  <1>9. ASSUME Covered(dispatch), AlarmSet(dispatch)
        PROVE  AlarmSet(dispatch')
    <2>1. CASE d.mIntendedWakeupTime = kInvalidTime
      BY <1>5, <2>1 DEF AlarmSet
    <2>2. CASE d.mIntendedWakeupTime # kInvalidTime
      <3>1. d.alarm = d.mIntendedWakeupTime /\ d.alarm # None
        BY <1>4, <1>9, <2>2, NoneAssumption DEF AlarmSet
      <3>2. QED
        BY <1>5, <2>2, <3>1 DEF AlarmSet, Earlier
    <2>3. QED
      BY <2>1, <2>2
  <1>10. CallbackSet(dispatch) => CallbackSet(dispatch')
    BY <1>5 DEF CallbackSet
  <1>11. QED
    BY <1>6, <1>7, <1>8, <1>9, <1>10

\* A callback that is registered, and perhaps scheduled at once, leaves the others
\* covered.
LEMMA RegisteringCovers ==
  ASSUME vsyncPhase \in 1..Period, NEW d, GoodDispatch(d), d.mCallbackToken + 1 \in Tokens,
         NEW name \in Clients, NEW timing \in Timing, NEW q,
         LET r == registerCallback(d, name) IN
         q \in {r, schedule(r, r.mCallbackToken, timing)}
  PROVE  /\ Covered(d) => Covered(q)
         /\ AlarmSet(d) => AlarmSet(q)
         /\ CallbackSet(d) => CallbackSet(q)
  <1> DEFINE r == registerCallback(d, name)
  <1>1. /\ GoodDispatch(r) /\ r.mCallbackToken \in DOMAIN r.mCallbacks
        /\ Covered(d) => Covered(r)
        /\ AlarmSet(d) => AlarmSet(r)
        /\ CallbackSet(d) => CallbackSet(r)
    BY Registers, SMT
  <1>2. q = r \/ q = schedule(r, r.mCallbackToken, timing)
    OBVIOUS
  <1> HIDE DEF r
  <1>3. CASE q = r
    BY <1>1, <1>3
  <1>4. CASE q = schedule(r, r.mCallbackToken, timing)
    <2>1. Serves(r, q, {})
      BY <1>1, <1>4, Schedules
    <2>2. QED
      BY <1>1, <2>1 DEF Serves
  <1>5. QED
    BY <1>2, <1>3, <1>4

\* What the two invariants say, as long as times can be represented.
LEMMA CoveredInTime ==
  ASSUME GoodDispatch(dispatch), Covered(dispatch), AlarmSet(dispatch) \/ TimerThreadComing,
         TimesRepresentable
  PROVE  WakeupsCovered /\ WakeupsInTime
  <1>1. kInvalidTime \in Nat /\ MaxLate \in Nat /\ TimerSlack \in Nat
    BY DispatchAssumption
  <1>2. /\ dispatch.mIntendedWakeupTime \in Int
        /\ \A t \in DOMAIN dispatch.mCallbacks :
             Armed(dispatch.mCallbacks[t]) => dispatch.mCallbacks[t].mArmedInfo.wakeup \in Int
    BY DispatchFields
  <1>3. WakeupsCovered
    BY <1>1, <1>2, SMT DEF WakeupsCovered, Covered, AlarmSet
  <1>4. WakeupsInTime
    BY <1>1, <1>2, SMT DEF WakeupsInTime, Covered
  <1>5. QED
    BY <1>3, <1>4


(***************************************************************************)
(* The inductive invariant.                                                *)
(***************************************************************************)
Invoked(name) == \E i \in timer.invocations : i.name = name

\* The timer thread collects callbacks only after it has run the ones before.
CallbacksCollected == timer.invocations # {} => timer.pc = "invoking"

\* The types of the dispatch are part of its invariant.
DispatchInv ==
  /\ GoodDispatch(dispatch)
  /\ timer \in [pc : {"waiting", "expired", "callback", "invoking"},
                invocations : SUBSET Invocations]
  /\ mRunning \subseteq Tokens
  /\ vsyncPhase \in 1..Period
  /\ CallbacksCollected

MessageIsPending == mHandler.messages = 1 => mHandler.mFramePending

Exchanging(old) == old.pc \in {"reschedule", "register"}

\* Scheduler::applyNewVsyncSchedule exchanges one registration at a time, and has a
\* token for it.
OneExchange ==
  /\ oldRegistration.pc = "none" \/ exchange.pc = "none"
  /\ Exchanging(oldRegistration) \/ Exchanging(exchange) =>
       dispatch.mCallbackToken + 1 \in Tokens

\* The registration of a client is its own, and another than the one it destroys.
OwnRegistration(name, token, old) ==
  /\ token \in DOMAIN dispatch.mCallbacks
  /\ dispatch.mCallbacks[token].mName = name
  /\ Exchanging(old) => old.token = token
  /\ old.pc = "unregister" =>
       /\ old.token \in DOMAIN dispatch.mCallbacks
       /\ dispatch.mCallbacks[old.token].mName = name
       /\ old.token # token

\* A callback of the client is on its way, by the registration it has now.
OnItsWay(name, token, old) ==
  \/ Invoked(name)
  \/ old.pc = "reschedule"
  \/ old.pc # "register" /\ Awaits(dispatch.mCallbacks[token])

QueueInv ==
  /\ OwnRegistration("sf", mVsync.registration, oldRegistration)
  /\ mVsync.locked <=> Exchanging(oldRegistration)
  /\ mVsync.scheduledFrameTime =>
       frameDropped \/ OnItsWay("sf", mVsync.registration, oldRegistration)

ThreadInv ==
  /\ OwnRegistration("app", mVsyncRegistration.token, exchange)
  /\ Exchanging(exchange) => thread # "looping"
  /\ thread = "timedWait" /\ mState = "VSync" =>
       vsyncDropped \/ OnItsWay("app", mVsyncRegistration.token, exchange)
  /\ thread = "waiting" =>
       mVSyncState = None \/ \A c \in mDisplayEventConnections : vsyncRequest[c] = "None"

IInv ==
  /\ DispatchInv
  /\ MessageQueueTypeOK /\ MessageIsPending
  /\ EventThreadTypeOK
  /\ calls \in 0..MaxCalls
  /\ OneExchange
  /\ QueueInv
  /\ ThreadInv

\* With it: the timer covers all wakeups.
CoverInv ==
  /\ Covered(dispatch)
  /\ AlarmSet(dispatch) \/ TimerThreadComing
  /\ CallbackSet(dispatch) \/ timer.pc = "callback"

(***************************************************************************)
(* What a step leaves of a client it does not belong to.                   *)
(***************************************************************************)
\* The registrations of a client stay, and its callbacks go on being awaited or are
\* collected by the timer thread.
Keeps(name) ==
  /\ \A t \in DOMAIN dispatch.mCallbacks :
       dispatch.mCallbacks[t].mName = name =>
         /\ t \in DOMAIN dispatch'.mCallbacks
         /\ dispatch'.mCallbacks[t].mName = name
         /\ Awaits(dispatch.mCallbacks[t]) =>
              Awaits(dispatch'.mCallbacks[t]) \/ Invoked(name)'
  /\ Invoked(name) => Invoked(name)'

\* A step that keeps the "sf" callback leaves the MessageQueue's part alone.
LEMMA QueueUndisturbed ==
  ASSUME QueueInv, Keeps("sf"), oldRegistration' = oldRegistration,
         frameDropped' = frameDropped, mVsync'.registration = mVsync.registration,
         mVsync'.locked = mVsync.locked,
         mVsync'.scheduledFrameTime = mVsync.scheduledFrameTime
  PROVE  QueueInv'
  BY DEF QueueInv, Keeps, OwnRegistration, OnItsWay, Exchanging

\* A step that keeps the "app" callback leaves the EventThread's part alone.
LEMMA ThreadUndisturbed ==
  ASSUME ThreadInv, Keeps("app"), exchange' = exchange, vsyncDropped' = vsyncDropped,
         mVsyncRegistration'.token = mVsyncRegistration.token,
         UNCHANGED <<thread, mState, mVSyncState, mDisplayEventConnections, vsyncRequest>>
  PROVE  ThreadInv'
  BY DEF ThreadInv, Keeps, OwnRegistration, OnItsWay, Exchanging

\* A step that leaves dispatch and timer alone keeps every callback.
LEMMA KeepsAll ==
  ASSUME UNCHANGED <<dispatch, timer>>, NEW name
  PROVE  Keeps(name)
  BY DEF Keeps, Invoked

\* A callback is kept when those cancelled have another name.
LEMMA ServesKeeps ==
  ASSUME NEW cancelled, Serves(dispatch, dispatch', cancelled), timer' = timer, NEW name,
         \A t \in DOMAIN dispatch.mCallbacks \cap cancelled :
           dispatch.mCallbacks[t].mName # name
  PROVE  Keeps(name)
  BY DEF Serves, SameCallbacks, Keeps, Invoked

\* What is done for the EventThread's callback leaves the MessageQueue's alone.
LEMMA AppServesKeeps ==
  ASSUME NEW token, Serves(dispatch, dispatch', {token}), timer' = timer,
         dispatch.mCallbacks[token].mName = "app"
  PROVE  Keeps("sf")
  BY ServesKeeps, SMT

\* The types of the dispatch.
LEMMA DispatchTypes ==
  ASSUME DispatchInv
  PROVE  DispatchTypeOK
  BY DispatchFields DEF DispatchInv, DispatchTypeOK, GoodDispatch

\* The end of a callback: the thread goes on with the next invocation or waits.
LEMMA CallbackEnds ==
  ASSUME DispatchInv, NEW i \in RunningInvocations, EndCallback(i),
         UNCHANGED <<dispatch, vsyncPhase>>
  PROVE  /\ DispatchInv'
         /\ i \in Invocations
         /\ \A name : i.name # name => Keeps(name)
  <1>1. i \in timer.invocations /\ i \in Invocations /\ timer.invocations \subseteq Invocations
    BY DEF RunningInvocations, DispatchInv
  <1>2. /\ timer' = [pc |-> IF timer.invocations = {i} THEN "waiting" ELSE "invoking",
                     invocations |-> timer.invocations \ {i}]
        /\ mRunning' = {}
    BY DEF EndCallback
  <1>3. DispatchInv'
    BY <1>1, <1>2 DEF DispatchInv, CallbacksCollected
  <1>4. ASSUME NEW name, i.name # name
        PROVE  Keeps(name)
    BY <1>2, <1>4 DEF Keeps, Invoked
  <1>5. QED
    BY <1>1, <1>3, <1>4

(***************************************************************************)
(* The steps of the dispatch.                                              *)
(***************************************************************************)
\* A step of the timer thread or of time belongs to neither client.
LEMMA DispatchSteps ==
  ASSUME DispatchInv,
         \/ AlarmExpires \/ TakeCallback \/ timerCallback \/ BeginCallback
         \/ DispatchTick \/ Resync \/ reset
  PROVE  /\ DispatchInv'
         /\ dispatch'.mCallbackToken = dispatch.mCallbackToken
         /\ \A name : Keeps(name)
  <1>1. CASE AlarmExpires
    <2>1. DispatchInv'
      BY <1>1 DEF AlarmExpires, DispatchInv, CallbacksCollected
    <2>2. \A name : Keeps(name)
      BY <1>1 DEF AlarmExpires, DispatchInv, Keeps, Invoked
    <2>3. QED
      BY <1>1, <2>1, <2>2 DEF AlarmExpires
  <1>2. CASE TakeCallback
    <2> DEFINE alarm == IF dispatch.alarm # None /\ dispatch.alarm <= 0 THEN None
                        ELSE dispatch.alarm
    <2>1. dispatch' = [dispatch EXCEPT !.alarm = alarm] /\ alarm \in Optional(Int)
      BY <1>2 DEF TakeCallback, DispatchInv, GoodDispatch, Dispatches, Optional
    <2> HIDE DEF alarm
    <2>2. /\ GoodDispatch(dispatch') /\ dispatch'.mCallbacks = dispatch.mCallbacks
          /\ dispatch'.mCallbackToken = dispatch.mCallbackToken
      BY <2>1 DEF DispatchInv, GoodDispatch, Dispatches
    <2>3. DispatchInv' /\ timer'.invocations = timer.invocations
      BY <1>2, <2>2 DEF TakeCallback, DispatchInv, CallbacksCollected
    <2>4. QED
      BY <2>2, <2>3 DEF Keeps, Invoked
  <1>3. CASE timerCallback
    <2> DEFINE due == DueTokens(dispatch)
               Invocation(t) == [token |-> t, name |-> dispatch.mCallbacks[t].mName,
                                 vsync |-> max(0, dispatch.mCallbacks[t].mArmedInfo.vsync)]
    <2>1. /\ timer.pc = "callback" /\ dispatch' = rearmTimer(Executed(dispatch))
          /\ timer' = [pc |-> IF due = {} THEN "waiting" ELSE "invoking",
                       invocations |-> {Invocation(t) : t \in due}]
          /\ UNCHANGED <<mRunning, vsyncPhase>>
      BY <1>3 DEF timerCallback
    <2>2. /\ GoodDispatch(dispatch') /\ SameCallbacks(dispatch, dispatch')
          /\ \A t \in DOMAIN dispatch.mCallbacks \ due :
               Awaits(dispatch.mCallbacks[t]) => Awaits(dispatch'.mCallbacks[t])
      BY <2>1, Executes DEF DispatchInv
    <2>3. \A t \in due : Invocation(t) \in Invocations
      <3>1. SUFFICES ASSUME NEW t \in due
                     PROVE  Invocation(t) \in Invocations
        OBVIOUS
      <3>2. /\ t \in DOMAIN dispatch.mCallbacks /\ Armed(dispatch.mCallbacks[t])
            /\ GoodEntry(dispatch.mCallbacks[t]) /\ t \in Tokens
        BY DispatchFields DEF DueTokens, Due, DispatchInv, GoodDispatch
      <3>3. /\ dispatch.mCallbacks[t].mName \in Clients
            /\ dispatch.mCallbacks[t].mArmedInfo.vsync \in Int
        BY <3>2 DEF GoodEntry, Armed, Entries, Optional, ArmingInfo
      <3>4. QED
        BY <3>2, <3>3, SMT DEF Invocations, max
    <2>4. DispatchInv'
      <3> HIDE DEF Invocation
      <3>1. QED
        BY <2>1, <2>2, <2>3 DEF DispatchInv, CallbacksCollected
    <2>5. ASSUME NEW name
          PROVE  Keeps(name)
      <3>1. ~Invoked(name)
        BY <2>1 DEF DispatchInv, CallbacksCollected, Invoked
      <3>2. ASSUME NEW t \in due, dispatch.mCallbacks[t].mName = name
            PROVE  Invoked(name)'
        <4>1. Invocation(t) \in timer'.invocations /\ Invocation(t).name = name
          BY <2>1, <3>2
        <4>2. QED
          BY <4>1 DEF Invoked
      <3>3. QED
        BY <2>2, <3>1, <3>2 DEF Keeps, SameCallbacks
    <2>6. QED
      BY <2>2, <2>4, <2>5 DEF SameCallbacks
  <1>4. CASE BeginCallback
    <2>1. DispatchInv'
      BY <1>4 DEF BeginCallback, DispatchInv, CallbacksCollected, Invocations
    <2>2. QED
      BY <1>4, <2>1, KeepsAll DEF BeginCallback
  <1>5. CASE DispatchTick
    <2>1. /\ GoodDispatch(dispatch') /\ SameCallbacks(dispatch, dispatch')
          /\ \A t \in DOMAIN dispatch.mCallbacks :
               Awaits(dispatch.mCallbacks[t]) => Awaits(dispatch'.mCallbacks[t])
      BY <1>5, Ticks DEF DispatchInv
    <2> DEFINE Later(i) == [i EXCEPT !.vsync = EarlierDownTo0(i.vsync)]
    <2>2. /\ timer' = [timer EXCEPT !.invocations = {Later(i) : i \in timer.invocations}]
          /\ vsyncPhase' = (IF vsyncPhase = 1 THEN Period ELSE vsyncPhase - 1)
          /\ mRunning' = mRunning
      BY <1>5 DEF DispatchTick
    <2>3. \A i \in timer.invocations : Later(i) \in Invocations /\ Later(i).name = i.name
      BY SMT DEF DispatchInv, Invocations, EarlierDownTo0, max
    <2>4. vsyncPhase' \in 1..Period
      BY <2>2, DispatchAssumption, SMT DEF DispatchInv
    <2> HIDE DEF Later
    <2>5. /\ timer'.pc = timer.pc
          /\ timer'.invocations = {Later(i) : i \in timer.invocations}
          /\ timer' \in [pc : {"waiting", "expired", "callback", "invoking"},
                         invocations : SUBSET Invocations]
      BY <2>2, <2>3 DEF DispatchInv
    <2>6. DispatchInv'
      BY <2>1, <2>2, <2>4, <2>5 DEF DispatchInv, CallbacksCollected
    <2>7. ASSUME NEW name
          PROVE  Keeps(name)
      <3>1. Invoked(name) => Invoked(name)'
        BY <2>3, <2>5 DEF Invoked
      <3>2. QED
        BY <2>1, <3>1 DEF Keeps, SameCallbacks
    <2>8. QED
      BY <2>1, <2>6, <2>7 DEF SameCallbacks
  <1>6. CASE Resync
    <2>1. DispatchInv'
      BY <1>6 DEF Resync, DispatchInv, CallbacksCollected
    <2>2. QED
      BY <1>6, <2>1, KeepsAll DEF Resync
  <1>7. CASE reset
    <2>1. dispatch' = [dispatch EXCEPT !.alarm = None, !.mCallback = FALSE]
      BY <1>7 DEF reset
    <2>2. /\ GoodDispatch(dispatch') /\ dispatch'.mCallbacks = dispatch.mCallbacks
          /\ dispatch'.mCallbackToken = dispatch.mCallbackToken
      BY <2>1 DEF DispatchInv, GoodDispatch, Dispatches, Optional
    <2>3. DispatchInv' /\ timer'.invocations = timer.invocations
      BY <1>7, <2>2 DEF reset, DispatchInv, CallbacksCollected
    <2>4. QED
      BY <2>2, <2>3 DEF Keeps, Invoked
  <1>8. QED
    BY <1>1, <1>2, <1>3, <1>4, <1>5, <1>6, <1>7

(***************************************************************************)
(* The steps of the MessageQueue.                                          *)
(***************************************************************************)
QueueStep ==
  \/ SfCallback \/ MainHandlesMessage \/ MainSignalsFrame
  \/ OnNewVsyncSchedule \/ RegistrationMade \/ OldUnregistered \/ OldNotRunning
  \/ FrameScheduled \/ DurationSet


\* An operation on the registration of a client.
LEMMA ClientServes ==
  ASSUME DispatchInv, NEW cancelled, Serves(dispatch, dispatch', cancelled),
         UNCHANGED <<timer, mRunning, vsyncPhase>>
  PROVE  /\ DispatchInv'
         /\ dispatch'.mCallbackToken = dispatch.mCallbackToken
         /\ DOMAIN dispatch'.mCallbacks = DOMAIN dispatch.mCallbacks
         /\ \A t \in DOMAIN dispatch.mCallbacks :
              dispatch'.mCallbacks[t].mName = dispatch.mCallbacks[t].mName
  BY DEF DispatchInv, CallbacksCollected, Serves, SameCallbacks

\* The timing of the "sf" callback.
LEMMA SfTimingType ==
  ASSUME MessageQueueTypeOK, NEW work \in WorkDurations
  PROVE  SfTiming(work) \in Timing
  BY WorkDurationsAssumption DEF MessageQueueTypeOK, SfTiming, Timing

\* What every step of the MessageQueue has to show.
QueuePart == MessageQueueTypeOK /\ MessageIsPending /\ QueueInv /\ OneExchange

\* The steps of the MessageQueue keep its part and the EventThread's callback.
LEMMA QueueSteps ==
  ASSUME IInv, QueueStep
  PROVE  DispatchInv' /\ QueuePart' /\ Keeps("app") /\ UNCHANGED etVars
  <1> DEFINE reg == mVsync.registration
  <1>1. /\ DispatchInv /\ GoodDispatch(dispatch) /\ vsyncPhase \in 1..Period
        /\ MessageQueueTypeOK /\ MessageIsPending /\ QueueInv /\ OneExchange /\ ThreadInv
    BY DEF IInv, DispatchInv
  <1>2. /\ reg \in DOMAIN dispatch.mCallbacks /\ dispatch.mCallbacks[reg].mName = "sf"
        /\ OwnRegistration("sf", reg, oldRegistration)
    BY <1>1 DEF QueueInv, OwnRegistration
  <1>3. CASE SfCallback
    <2>1. /\ ~mVsync.locked /\ UNCHANGED <<dispatch, vsyncPhase, oldRegistration, frameDropped,
                                           frameRequested, etVars>>
          /\ mHandler' = DispatchFrame(mHandler)
      BY <1>3 DEF SfCallback, vsyncCallback, OnQueue
    <2>2. PICK i \in RunningInvocations :
            /\ i.name = "sf" /\ EndCallback(i)
            /\ mVsync' = [mVsync EXCEPT !.lastCallbackTime = i.vsync,
                                        !.scheduledFrameTime = FALSE]
      BY <1>3 DEF SfCallback, vsyncCallback
    <2>3. DispatchInv' /\ i \in Invocations /\ Keeps("app")
      BY <1>1, <2>1, <2>2, CallbackEnds
    <2>4. /\ mVsync' \in [registration : Tokens, workDuration : WorkDurations,
                          lastCallbackTime : Nat, scheduledFrameTime : BOOLEAN,
                          locked : BOOLEAN]
          /\ mVsync'.registration = reg /\ mVsync'.locked = mVsync.locked
          /\ mVsync'.scheduledFrameTime = FALSE
      BY <1>1, <2>2, <2>3 DEF MessageQueueTypeOK, Invocations
    <2>5. /\ mHandler' \in [mFramePending : BOOLEAN, messages : 0..1, handling : BOOLEAN]
          /\ MessageIsPending'
      <3>1. /\ mHandler \in [mFramePending : BOOLEAN, messages : 0..1, handling : BOOLEAN]
            /\ mHandler.messages = 1 => mHandler.mFramePending
        BY <1>1 DEF MessageQueueTypeOK, MessageIsPending
      <3>2. CASE mHandler.mFramePending
        BY <2>1, <3>1, <3>2 DEF DispatchFrame, MessageIsPending
      <3>3. CASE ~mHandler.mFramePending
        <4> DEFINE m == mHandler.messages + 1
        <4>1. m \in 0..1
          BY <3>1, <3>3, SMT
        <4>2. mHandler' = [mHandler EXCEPT !.mFramePending = TRUE, !.messages = m]
          BY <2>1, <3>3 DEF DispatchFrame
        <4> HIDE DEF m
        <4>3. QED
          BY <3>1, <4>1, <4>2 DEF MessageIsPending
      <3>4. QED
        BY <3>2, <3>3
    <2>6. MessageQueueTypeOK'
      BY <1>1, <2>1, <2>4, <2>5 DEF MessageQueueTypeOK
    <2>7. QueueInv'
      BY <1>1, <2>1, <2>4 DEF QueueInv, OwnRegistration, Exchanging
    <2>8. OneExchange'
      BY <1>1, <2>1 DEF OneExchange, Exchanging, etVars
    <2>9. QED
      BY <2>1, <2>3, <2>5, <2>6, <2>7, <2>8 DEF QueuePart
  <1>4. CASE MainHandlesMessage \/ MainSignalsFrame \/ OldNotRunning
    <2>1. /\ UNCHANGED <<dispatch, timer, mRunning, vsyncPhase, mVsync, frameDropped, etVars>>
          /\ mHandler' \in [mFramePending : BOOLEAN, messages : 0..1, handling : BOOLEAN]
          /\ MessageIsPending' /\ frameRequested' \in BOOLEAN
          /\ \/ oldRegistration' = oldRegistration
             \/ /\ oldRegistration.pc = "ensureNotRunning"
                /\ oldRegistration' = [pc |-> "none", token |-> None]
      <3>1. /\ mHandler \in [mFramePending : BOOLEAN, messages : 0..1, handling : BOOLEAN]
            /\ frameRequested \in BOOLEAN
        BY <1>1 DEF MessageQueueTypeOK
      <3>2. CASE MainHandlesMessage
        BY <3>1, <3>2, SMT
           DEF MainHandlesMessage, HandleMessage, OnQueue, dispatchVars, MessageIsPending
      <3>3. CASE MainSignalsFrame
        BY <1>1, <3>1, <3>3
           DEF MainSignalsFrame, onFrameSignal, OnQueue, dispatchVars, MessageIsPending
      <3>4. CASE OldNotRunning
        BY <1>1, <3>1, <3>4
           DEF OldNotRunning, EnsureNotRunning, OnQueue, dispatchVars, MessageIsPending
      <3>5. QED
        BY <1>4, <3>2, <3>3, <3>4
    <2>2. DispatchInv' /\ Keeps("app")
      BY <1>1, <2>1, KeepsAll DEF DispatchInv, CallbacksCollected
    <2>3. MessageQueueTypeOK'
      BY <1>1, <2>1, SMTT(30) DEF MessageQueueTypeOK, Exchanges, Optional
    <2>4. QueueInv'
      BY <1>1, <2>1, SMTT(30) DEF QueueInv, OwnRegistration, OnItsWay, Exchanging, Invoked
    <2>5. OneExchange'
      BY <1>1, <2>1, SMT DEF OneExchange, Exchanging, etVars
    <2>6. QED
      BY <2>1, <2>2, <2>3, <2>4, <2>5 DEF QueuePart
  <1>5. CASE FrameScheduled \/ DurationSet
    <2>1. /\ UNCHANGED <<timer, mRunning, vsyncPhase, oldRegistration, mHandler, etVars>>
          /\ ~mVsync.locked
      BY <1>5 DEF FrameScheduled, DurationSet, scheduleFrame, setDuration, SfCalled
    <2>2. /\ Serves(dispatch, dispatch', {})
          /\ mVsync' \in [registration : Tokens, workDuration : WorkDurations,
                          lastCallbackTime : Nat, scheduledFrameTime : BOOLEAN,
                          locked : BOOLEAN]
          /\ mVsync'.registration = reg /\ mVsync'.locked = mVsync.locked
          /\ mVsync'.scheduledFrameTime => Awaits(dispatch'.mCallbacks[reg])
          /\ frameRequested' \in BOOLEAN /\ frameDropped' \in BOOLEAN
      <3>1. CASE FrameScheduled
        <4>1. /\ dispatch' = schedule(dispatch, reg, SfTiming(mVsync.workDuration))
              /\ mVsync' = [mVsync EXCEPT !.scheduledFrameTime = TRUE]
              /\ frameRequested' = TRUE /\ frameDropped' = FALSE
          BY <3>1 DEF FrameScheduled, scheduleFrame
        <4>2. SfTiming(mVsync.workDuration) \in Timing
          BY <1>1, SfTimingType DEF MessageQueueTypeOK
        <4>3. Serves(dispatch, dispatch', {}) /\ Awaits(dispatch'.mCallbacks[reg])
          BY <1>1, <1>2, <4>1, <4>2, Schedules
        <4>4. QED
          BY <1>1, <4>1, <4>3 DEF MessageQueueTypeOK
      <3>2. CASE DurationSet
        <4>1. PICK work \in WorkDurations : setDuration(work)
          BY <3>2 DEF DurationSet
        <4>2. /\ dispatch' = update(dispatch, reg, SfTiming(work))
              /\ mVsync' = [mVsync EXCEPT !.workDuration = work,
                              !.scheduledFrameTime = Armed(dispatch.mCallbacks[reg])]
              /\ UNCHANGED <<frameRequested, frameDropped>>
          BY <4>1 DEF setDuration
        <4>3. SfTiming(work) \in Timing
          BY <1>1, SfTimingType
        <4>4. Serves(dispatch, dispatch', {})
              /\ (Armed(dispatch.mCallbacks[reg]) => Awaits(dispatch'.mCallbacks[reg]))
          BY <1>1, <1>2, <4>2, <4>3, Updates
        <4>5. Armed(dispatch.mCallbacks[reg]) \in BOOLEAN
          BY DEF Armed
        <4>6. QED
          BY <1>1, <4>2, <4>4, <4>5 DEF MessageQueueTypeOK
      <3>3. QED
        BY <1>5, <3>1, <3>2
    <2>3. /\ DispatchInv' /\ dispatch'.mCallbackToken = dispatch.mCallbackToken
          /\ DOMAIN dispatch'.mCallbacks = DOMAIN dispatch.mCallbacks
          /\ \A t \in DOMAIN dispatch.mCallbacks :
               dispatch'.mCallbacks[t].mName = dispatch.mCallbacks[t].mName
      BY <1>1, <2>1, <2>2, ClientServes
    <2>4. Keeps("app")
      BY <2>1, <2>2, ServesKeeps, SMT
    <2>5. MessageQueueTypeOK' /\ MessageIsPending'
      BY <1>1, <2>1, <2>2 DEF MessageQueueTypeOK, MessageIsPending
    <2>6. QueueInv'
      BY <1>1, <2>1, <2>2, <2>3 DEF QueueInv, OwnRegistration, OnItsWay, Exchanging
    <2>7. OneExchange'
      BY <1>1, <2>1, <2>3 DEF OneExchange, Exchanging, etVars
    <2>8. QED
      BY <2>1, <2>3, <2>4, <2>5, <2>6, <2>7 DEF QueuePart
  <1>6. CASE OnNewVsyncSchedule
    <2>1. /\ UNCHANGED <<timer, mRunning, vsyncPhase, mHandler, frameRequested, etVars>>
          /\ ~mVsync.locked /\ oldRegistration.pc = "none" /\ exchange.pc = "none"
          /\ dispatch.mCallbackToken + 1 \in Tokens
          /\ dispatch' = cancel(dispatch, reg)
          /\ oldRegistration' = [pc |-> IF CancelResult(dispatch, reg) = "Cancelled"
                                        THEN "reschedule" ELSE "register", token |-> reg]
          /\ mVsync' = [mVsync EXCEPT !.locked = TRUE]
          /\ frameDropped' = (frameDropped \/ Pending(reg))
      BY <1>6 DEF OnNewVsyncSchedule, CancelOldRegistration, SfCalled
    <2>2. Serves(dispatch, dispatch', {reg})
      BY <1>1, <1>2, <2>1, Cancels
    <2>3. /\ DispatchInv' /\ dispatch'.mCallbackToken = dispatch.mCallbackToken
          /\ DOMAIN dispatch'.mCallbacks = DOMAIN dispatch.mCallbacks
          /\ \A t \in DOMAIN dispatch.mCallbacks :
               dispatch'.mCallbacks[t].mName = dispatch.mCallbacks[t].mName
      BY <1>1, <2>1, <2>2, ClientServes
    <2>4. Keeps("app")
      BY <1>2, <2>1, <2>2, ServesKeeps, SMT
    <2>5. /\ mVsync' \in [registration : Tokens, workDuration : WorkDurations,
                          lastCallbackTime : Nat, scheduledFrameTime : BOOLEAN,
                          locked : BOOLEAN]
          /\ mVsync'.registration = reg /\ mVsync'.locked = TRUE
          /\ mVsync'.scheduledFrameTime = mVsync.scheduledFrameTime
          /\ reg \in Tokens
      BY <1>1, <2>1 DEF MessageQueueTypeOK
    <2>6. oldRegistration'.pc \in {"reschedule", "register"} /\ oldRegistration'.token = reg
          /\ oldRegistration' \in Exchanges /\ frameDropped' \in BOOLEAN
      BY <1>1, <2>1, <2>5 DEF Exchanges, Optional, MessageQueueTypeOK
    <2>7. MessageQueueTypeOK' /\ MessageIsPending'
      BY <1>1, <2>1, <2>5, <2>6 DEF MessageQueueTypeOK, MessageIsPending
    <2>8. ASSUME mVsync.scheduledFrameTime, oldRegistration'.pc # "reschedule"
          PROVE  frameDropped' \/ Invoked("sf")'
      <3>1. ~Armed(dispatch.mCallbacks[reg])
        BY <1>2, <2>1, <2>8 DEF CancelResult
      <3>2. frameDropped \/ Invoked("sf") \/ Awaits(dispatch.mCallbacks[reg])
        BY <1>1, <2>1, <2>8 DEF QueueInv, OnItsWay
      <3>3. QED
        BY <2>1, <3>1, <3>2 DEF Awaits, Pending, Invoked
    <2>9. QueueInv'
      BY <1>2, <2>3, <2>5, <2>6, <2>8 DEF QueueInv, OwnRegistration, OnItsWay, Exchanging
    <2>10. OneExchange'
      BY <2>1, <2>3 DEF OneExchange, Exchanging, etVars
    <2>11. QED
      BY <2>1, <2>3, <2>4, <2>7, <2>9, <2>10 DEF QueuePart
  <1>7. CASE RegistrationMade
    <2> DEFINE registered == registerCallback(dispatch, "sf")
               token == dispatch.mCallbackToken + 1
               rescheduled == oldRegistration.pc = "reschedule"
    <2>1. /\ Exchanging(oldRegistration) /\ exchange.pc = "none" /\ token \in Tokens
          /\ oldRegistration.token = reg
      BY <1>1, <1>7 DEF RegistrationMade, MakeRegistration, OneExchange, Exchanging,
        QueueInv,
                        OwnRegistration
    <2>2. /\ GoodDispatch(registered)
          /\ registered.mCallbackToken = token /\ token \notin DOMAIN dispatch.mCallbacks
          /\ DOMAIN registered.mCallbacks = DOMAIN dispatch.mCallbacks \cup {token}
          /\ \A t \in DOMAIN dispatch.mCallbacks :
               registered.mCallbacks[t] = dispatch.mCallbacks[t]
          /\ registered.mCallbacks[token].mName = "sf"
      BY <1>1, <2>1, Registers DEF Clients
    <2>3. /\ dispatch' = IF rescheduled
                         THEN schedule(registered, token, SfTiming(mVsync.workDuration))
                         ELSE registered
          /\ mVsync' = [mVsync EXCEPT !.registration = token, !.locked = FALSE,
                          !.scheduledFrameTime = rescheduled \/ mVsync.scheduledFrameTime]
          /\ oldRegistration' = [oldRegistration EXCEPT !.pc = "unregister"]
          /\ UNCHANGED <<timer, mRunning, vsyncPhase, mHandler, frameRequested, frameDropped,
                         etVars>>
      BY <1>7, <2>2 DEF RegistrationMade, MakeRegistration, OnQueue
    <2> HIDE DEF registered
    <2>4. /\ Serves(registered, dispatch', {})
          /\ rescheduled => Awaits(dispatch'.mCallbacks[token])
      <3>1. CASE rescheduled
        <4>1. SfTiming(mVsync.workDuration) \in Timing /\ token \in DOMAIN registered.mCallbacks
          BY <1>1, <2>2, SfTimingType DEF MessageQueueTypeOK
        <4>2. QED
          BY <1>1, <2>2, <2>3, <3>1, <4>1, Schedules
      <3>2. CASE ~rescheduled
        BY <2>2, <2>3, <3>2 DEF Serves, SameCallbacks
      <3>3. QED
        BY <3>1, <3>2
    <2>5. /\ GoodDispatch(dispatch')
          /\ DOMAIN dispatch'.mCallbacks = DOMAIN dispatch.mCallbacks \cup {token}
          /\ dispatch'.mCallbacks[token].mName = "sf"
          /\ \A t \in DOMAIN dispatch.mCallbacks :
               /\ dispatch'.mCallbacks[t].mName = dispatch.mCallbacks[t].mName
               /\ Awaits(dispatch.mCallbacks[t]) => Awaits(dispatch'.mCallbacks[t])
      BY <2>2, <2>4 DEF Serves, SameCallbacks
    <2>6. DispatchInv' /\ Keeps("app")
      BY <1>1, <2>3, <2>5 DEF DispatchInv, CallbacksCollected, Keeps, Invoked
    <2>7. /\ mVsync' \in [registration : Tokens, workDuration : WorkDurations,
                          lastCallbackTime : Nat, scheduledFrameTime : BOOLEAN,
                          locked : BOOLEAN]
          /\ mVsync'.registration = token /\ mVsync'.locked = FALSE
          /\ mVsync'.scheduledFrameTime = (rescheduled \/ mVsync.scheduledFrameTime)
      BY <1>1, <2>1, <2>3 DEF MessageQueueTypeOK
    <2>8. /\ oldRegistration' \in Exchanges /\ oldRegistration'.pc = "unregister"
          /\ oldRegistration'.token = reg
      BY <1>1, <2>1, <2>3 DEF MessageQueueTypeOK, Exchanges
    <2>9. MessageQueueTypeOK' /\ MessageIsPending'
      BY <1>1, <2>3, <2>7, <2>8 DEF MessageQueueTypeOK, MessageIsPending
    <2>10. ASSUME mVsync.scheduledFrameTime, ~rescheduled
           PROVE  frameDropped' \/ Invoked("sf")'
      BY <1>1, <2>1, <2>3, <2>10 DEF QueueInv, OnItsWay, Exchanging, Invoked
    <2>11. QueueInv'
      BY <1>2, <2>2, <2>4, <2>5, <2>7, <2>8, <2>10
         DEF QueueInv, OwnRegistration, OnItsWay, Exchanging
    <2>12. OneExchange'
      BY <2>1, <2>3, <2>8 DEF OneExchange, Exchanging, etVars
    <2>13. QED
      BY <2>3, <2>6, <2>9, <2>11, <2>12 DEF QueuePart
  <1>8. CASE OldUnregistered
    <2> DEFINE old == oldRegistration.token
    <2>1. /\ oldRegistration.pc = "unregister" /\ dispatch' = Unregistered(dispatch, old)
          /\ oldRegistration' = [oldRegistration EXCEPT !.pc = "ensureNotRunning"]
          /\ UNCHANGED <<timer, mRunning, vsyncPhase, mVsync, mHandler, frameRequested,
                         frameDropped, etVars>>
      BY <1>8 DEF OldUnregistered, UnregisterOld, OnQueue
    <2>2. /\ GoodDispatch(dispatch') /\ dispatch'.mCallbackToken = dispatch.mCallbackToken
          /\ DOMAIN dispatch'.mCallbacks = DOMAIN dispatch.mCallbacks \ {old}
          /\ \A t \in DOMAIN dispatch'.mCallbacks :
               dispatch'.mCallbacks[t] = dispatch.mCallbacks[t]
      BY <1>1, <2>1, Unregisters, SMT
    <2>3. /\ old \in DOMAIN dispatch.mCallbacks /\ dispatch.mCallbacks[old].mName = "sf"
          /\ old # reg
      BY <1>2, <2>1 DEF OwnRegistration
    <2>4. DispatchInv' /\ Keeps("app")
      BY <1>1, <2>1, <2>2, <2>3 DEF DispatchInv, CallbacksCollected, Keeps, Invoked
    <2>5. oldRegistration' \in Exchanges /\ oldRegistration'.pc = "ensureNotRunning"
      BY <1>1, <2>1 DEF MessageQueueTypeOK, Exchanges
    <2>6. MessageQueueTypeOK' /\ MessageIsPending'
      BY <1>1, <2>1, <2>5 DEF MessageQueueTypeOK, MessageIsPending
    <2>7. QueueInv'
      BY <1>1, <1>2, <2>1, <2>2, <2>3, <2>5
         DEF QueueInv, OwnRegistration, OnItsWay, Exchanging, Invoked
    <2>8. OneExchange'
      BY <1>1, <2>1, <2>2, <2>5 DEF OneExchange, Exchanging, etVars
    <2>9. QED
      BY <2>1, <2>4, <2>6, <2>7, <2>8 DEF QueuePart
  <1>9. QED
    BY <1>3, <1>4, <1>5, <1>6, <1>7, <1>8 DEF QueueStep

(***************************************************************************)
(* The steps of the EventThread.                                           *)
(***************************************************************************)
ThreadStep ==
  \/ AppCallback
  \/ AppOnNewVsyncSchedule \/ AppRegistrationMade \/ AppOldUnregistered \/ AppOldNotRunning
  \/ ThreadRound \/ ThrottledRound \/ SyntheticVsync \/ StalledVsync \/ DroppedVsync
  \/ VsyncRequested \/ VsyncRateSet \/ HotplugReceived \/ SyntheticEnabled
  \/ AppDurationSet \/ PipeClosed

\* What every step of the EventThread has to show.
ThreadPart == EventThreadTypeOK /\ ThreadInv /\ OneExchange

\* What a round makes of the requests and of the state has its type
\* (shouldConsumeEvent, threadMain).
LEMMA RoundTypes ==
  ASSUME EventThreadTypeOK, NEW event, NEW requested \in BOOLEAN
  PROVE  /\ \A r \in Requests : RequestAfter(event, r) \in Requests
         /\ VSyncStateAfter(event) \in Optional([synthetic : BOOLEAN])
         /\ StateFor(VSyncStateAfter(event), requested) \in {"Idle", "SyntheticVSync", "VSync"}
         /\ StateFor(VSyncStateAfter(event), requested) = "Idle" =>
              VSyncStateAfter(event) = None \/ ~requested
  <1>1. \A r \in Requests : RequestAfter(event, r) \in Requests
    BY DEF Requests, RequestAfter
  <1>2. VSyncStateAfter(event) \in Optional([synthetic : BOOLEAN])
    BY DEF VSyncStateAfter, EventThreadTypeOK, Optional
  <1> DEFINE state == VSyncStateAfter(event)
  <1>3. CASE state = None \/ ~requested
    BY <1>1, <1>2, <1>3 DEF StateFor
  <1>4. CASE state # None /\ requested
    <2>1. StateFor(state, requested) =
            IF state.synthetic THEN "SyntheticVSync" ELSE "VSync"
      BY <1>4 DEF StateFor
    <2>2. QED
      BY <1>1, <1>2, <2>1
  <1>5. QED
    BY <1>3, <1>4

\* A round of threadMain leaves the callback scheduled when it goes on to wait for a
\* vsync of the display, and waits without a timeout only when nothing is asked for.
LEMMA ThreadRounds ==
  ASSUME IInv, NEW throttled, threadMain(throttled), UNCHANGED mqVars
  PROVE  DispatchInv' /\ ThreadPart' /\ Keeps("sf")
  <1> DEFINE token == mVsyncRegistration.token
             event == IF mPendingEvents = << >> THEN None ELSE Head(mPendingEvents)
             consumers == Consumers(event) \ throttled
             requests == [c \in Connections |->
                            IF c \in mDisplayEventConnections \ throttled
                            THEN RequestAfter(event, vsyncRequest[c]) ELSE vsyncRequest[c]]
             requested == \E c \in mDisplayEventConnections : requests[c] # "None"
             state == StateFor(VSyncStateAfter(event), requested)
  <1>1. /\ DispatchInv /\ GoodDispatch(dispatch) /\ vsyncPhase \in 1..Period
        /\ EventThreadTypeOK /\ ThreadInv /\ OneExchange
    BY DEF IInv, DispatchInv
  <1>2. /\ thread = "looping" \/ MutexFree
        /\ mPendingEvents' = IF event = None THEN << >> ELSE Tail(mPendingEvents)
        /\ mVSyncState' = VSyncStateAfter(event)
        /\ vsyncRequest' = requests
        /\ mDisplayEventConnections' = mDisplayEventConnections \ (consumers \cap closed)
        /\ unanswered' = IF event = "vsync" THEN unanswered \ consumers ELSE unanswered
        /\ mState' = state
        /\ dispatch' = IF state = "VSync"
                       THEN schedule(dispatch, token, mVsyncRegistration.timing)
                       ELSE cancel(dispatch, token)
        /\ thread' = IF Len(mPendingEvents) > 1 THEN "looping"
                     ELSE IF state = "Idle" THEN "waiting" ELSE "timedWait"
        /\ vsyncDropped' = FALSE
        /\ UNCHANGED <<timer, mRunning, vsyncPhase, closed, mVsyncRegistration, exchange,
                       aborted>>
    BY DEF threadMain, dispatchEvent
  <1>3. /\ ~Exchanging(exchange)
        /\ token \in DOMAIN dispatch.mCallbacks /\ dispatch.mCallbacks[token].mName = "app"
        /\ mVsyncRegistration.timing \in Timing
    BY <1>1, <1>2 DEF ThreadInv, OwnRegistration, Exchanging, MutexFree, EventThreadTypeOK
  <1>4. event # None => mPendingEvents # << >>
    OBVIOUS
  <1> HIDE DEF event
  <1>5. /\ \A r \in Requests : RequestAfter(event, r) \in Requests
        /\ VSyncStateAfter(event) \in Optional([synthetic : BOOLEAN])
        /\ state \in {"Idle", "SyntheticVSync", "VSync"}
        /\ state = "Idle" => VSyncStateAfter(event) = None \/ ~requested
    <2>1. requested \in BOOLEAN
      OBVIOUS
    <2> HIDE DEF requested
    <2>2. QED
      BY <1>1, <2>1, RoundTypes
  <1>6. requests \in [Connections -> Requests]
    BY <1>1, <1>5 DEF EventThreadTypeOK
  <1> HIDE DEF state, requests
  <1>7. mPendingEvents' \in Seq(HotplugEvents \cup {"connect", "vsync"})
    BY <1>1, <1>2, <1>4, SMT DEF EventThreadTypeOK
  <1>8. EventThreadTypeOK'
    BY <1>1, <1>2, <1>5, <1>6, <1>7 DEF EventThreadTypeOK
  <1>9. /\ state = "VSync" => Serves(dispatch, dispatch', {}) /\ Awaits(dispatch'.mCallbacks[token])
        /\ state # "VSync" => Serves(dispatch, dispatch', {token})
    <2> DEFINE scheduled == schedule(dispatch, token, mVsyncRegistration.timing)
    <2>1. Serves(dispatch, scheduled, {}) /\ Awaits(scheduled.mCallbacks[token])
      BY <1>1, <1>3, Schedules
    <2>2. Serves(dispatch, cancel(dispatch, token), {token})
      BY <1>1, <1>3, Cancels
    <2>3. QED
      BY <1>2, <2>1, <2>2
  <1>10. Serves(dispatch, dispatch', {token})
    BY <1>9, ServesMore
  <1>11. /\ DispatchInv' /\ dispatch'.mCallbackToken = dispatch.mCallbackToken
         /\ DOMAIN dispatch'.mCallbacks = DOMAIN dispatch.mCallbacks
         /\ \A t \in DOMAIN dispatch.mCallbacks :
              dispatch'.mCallbacks[t].mName = dispatch.mCallbacks[t].mName
    BY <1>1, <1>2, <1>10, ClientServes
  <1>12. Keeps("sf")
    BY <1>2, <1>3, <1>10, AppServesKeeps
  <1>13. thread' = "waiting" =>
           mVSyncState' = None
           \/ \A c \in mDisplayEventConnections' : vsyncRequest'[c] = "None"
    BY <1>2, <1>5
  <1>14. OwnRegistration("app", mVsyncRegistration.token, exchange)'
    BY <1>1, <1>2, <1>11 DEF ThreadInv, OwnRegistration, Exchanging
  <1>15. thread' = "timedWait" /\ mState' = "VSync" =>
           OnItsWay("app", mVsyncRegistration.token, exchange)'
    BY <1>2, <1>3, <1>9 DEF OnItsWay, Exchanging
  <1>16. ThreadInv'
    BY <1>2, <1>3, <1>13, <1>14, <1>15 DEF ThreadInv, Exchanging
  <1>17. OneExchange'
    BY <1>1, <1>2, <1>11 DEF OneExchange, Exchanging, mqVars
  <1>18. QED
    BY <1>8, <1>11, <1>12, <1>16, <1>17 DEF ThreadPart

\* The calls of others and the timeouts leave the dispatch alone.
LEMMA ThreadCalls ==
  ASSUME IInv, UNCHANGED mqVars,
         \/ \E c \in Connections : requestNextVsync(c)
         \/ \E c \in Connections, r \in {"None", "Periodic"} : setVsyncRate(c, r)
         \/ \E event \in HotplugEvents : onHotplugReceived(event)
         \/ \E enable \in BOOLEAN : enableSyntheticVsync(enable)
         \/ \E c \in Connections : ClosePipe(c)
         \/ FakeVsync
  PROVE  DispatchInv' /\ ThreadPart' /\ Keeps("sf")
  <1>1. /\ DispatchInv /\ EventThreadTypeOK /\ ThreadInv /\ OneExchange
    BY DEF IInv
  <1>2. ASSUME UNCHANGED dispatchVars, UNCHANGED <<mVsyncRegistration, exchange, vsyncDropped>>,
               EventThreadTypeOK',
               Exchanging(exchange) => thread' # "looping",
               thread' = "timedWait" => UNCHANGED <<thread, mState>>,
               thread' = "waiting" =>
                 mVSyncState' = None
                 \/ \A c \in mDisplayEventConnections' : vsyncRequest'[c] = "None"
        PROVE  DispatchInv' /\ ThreadPart' /\ Keeps("sf")
    <2>1. DispatchInv'
      BY <1>1, <1>2 DEF DispatchInv, CallbacksCollected, dispatchVars
    <2>2. Keeps("sf")
      BY <1>2, KeepsAll DEF dispatchVars
    <2>3. OneExchange'
      BY <1>1, <1>2 DEF OneExchange, Exchanging, mqVars, dispatchVars
    <2>4. ThreadInv'
      BY <1>1, <1>2
         DEF ThreadInv, OwnRegistration, OnItsWay, Exchanging, Invoked, dispatchVars
    <2>5. QED
      BY <1>2, <2>1, <2>2, <2>3, <2>4 DEF ThreadPart
  <1>3. ASSUME NEW c \in Connections, requestNextVsync(c)
        PROVE  DispatchInv' /\ ThreadPart' /\ Keeps("sf")
    <2>1. /\ EventThreadTypeOK' /\ thread' \in {thread, "awake"}
      BY <1>1, <1>3 DEF requestNextVsync, EventThreadTypeOK, Requests, Notified
    <2>2. ASSUME thread' = "waiting"
          PROVE  mVSyncState' = None
                 \/ \A x \in mDisplayEventConnections' : vsyncRequest'[x] = "None"
      <3>1. thread = "waiting" /\ vsyncRequest[c] # "None"
        BY <1>3, <2>2 DEF requestNextVsync, Notified
      <3>2. mVSyncState = None \/ c \notin mDisplayEventConnections
        BY <1>1, <3>1 DEF ThreadInv
      <3>3. QED
        BY <1>1, <1>3, <3>1, <3>2 DEF ThreadInv, requestNextVsync, EventThreadTypeOK
    <2>3. QED
      BY <1>1, <1>2, <1>3, <2>1, <2>2 DEF requestNextVsync, ThreadInv
  <1>4. ASSUME NEW c \in Connections, NEW r \in {"None", "Periodic"}, setVsyncRate(c, r)
        PROVE  DispatchInv' /\ ThreadPart' /\ Keeps("sf")
    <2>1. /\ EventThreadTypeOK' /\ thread' \notin {"waiting", "timedWait", "looping"}
      BY <1>1, <1>4 DEF setVsyncRate, EventThreadTypeOK, Requests, Notified, MutexFree
    <2>2. QED
      BY <1>2, <1>4, <2>1 DEF setVsyncRate
  <1>5. ASSUME NEW event \in HotplugEvents, onHotplugReceived(event)
        PROVE  DispatchInv' /\ ThreadPart' /\ Keeps("sf")
    <2>1. /\ EventThreadTypeOK' /\ thread' \notin {"waiting", "timedWait", "looping"}
      BY <1>1, <1>5, SMT DEF onHotplugReceived, EventThreadTypeOK, Notified, MutexFree
    <2>2. QED
      BY <1>2, <1>5, <2>1 DEF onHotplugReceived
  <1>6. ASSUME NEW enable \in BOOLEAN, enableSyntheticVsync(enable)
        PROVE  DispatchInv' /\ ThreadPart' /\ Keeps("sf")
    <2>1. [synthetic |-> enable] \in [synthetic : BOOLEAN]
      OBVIOUS
    <2>2. /\ EventThreadTypeOK' /\ thread' \notin {"waiting", "timedWait", "looping"}
      BY <1>1, <1>6, <2>1
         DEF enableSyntheticVsync, EventThreadTypeOK, Notified, MutexFree, Optional
    <2>3. QED
      BY <1>2, <1>6, <2>2 DEF enableSyntheticVsync
  <1>7. ASSUME NEW c \in Connections, ClosePipe(c)
        PROVE  DispatchInv' /\ ThreadPart' /\ Keeps("sf")
    <2>1. EventThreadTypeOK'
      BY <1>1, <1>7 DEF ClosePipe, EventThreadTypeOK
    <2>2. QED
      BY <1>1, <1>2, <1>7, <2>1 DEF ClosePipe, ThreadInv
  <1>8. CASE FakeVsync
    <2>1. /\ EventThreadTypeOK' /\ thread' = "looping" /\ ~Exchanging(exchange)
      BY <1>1, <1>8, SMT DEF FakeVsync, EventThreadTypeOK, MutexFree, Exchanging
    <2>2. QED
      BY <1>2, <1>8, <2>1 DEF FakeVsync
  <1>9. QED
    BY <1>3, <1>4, <1>5, <1>6, <1>7, <1>8

\* onNewVsyncSchedule of the EventThread, in its steps.
LEMMA ThreadExchanges ==
  ASSUME IInv,
         AppOnNewVsyncSchedule \/ AppRegistrationMade \/ AppOldUnregistered \/ AppOldNotRunning
  PROVE  DispatchInv' /\ ThreadPart' /\ Keeps("sf") /\ UNCHANGED mqVars
  <1> DEFINE reg == mVsyncRegistration.token
  <1>1. /\ DispatchInv /\ GoodDispatch(dispatch) /\ vsyncPhase \in 1..Period
        /\ EventThreadTypeOK /\ ThreadInv /\ OneExchange
    BY DEF IInv, DispatchInv
  <1>2. /\ reg \in DOMAIN dispatch.mCallbacks /\ dispatch.mCallbacks[reg].mName = "app"
        /\ OwnRegistration("app", reg, exchange)
        /\ reg \in Tokens /\ mVsyncRegistration.timing \in Timing
    BY <1>1 DEF ThreadInv, OwnRegistration, EventThreadTypeOK
  <1>3. CASE AppOnNewVsyncSchedule
    <2>1. /\ UNCHANGED <<timer, mRunning, vsyncPhase, thread, mState, mVSyncState,
                         mPendingEvents, mDisplayEventConnections, closed, vsyncRequest,
                         mVsyncRegistration, unanswered, aborted, mqVars>>
          /\ thread # "looping" /\ exchange.pc = "none" /\ oldRegistration.pc = "none"
          /\ dispatch.mCallbackToken + 1 \in Tokens
          /\ dispatch' = cancel(dispatch, reg)
          /\ exchange' = [pc |-> IF CancelResult(dispatch, reg) = "Cancelled"
                                 THEN "reschedule" ELSE "register", token |-> reg]
          /\ vsyncDropped' = (vsyncDropped \/ Pending(reg))
      BY <1>3 DEF AppOnNewVsyncSchedule, AppIsNext, CancelRegistration, OnThread,
        MutexFree
    <2>2. Serves(dispatch, dispatch', {reg})
      BY <1>1, <1>2, <2>1, Cancels
    <2>3. /\ DispatchInv' /\ dispatch'.mCallbackToken = dispatch.mCallbackToken
          /\ DOMAIN dispatch'.mCallbacks = DOMAIN dispatch.mCallbacks
          /\ \A t \in DOMAIN dispatch.mCallbacks :
               dispatch'.mCallbacks[t].mName = dispatch.mCallbacks[t].mName
      BY <1>1, <2>1, <2>2, ClientServes
    <2>4. Keeps("sf")
      BY <1>2, <2>1, <2>2, AppServesKeeps
    <2>5. exchange'.pc \in {"reschedule", "register"} /\ exchange'.token = reg
          /\ exchange' \in Exchanges /\ vsyncDropped' \in BOOLEAN
      BY <1>1, <1>2, <2>1 DEF Exchanges, Optional, EventThreadTypeOK
    <2>6. EventThreadTypeOK'
      BY <1>1, <2>1, <2>5 DEF EventThreadTypeOK
    <2>7. ASSUME thread = "timedWait", mState = "VSync", exchange'.pc # "reschedule"
          PROVE  vsyncDropped' \/ Invoked("app")'
      <3>1. ~Armed(dispatch.mCallbacks[reg])
        <4>1. CancelResult(dispatch, reg) # "Cancelled"
          BY <2>1, <2>7
        <4>2. QED
          BY <1>2, <4>1 DEF CancelResult
      <3>2. vsyncDropped \/ Invoked("app") \/ Awaits(dispatch.mCallbacks[reg])
        BY <1>1, <2>1, <2>7 DEF ThreadInv, OnItsWay
      <3>3. QED
        BY <2>1, <3>1, <3>2 DEF Awaits, Pending, Invoked
    <2>8. ThreadInv'
      BY <1>1, <1>2, <2>1, <2>3, <2>5, <2>7
         DEF ThreadInv, OwnRegistration, OnItsWay, Exchanging
    <2>9. OneExchange'
      BY <2>1, <2>3 DEF OneExchange, Exchanging, mqVars
    <2>10. QED
      BY <2>1, <2>3, <2>4, <2>6, <2>8, <2>9 DEF ThreadPart
  <1>4. CASE AppRegistrationMade
    <2> DEFINE registered == registerCallback(dispatch, "app")
               token == dispatch.mCallbackToken + 1
               rescheduled == exchange.pc = "reschedule"
    <2>1. /\ Exchanging(exchange) /\ oldRegistration.pc = "none" /\ token \in Tokens
          /\ exchange.token = reg /\ thread # "looping"
      BY <1>1, <1>4 DEF AppRegistrationMade, ExchangeRegistration, OneExchange,
        Exchanging,
                        ThreadInv, OwnRegistration
    <2>2. /\ GoodDispatch(registered)
          /\ registered.mCallbackToken = token /\ token \notin DOMAIN dispatch.mCallbacks
          /\ DOMAIN registered.mCallbacks = DOMAIN dispatch.mCallbacks \cup {token}
          /\ \A t \in DOMAIN dispatch.mCallbacks :
               registered.mCallbacks[t] = dispatch.mCallbacks[t]
          /\ registered.mCallbacks[token].mName = "app"
      BY <1>1, <2>1, Registers DEF Clients
    <2>3. /\ dispatch' = IF rescheduled
                         THEN schedule(registered, token, mVsyncRegistration.timing)
                         ELSE registered
          /\ mVsyncRegistration' = [mVsyncRegistration EXCEPT !.token = token]
          /\ exchange' = [exchange EXCEPT !.pc = "unregister"]
          /\ UNCHANGED <<timer, mRunning, vsyncPhase, thread, mState, mVSyncState,
                         mPendingEvents, mDisplayEventConnections, closed, vsyncRequest,
                         vsyncDropped, unanswered, aborted, mqVars>>
      BY <1>4, <2>2 DEF AppRegistrationMade, ExchangeRegistration, OnThread
    <2> HIDE DEF registered
    <2>4. /\ Serves(registered, dispatch', {})
          /\ rescheduled => Awaits(dispatch'.mCallbacks[token])
      <3>1. CASE rescheduled
        BY <1>1, <1>2, <2>2, <2>3, <3>1, Schedules
      <3>2. CASE ~rescheduled
        BY <2>2, <2>3, <3>2 DEF Serves, SameCallbacks
      <3>3. QED
        BY <3>1, <3>2
    <2>5. /\ GoodDispatch(dispatch')
          /\ DOMAIN dispatch'.mCallbacks = DOMAIN dispatch.mCallbacks \cup {token}
          /\ dispatch'.mCallbacks[token].mName = "app"
          /\ \A t \in DOMAIN dispatch.mCallbacks :
               /\ dispatch'.mCallbacks[t].mName = dispatch.mCallbacks[t].mName
               /\ Awaits(dispatch.mCallbacks[t]) => Awaits(dispatch'.mCallbacks[t])
      BY <2>2, <2>4 DEF Serves, SameCallbacks
    <2>6. DispatchInv' /\ Keeps("sf")
      BY <1>1, <2>3, <2>5 DEF DispatchInv, CallbacksCollected, Keeps, Invoked
    <2>7. /\ mVsyncRegistration' \in [token : Tokens, timing : Timing]
          /\ mVsyncRegistration'.token = token
      BY <1>1, <2>1, <2>3 DEF EventThreadTypeOK
    <2>8. exchange' \in Exchanges /\ exchange'.pc = "unregister" /\ exchange'.token = reg
      BY <1>1, <2>1, <2>3 DEF EventThreadTypeOK, Exchanges
    <2>9. EventThreadTypeOK'
      BY <1>1, <2>3, <2>7, <2>8 DEF EventThreadTypeOK
    <2>10. ASSUME thread = "timedWait", mState = "VSync", ~rescheduled
           PROVE  vsyncDropped' \/ Invoked("app")'
      BY <1>1, <2>1, <2>3, <2>10 DEF ThreadInv, OnItsWay, Exchanging, Invoked
    <2>11. ThreadInv'
      BY <1>1, <1>2, <2>1, <2>2, <2>3, <2>4, <2>5, <2>7, <2>8, <2>10, ZenonT(30)
         DEF ThreadInv, OwnRegistration, OnItsWay, Exchanging
    <2>12. OneExchange'
      BY <2>1, <2>3, <2>8 DEF OneExchange, Exchanging, mqVars
    <2>13. QED
      BY <2>3, <2>6, <2>9, <2>11, <2>12 DEF ThreadPart
  <1>5. CASE AppOldUnregistered
    <2> DEFINE old == exchange.token
    <2>1. /\ exchange.pc = "unregister" /\ dispatch' = Unregistered(dispatch, old)
          /\ exchange' = [exchange EXCEPT !.pc = "ensureNotRunning"]
          /\ UNCHANGED <<timer, mRunning, vsyncPhase, thread, mState, mVSyncState,
                         mPendingEvents, mDisplayEventConnections, closed, vsyncRequest,
                         mVsyncRegistration, vsyncDropped, unanswered, aborted, mqVars>>
      BY <1>5 DEF AppOldUnregistered, UnregisterReplaced, OnThread
    <2>2. /\ GoodDispatch(dispatch') /\ dispatch'.mCallbackToken = dispatch.mCallbackToken
          /\ DOMAIN dispatch'.mCallbacks = DOMAIN dispatch.mCallbacks \ {old}
          /\ \A t \in DOMAIN dispatch'.mCallbacks :
               dispatch'.mCallbacks[t] = dispatch.mCallbacks[t]
      BY <1>1, <2>1, Unregisters, SMT
    <2>3. /\ old \in DOMAIN dispatch.mCallbacks /\ dispatch.mCallbacks[old].mName = "app"
          /\ old # reg
      BY <1>2, <2>1 DEF OwnRegistration
    <2>4. DispatchInv' /\ Keeps("sf")
      BY <1>1, <2>1, <2>2, <2>3 DEF DispatchInv, CallbacksCollected, Keeps, Invoked
    <2>5. exchange' \in Exchanges /\ exchange'.pc = "ensureNotRunning"
      BY <1>1, <2>1 DEF EventThreadTypeOK, Exchanges
    <2>6. EventThreadTypeOK'
      BY <1>1, <2>1, <2>5 DEF EventThreadTypeOK
    <2>7. ThreadInv'
      BY <1>1, <1>2, <2>1, <2>2, <2>3, <2>5
         DEF ThreadInv, OwnRegistration, OnItsWay, Exchanging, Invoked
    <2>8. OneExchange'
      BY <1>1, <2>1, <2>2, <2>5 DEF OneExchange, Exchanging, mqVars
    <2>9. QED
      BY <2>1, <2>4, <2>6, <2>7, <2>8 DEF ThreadPart
  <1>6. CASE AppOldNotRunning
    <2>1. /\ exchange.pc = "ensureNotRunning" /\ exchange' = [pc |-> "none", token |-> None]
          /\ UNCHANGED <<dispatch, timer, mRunning, vsyncPhase, thread, mState, mVSyncState,
                         mPendingEvents, mDisplayEventConnections, closed, vsyncRequest,
                         mVsyncRegistration, vsyncDropped, unanswered, aborted, mqVars>>
      BY <1>6 DEF AppOldNotRunning, EnsureReplacedNotRunning, OnThread, dispatchVars
    <2>2. DispatchInv' /\ Keeps("sf")
      BY <1>1, <2>1, KeepsAll DEF DispatchInv, CallbacksCollected
    <2>3. exchange' \in Exchanges
      BY <2>1 DEF Exchanges, Optional
    <2>4. EventThreadTypeOK'
      BY <1>1, <2>1, <2>3 DEF EventThreadTypeOK
    <2>5. ThreadInv'
      BY <1>1, <2>1 DEF ThreadInv, OwnRegistration, OnItsWay, Exchanging, Invoked
    <2>6. OneExchange'
      BY <1>1, <2>1 DEF OneExchange, Exchanging, mqVars
    <2>7. QED
      BY <2>1, <2>2, <2>4, <2>5, <2>6 DEF ThreadPart
  <1>7. QED
    BY <1>3, <1>4, <1>5, <1>6

\* The steps of the EventThread keep its part and the MessageQueue's callback.
LEMMA ThreadSteps ==
  ASSUME IInv, ThreadStep
  PROVE  DispatchInv' /\ ThreadPart' /\ Keeps("sf") /\ UNCHANGED mqVars
  <1> DEFINE reg == mVsyncRegistration.token
  <1>1. /\ DispatchInv /\ GoodDispatch(dispatch) /\ vsyncPhase \in 1..Period
        /\ EventThreadTypeOK /\ ThreadInv /\ OneExchange
    BY DEF IInv, DispatchInv
  <1>2. /\ reg \in DOMAIN dispatch.mCallbacks
        /\ mVsyncRegistration \in [token : Tokens, timing : Timing]
    BY <1>1 DEF ThreadInv, OwnRegistration, EventThreadTypeOK
  <1>3. CASE AppCallback
    <2>1. /\ MutexFree /\ thread' = Notified
          /\ UNCHANGED <<dispatch, vsyncPhase, mState, mVSyncState, mDisplayEventConnections,
                         closed, vsyncRequest, exchange, vsyncDropped, unanswered, mqVars>>
          /\ mPendingEvents' = Append(mPendingEvents, "vsync")
          /\ aborted' = (mVSyncState = None)
      BY <1>3 DEF AppCallback, onVsync, OnThread
    <2>2. PICK i \in RunningInvocations :
            /\ i.name = "app" /\ EndCallback(i)
            /\ mVsyncRegistration' =
                 [mVsyncRegistration EXCEPT !.timing.earliestVsync = i.vsync]
      BY <1>3 DEF AppCallback, onVsync
    <2>3. DispatchInv' /\ i \in Invocations /\ Keeps("sf")
      BY <1>1, <2>1, <2>2, CallbackEnds
    <2>4. /\ mVsyncRegistration' \in [token : Tokens, timing : Timing]
          /\ mVsyncRegistration'.token = reg
      BY <1>2, <2>2, <2>3 DEF Timing, Invocations
    <2>5. thread' = "awake" /\ ~Exchanging(exchange)
      BY <1>1, <2>1 DEF MutexFree, Notified, Exchanging, EventThreadTypeOK
    <2>6. EventThreadTypeOK'
      BY <1>1, <2>1, <2>4, <2>5, SMT DEF EventThreadTypeOK
    <2>7. ThreadInv'
      BY <1>1, <2>1, <2>4, <2>5 DEF ThreadInv, OwnRegistration, Exchanging
    <2>8. OneExchange'
      BY <1>1, <2>1 DEF OneExchange, Exchanging, mqVars
    <2>9. QED
      BY <2>1, <2>3, <2>6, <2>7, <2>8 DEF ThreadPart
  <1>4. CASE AppDurationSet
    <2>1. PICK timing \in AppTiming : EventThreadSetDuration(timing)
      BY <1>4 DEF AppDurationSet
    <2> DEFINE new == [timing EXCEPT !.earliestVsync = mVsyncRegistration.timing.earliestVsync]
    <2>2. /\ dispatch' = update(dispatch, reg, new)
          /\ mVsyncRegistration' = [mVsyncRegistration EXCEPT !.timing = new]
          /\ UNCHANGED <<timer, mRunning, vsyncPhase, thread, mState, mVSyncState,
                         mPendingEvents, mDisplayEventConnections, closed, vsyncRequest,
                         exchange, vsyncDropped, unanswered, aborted>>
      BY <2>1 DEF EventThreadSetDuration
    <2>3. UNCHANGED mqVars
      BY <1>4 DEF AppDurationSet, AppCalled
    <2>4. new \in Timing
      BY <1>2, AppTimingAssumption DEF Timing
    <2> HIDE DEF new
    <2>5. Serves(dispatch, dispatch', {})
      BY <1>1, <1>2, <2>2, <2>4, Updates
    <2>6. /\ DispatchInv' /\ dispatch'.mCallbackToken = dispatch.mCallbackToken
      BY <1>1, <2>2, <2>5, ClientServes
    <2>7. Keeps("sf") /\ Keeps("app")
      BY <2>2, <2>5, ServesKeeps, SMT
    <2>8. /\ mVsyncRegistration' \in [token : Tokens, timing : Timing]
          /\ mVsyncRegistration'.token = reg
      BY <1>2, <2>2, <2>4
    <2>9. EventThreadTypeOK'
      BY <1>1, <2>2, <2>8 DEF EventThreadTypeOK
    <2>10. ThreadInv'
      BY <1>1, <2>2, <2>7, <2>8, ThreadUndisturbed
    <2>11. OneExchange'
      BY <1>1, <2>2, <2>3, <2>6 DEF OneExchange, Exchanging, mqVars
    <2>12. QED
      BY <2>3, <2>6, <2>7, <2>9, <2>10, <2>11 DEF ThreadPart
  <1>5. CASE ThreadRound \/ ThrottledRound
    <2>1. UNCHANGED mqVars /\ \E throttled : threadMain(throttled)
      BY <1>5 DEF ThreadRound, ThrottledRound, OnThread, AppCalled
    <2>2. QED
      BY <2>1, ThreadRounds
  <1>6. CASE \/ SyntheticVsync \/ StalledVsync \/ DroppedVsync
             \/ VsyncRequested \/ VsyncRateSet \/ HotplugReceived \/ SyntheticEnabled
             \/ PipeClosed
    <2>1. UNCHANGED mqVars
      BY <1>6 DEF SyntheticVsync, StalledVsync, DroppedVsync, VsyncRequested, VsyncRateSet,
                  HotplugReceived, SyntheticEnabled, PipeClosed, OnThread, AppCalled
    <2>2. \/ \E c \in Connections : requestNextVsync(c)
          \/ \E c \in Connections, r \in {"None", "Periodic"} : setVsyncRate(c, r)
          \/ \E event \in HotplugEvents : onHotplugReceived(event)
          \/ \E enable \in BOOLEAN : enableSyntheticVsync(enable)
          \/ \E c \in Connections : ClosePipe(c)
          \/ FakeVsync
      BY <1>6
         DEF SyntheticVsync, StalledVsync, DroppedVsync, VsyncRequested, VsyncRateSet,
                  HotplugReceived, SyntheticEnabled, PipeClosed
    <2>3. QED
      BY <2>1, <2>2, ThreadCalls
  <1>7. QED
    BY <1>3, <1>4, <1>5, <1>6, ThreadExchanges DEF ThreadStep

(***************************************************************************)
(* The inductive invariant.                                                *)
(***************************************************************************)
\* The invariants hold initially.
LEMMA InvariantInit ==
  ASSUME Init
  PROVE  IInv /\ CoverInv
  <1> DEFINE work == CHOOSE w \in WorkDurations : \A v \in WorkDurations : w <= v
             timing == CHOOSE t \in AppTiming : \A u \in AppTiming : Lead(t) <= Lead(u)
  <1>1. work \in WorkDurations
    <2> DEFINE f == [w \in WorkDurations |-> w]
    <2>1. f \in [WorkDurations -> Int]
      BY WorkDurationsAssumption, SMT
    <2>2. \E w \in WorkDurations : \A v \in WorkDurations : f[w] <= f[v]
      BY <2>1, LeastValue, WorkDurationsAssumption
    <2>3. \E w \in WorkDurations : \A v \in WorkDurations : w <= v
      BY <2>2
    <2>4. QED
      BY <2>3
  <1>2. timing \in Timing
    <2> DEFINE f == [t \in AppTiming |-> Lead(t)]
    <2>1. f \in [AppTiming -> Int]
      BY AppTimingAssumption, SMT DEF Timing, Lead
    <2>2. \E t \in AppTiming : \A u \in AppTiming : f[t] <= f[u]
      BY <2>1, LeastValue, AppTimingAssumption
    <2>3. \E t \in AppTiming : \A u \in AppTiming : Lead(t) <= Lead(u)
      BY <2>2
    <2>4. timing \in AppTiming
      BY <2>3
    <2>5. QED
      BY <2>4, AppTimingAssumption
  <1> HIDE DEF work, timing
  <1>3. /\ 1 \in Tokens /\ 2 \in Tokens /\ MaxCalls \in Nat
        /\ kInvalidTime \in Nat /\ MaxLate \in Nat /\ Period \in Nat /\ Period > 0
    BY SchedulingAssumption, DispatchAssumption, SMT
  <1> DEFINE first == registerCallback(NewDispatch, "sf")
  <1>4. /\ GoodDispatch(first) /\ Covered(first) /\ AlarmSet(first) /\ CallbackSet(first)
        /\ first.mCallbackToken = 1 /\ DOMAIN first.mCallbacks = {1}
        /\ first.mCallbacks[1].mName = "sf"
    <2> DEFINE token == NewDispatch.mCallbackToken + 1
               none == NewDispatch.mCallbacks
               cbs == [t \in DOMAIN none \cup {token} |->
                         IF t = token THEN NewEntry("sf") ELSE none[t]]
    <2>1. first = [NewDispatch EXCEPT !.mCallbackToken = token, !.mCallbacks = cbs]
      BY DEF registerCallback
    <2>2. /\ GoodEntry(NewEntry("sf")) /\ ~Awaits(NewEntry("sf"))
          /\ NewEntry("sf").mName = "sf"
      BY NewEntryGood DEF Clients
    <2>3. token = 1 /\ token \in Tokens /\ DOMAIN none = {}
      BY <1>3, SMT DEF NewDispatch
    <2>4. /\ DOMAIN cbs = {token} /\ cbs[token] = NewEntry("sf")
          /\ cbs \in [{token} -> Entries]
      BY <2>2, <2>3 DEF GoodEntry
    <2>5. /\ first \in Dispatches({token})
          /\ first.mCallbacks = cbs /\ first.mCallbackToken = token
          /\ first.mIntendedWakeupTime = kInvalidTime
      <3>1. /\ NewDispatch \in [mCallbacks : {none}, mCallbackToken : Int,
                                mIntendedWakeupTime : Int, alarm : Optional(Int),
                                mCallback : BOOLEAN]
            /\ NewDispatch.mIntendedWakeupTime = kInvalidTime
        BY <1>3, SMT DEF NewDispatch, Optional
      <3> HIDE DEF token, cbs, none, first
      <3>2. QED
        BY <2>1, <2>3, <2>4, <3>1 DEF Dispatches
    <2> HIDE DEF token, cbs, none, first
    <2>6. GoodDispatch(first)
      BY <2>2, <2>3, <2>4, <2>5, SMT DEF GoodDispatch
    <2>7. Covered(first) /\ AlarmSet(first) /\ CallbackSet(first)
      <3>1. /\ first.mIntendedWakeupTime = kInvalidTime
            /\ \A t \in DOMAIN first.mCallbacks : ~Awaits(first.mCallbacks[t])
        BY <2>2, <2>4, <2>5
      <3>2. -MaxLate <= kInvalidTime /\ kInvalidTime <= kInvalidTime
        BY <1>3, SMT
      <3>3. QED
        BY <3>1, <3>2 DEF Covered, AlarmSet, CallbackSet, Awaits
    <2>8. QED
      BY <2>2, <2>3, <2>4, <2>5, <2>6, <2>7
  <1>5. dispatch = registerCallback(first, "app")
    BY DEF Init
  <1> HIDE DEF first
  <1>6. /\ GoodDispatch(dispatch)
        /\ Covered(dispatch) /\ AlarmSet(dispatch) /\ CallbackSet(dispatch)
        /\ DOMAIN dispatch.mCallbacks = {1, 2}
        /\ dispatch.mCallbacks[1].mName = "sf" /\ dispatch.mCallbacks[2].mName = "app"
    <2> DEFINE token == first.mCallbackToken + 1
    <2>1. token = 2 /\ token \in Tokens /\ "app" \in Clients
      BY <1>3, <1>4, SMT DEF Clients
    <2> DEFINE r == registerCallback(first, "app")
    <2>2. /\ GoodDispatch(r)
          /\ DOMAIN r.mCallbacks = DOMAIN first.mCallbacks \cup {token}
          /\ \A t \in DOMAIN first.mCallbacks : r.mCallbacks[t] = first.mCallbacks[t]
          /\ r.mCallbacks[token].mName = "app"
          /\ Covered(first) => Covered(r)
          /\ AlarmSet(first) => AlarmSet(r)
          /\ CallbackSet(first) => CallbackSet(r)
      BY <1>4, <2>1, Registers
    <2> HIDE DEF r, token
    <2>3. /\ GoodDispatch(r) /\ Covered(r) /\ AlarmSet(r) /\ CallbackSet(r)
          /\ DOMAIN r.mCallbacks = {1, 2}
          /\ r.mCallbacks[1].mName = "sf" /\ r.mCallbacks[2].mName = "app"
      BY <1>4, <2>1, <2>2
    <2>4. QED
      BY <1>5, <2>3 DEF r
  <1>7. DispatchInv
    <2>1. /\ timer = [pc |-> "waiting", invocations |-> {}]
          /\ mRunning = {} /\ vsyncPhase = Period
      BY DEF Init
    <2>2. QED
      BY <1>3, <1>6, <2>1, SMT DEF DispatchInv, CallbacksCollected
  <1>8. /\ MessageQueueTypeOK /\ MessageIsPending
        /\ mVsync.registration = 1 /\ ~mVsync.locked /\ ~mVsync.scheduledFrameTime
        /\ oldRegistration.pc = "none"
    <2>1. MessageQueueInit(1, work)
      BY DEF Init, work
    <2>2. /\ mVsync = [registration |-> 1, workDuration |-> work, lastCallbackTime |-> 0,
                       scheduledFrameTime |-> FALSE, locked |-> FALSE]
          /\ oldRegistration = [pc |-> "none", token |-> None]
          /\ mHandler = [mFramePending |-> FALSE, messages |-> 0, handling |-> FALSE]
          /\ frameRequested = FALSE /\ frameDropped = FALSE
      BY <2>1 DEF MessageQueueInit
    <2>3. mVsync \in [registration : Tokens, workDuration : WorkDurations,
                      lastCallbackTime : Nat, scheduledFrameTime : BOOLEAN, locked : BOOLEAN]
      BY <1>1, <1>3, <2>2
    <2>4. oldRegistration \in Exchanges
      BY <2>2 DEF Exchanges, Optional
    <2>5. mHandler \in [mFramePending : BOOLEAN, messages : 0..1, handling : BOOLEAN]
          /\ mHandler.messages # 1
      <3> DEFINE m == 0
      <3>1. m \in 0..1 /\ m # 1
        BY SMT
      <3>2. mHandler = [mFramePending |-> FALSE, messages |-> m, handling |-> FALSE]
        BY <2>2
      <3> HIDE DEF m
      <3>3. QED
        BY <3>1, <3>2
    <2>6. QED
      BY <2>2, <2>3, <2>4, <2>5 DEF MessageQueueTypeOK, MessageIsPending
  <1>9. /\ EventThreadTypeOK
        /\ mVsyncRegistration.token = 2 /\ thread = "awake" /\ exchange.pc = "none"
    <2>1. /\ mVsyncRegistration = [token |-> 2, timing |-> timing]
          /\ exchange = [pc |-> "none", token |-> None]
          /\ vsyncRequest = [c \in Connections |-> "None"]
          /\ mPendingEvents = <<"connect">> /\ mDisplayEventConnections = Connections
          /\ thread = "awake" /\ mState = "Idle" /\ mVSyncState = None
          /\ closed = {} /\ unanswered = {} /\ vsyncDropped = FALSE /\ aborted = FALSE
      BY DEF Init, EventThreadInit, timing
    <2>2. exchange \in Exchanges
      BY <2>1 DEF Exchanges, Optional
    <2>3. mPendingEvents \in Seq(HotplugEvents \cup {"connect", "vsync"})
      BY <2>1, SMT
    <2>4. mVsyncRegistration \in [token : Tokens, timing : Timing]
      BY <1>2, <1>3, <2>1
    <2>5. QED
      BY <2>1, <2>2, <2>3, <2>4 DEF EventThreadTypeOK, Optional, Requests
  <1>10. OneExchange /\ QueueInv /\ ThreadInv
    BY <1>6, <1>8, <1>9 DEF OneExchange, QueueInv, ThreadInv, OwnRegistration,
      Exchanging
  <1>11. IInv
    BY <1>3, <1>7, <1>8, <1>9, <1>10, SMT DEF Init, IInv
  <1>12. QED
    BY <1>6, <1>11 DEF CoverInv

\* Every step preserves the invariant: those of the clients by what they do to their own
\* part, those of the dispatch by leaving the clients what they wait for.
LEMMA InvariantNext ==
  ASSUME IInv, [Next]_vars
  PROVE  IInv'
  <1>1. /\ DispatchInv /\ MessageQueueTypeOK /\ MessageIsPending /\ EventThreadTypeOK
        /\ calls \in 0..MaxCalls /\ OneExchange /\ QueueInv /\ ThreadInv
    BY DEF IInv
  <1>2. calls' \in 0..MaxCalls
    <2>1. calls' = calls \/ Called
      BY DEF Next, TimerThread, vars, Tick, TimerExpires, TimerTakesCallback, TimerCallback,
             TimerBeginsCallback, SfCallback, AppCallback, MainHandlesMessage,
             MainSignalsFrame, OnNewVsyncSchedule, RegistrationMade, OldUnregistered,
             OldNotRunning, AppOnNewVsyncSchedule, AppRegistrationMade, AppOldUnregistered,
             AppOldNotRunning, ThreadRound, ThrottledRound, SyntheticVsync, StalledVsync,
             DroppedVsync, FrameScheduled, DurationSet, VsyncRequested, VsyncRateSet,
             HotplugReceived, SyntheticEnabled, AppDurationSet, PipeClosed, Resynced,
             TimerReset, OnDispatch, OnQueue, OnThread, SfCalled, AppCalled
    <2>2. QED
      BY <1>1, <2>1, SchedulingAssumption, SMT DEF Called
  <1>3. ASSUME QueueStep PROVE IInv'
    <2>1. DispatchInv' /\ QueuePart' /\ Keeps("app") /\ UNCHANGED etVars
      BY <1>3, QueueSteps
    <2>2. ThreadInv'
      BY <1>1, <2>1, ThreadUndisturbed DEF etVars
    <2>3. EventThreadTypeOK'
      BY <1>1, <2>1 DEF EventThreadTypeOK, etVars
    <2>4. QED
      BY <1>2, <2>1, <2>2, <2>3 DEF IInv, QueuePart
  <1>4. ASSUME ThreadStep PROVE IInv'
    <2>1. DispatchInv' /\ ThreadPart' /\ Keeps("sf") /\ UNCHANGED mqVars
      BY <1>4, ThreadSteps
    <2>2. QueueInv'
      BY <1>1, <2>1, QueueUndisturbed DEF mqVars
    <2>3. MessageQueueTypeOK' /\ MessageIsPending'
      BY <1>1, <2>1 DEF MessageQueueTypeOK, MessageIsPending, mqVars
    <2>4. QED
      BY <1>2, <2>1, <2>2, <2>3 DEF IInv, ThreadPart
  <1>5. ASSUME Tick PROVE IInv'
    <2>1. /\ DispatchInv' /\ dispatch'.mCallbackToken = dispatch.mCallbackToken
          /\ Keeps("sf") /\ Keeps("app")
      BY <1>1, <1>5, DispatchSteps DEF Tick
    <2>2. /\ mVsync' = [mVsync EXCEPT !.lastCallbackTime =
                                        EarlierDownTo0(mVsync.lastCallbackTime)]
          /\ UNCHANGED <<oldRegistration, mHandler, frameRequested, frameDropped>>
      BY <1>5 DEF Tick, MessageQueueTick
    <2>3. MessageQueueTypeOK' /\ MessageIsPending'
      <3>1. EarlierDownTo0(mVsync.lastCallbackTime) \in Nat
        BY <1>1, SMT DEF MessageQueueTypeOK, EarlierDownTo0, max
      <3>2. QED
        BY <1>1, <2>2, <3>1 DEF MessageQueueTypeOK, MessageIsPending
    <2>4. QueueInv'
      <3>1. /\ mVsync'.registration = mVsync.registration /\ mVsync'.locked = mVsync.locked
            /\ mVsync'.scheduledFrameTime = mVsync.scheduledFrameTime
        BY <1>1, <2>2 DEF MessageQueueTypeOK
      <3>2. QED
        BY <1>1, <2>1, <2>2, <3>1, QueueUndisturbed
    <2>5. /\ mVsyncRegistration' = [mVsyncRegistration EXCEPT !.timing =
                                      EarlierTiming(mVsyncRegistration.timing)]
          /\ UNCHANGED <<thread, mState, mVSyncState, mPendingEvents,
                         mDisplayEventConnections, closed, vsyncRequest, exchange,
                         vsyncDropped, unanswered, aborted>>
      BY <1>5 DEF Tick, EventThreadTick
    <2>6. /\ mVsyncRegistration' \in [token : Tokens, timing : Timing]
          /\ mVsyncRegistration'.token = mVsyncRegistration.token
      <3>1. mVsyncRegistration \in [token : Tokens, timing : Timing]
        BY <1>1 DEF EventThreadTypeOK
      <3>2. EarlierTiming(mVsyncRegistration.timing) \in Timing
        BY <3>1, NoneAssumption, SMT DEF EarlierTiming, EarlierDownTo0, max, Timing
      <3>3. QED
        BY <2>5, <3>1, <3>2
    <2>7. EventThreadTypeOK'
      BY <1>1, <2>5, <2>6 DEF EventThreadTypeOK
    <2>8. ThreadInv'
      BY <1>1, <2>1, <2>5, <2>6, ThreadUndisturbed
    <2>9. OneExchange'
      BY <1>1, <2>1, <2>2, <2>5 DEF OneExchange, Exchanging
    <2>10. QED
      BY <1>2, <2>1, <2>3, <2>4, <2>7, <2>8, <2>9 DEF IInv
  <1>6. ASSUME DispatchInv', dispatch'.mCallbackToken = dispatch.mCallbackToken,
               Keeps("sf"), Keeps("app"), UNCHANGED <<mqVars, etVars>>
        PROVE  IInv'
    <2>1. QueueInv'
      BY <1>1, <1>6, QueueUndisturbed DEF mqVars
    <2>2. ThreadInv'
      BY <1>1, <1>6, ThreadUndisturbed DEF etVars
    <2>3. MessageQueueTypeOK' /\ MessageIsPending'
      BY <1>1, <1>6 DEF MessageQueueTypeOK, MessageIsPending, mqVars
    <2>4. EventThreadTypeOK'
      BY <1>1, <1>6 DEF EventThreadTypeOK, etVars
    <2>5. OneExchange'
      BY <1>1, <1>6 DEF OneExchange, Exchanging, mqVars, etVars
    <2>6. QED
      BY <1>2, <1>6, <2>1, <2>2, <2>3, <2>4, <2>5 DEF IInv
  <1>7. CASE TimerExpires \/ TimerTakesCallback \/ TimerCallback \/ TimerBeginsCallback
             \/ Resynced \/ TimerReset
    <2>1. /\ \/ AlarmExpires \/ TakeCallback \/ timerCallback \/ BeginCallback
             \/ Resync \/ reset
          /\ UNCHANGED <<mqVars, etVars>>
      BY <1>7
         DEF TimerExpires, TimerTakesCallback, TimerCallback, TimerBeginsCallback,
             Resynced, TimerReset, OnDispatch, SfCalled
    <2>2. /\ DispatchInv' /\ dispatch'.mCallbackToken = dispatch.mCallbackToken
          /\ Keeps("sf") /\ Keeps("app")
      BY <1>1, <2>1, DispatchSteps
    <2>3. QED
      BY <1>6, <2>1, <2>2
  <1>8. CASE UNCHANGED vars
    <2>1. UNCHANGED <<dispatch, timer, mRunning, vsyncPhase, mqVars, etVars>>
      BY <1>8 DEF vars, dispatchVars
    <2>2. DispatchInv' /\ Keeps("sf") /\ Keeps("app")
      BY <1>1, <2>1, KeepsAll DEF DispatchInv, CallbacksCollected
    <2>3. QED
      BY <1>6, <2>1, <2>2
  <1>9. QED
    BY <1>3, <1>4, <1>5, <1>7, <1>8 DEF Next, TimerThread, QueueStep, ThreadStep

\* What a client does leaves the timer as good as it was.
StaysCovered ==
  /\ Covered(dispatch) => Covered(dispatch')
  /\ AlarmSet(dispatch) => AlarmSet(dispatch')
  /\ CallbackSet(dispatch) => CallbackSet(dispatch')
  /\ TimerThreadComing => timer'.pc = timer.pc

\* The clients leave every wakeup covered by the timer.
LEMMA ClientsCover ==
  ASSUME IInv, QueueStep \/ ThreadStep
  PROVE  StaysCovered
  <1> DEFINE sf == mVsync.registration
             app == mVsyncRegistration.token
  <1>1. /\ DispatchInv /\ GoodDispatch(dispatch) /\ vsyncPhase \in 1..Period
        /\ sf \in DOMAIN dispatch.mCallbacks /\ app \in DOMAIN dispatch.mCallbacks
        /\ mVsyncRegistration.timing \in Timing
        /\ \A work \in WorkDurations : SfTiming(work) \in Timing
        /\ mVsync.workDuration \in WorkDurations
        /\ OneExchange
    BY SfTimingType DEF IInv, DispatchInv, QueueInv, ThreadInv, OwnRegistration,
                        MessageQueueTypeOK, EventThreadTypeOK
  <1>2. ASSUME NEW cancelled, Serves(dispatch, dispatch', cancelled), timer' = timer
        PROVE  StaysCovered
    BY <1>2 DEF Serves, StaysCovered, TimerThreadComing
  <1>3. ASSUME dispatch' = dispatch, timer' = timer
        PROVE  StaysCovered
    BY <1>3 DEF StaysCovered, TimerThreadComing
  <1>4. ASSUME NEW i \in RunningInvocations, EndCallback(i), dispatch' = dispatch
        PROVE  StaysCovered
    <2>1. timer.pc = "invoking"
      BY <1>1, <1>4 DEF DispatchInv, CallbacksCollected, RunningInvocations
    <2>2. QED
      BY <1>4, <2>1 DEF StaysCovered, TimerThreadComing
  <1>5. ASSUME NEW name \in Clients, dispatch.mCallbackToken + 1 \in Tokens, timer' = timer,
               NEW timing \in Timing,
               LET r == registerCallback(dispatch, name) IN
               dispatch' \in {r, schedule(r, r.mCallbackToken, timing)}
        PROVE  StaysCovered
    <2>1. /\ Covered(dispatch) => Covered(dispatch')
          /\ AlarmSet(dispatch) => AlarmSet(dispatch')
          /\ CallbackSet(dispatch) => CallbackSet(dispatch')
      BY <1>1, <1>5, RegisteringCovers
    <2>2. QED
      BY <1>5, <2>1 DEF StaysCovered, TimerThreadComing
  <1>6. ASSUME NEW token, dispatch' = Unregistered(dispatch, token), timer' = timer
        PROVE  StaysCovered
    BY <1>1, <1>6, Unregisters DEF StaysCovered, TimerThreadComing
  <1>7. CASE FrameScheduled \/ DurationSet \/ OnNewVsyncSchedule
    <2>1. /\ timer' = timer
          /\ \/ dispatch' = schedule(dispatch, sf, SfTiming(mVsync.workDuration))
             \/ \E w \in WorkDurations : dispatch' = update(dispatch, sf, SfTiming(w))
             \/ dispatch' = cancel(dispatch, sf)
      BY <1>7 DEF FrameScheduled, scheduleFrame, DurationSet, setDuration,
        OnNewVsyncSchedule,
                  CancelOldRegistration
    <2>2. Serves(dispatch, dispatch', {}) \/ Serves(dispatch, dispatch', {sf})
      BY <1>1, <2>1, Schedules, Updates, Cancels
    <2>3. QED
      BY <1>2, <2>1, <2>2
  <1>8. CASE ThreadRound \/ ThrottledRound \/ AppOnNewVsyncSchedule
    <2>1. /\ timer' = timer
          /\ \/ dispatch' = schedule(dispatch, app, mVsyncRegistration.timing)
             \/ dispatch' = cancel(dispatch, app)
      BY <1>8 DEF ThreadRound, ThrottledRound, threadMain, AppOnNewVsyncSchedule,
                  CancelRegistration
    <2>2. Serves(dispatch, dispatch', {}) \/ Serves(dispatch, dispatch', {app})
      BY <1>1, <2>1, Schedules, Cancels
    <2>3. QED
      BY <1>2, <2>1, <2>2
  <1>9. CASE AppDurationSet
    <2>1. PICK timing \in AppTiming : EventThreadSetDuration(timing)
      BY <1>9 DEF AppDurationSet
    <2> DEFINE new == [timing EXCEPT !.earliestVsync = mVsyncRegistration.timing.earliestVsync]
    <2>2. timer' = timer /\ dispatch' = update(dispatch, app, new)
      BY <2>1 DEF EventThreadSetDuration
    <2>3. new \in Timing
      BY <1>1, AppTimingAssumption DEF Timing
    <2> HIDE DEF new
    <2>4. Serves(dispatch, dispatch', {})
      BY <1>1, <2>2, <2>3, Updates
    <2>5. QED
      BY <1>2, <2>2, <2>4
  <1>10. CASE RegistrationMade
    <2>1. /\ timer' = timer /\ dispatch.mCallbackToken + 1 \in Tokens
          /\ LET r == registerCallback(dispatch, "sf") IN
             dispatch' \in {r, schedule(r, r.mCallbackToken, SfTiming(mVsync.workDuration))}
      BY <1>1, <1>10 DEF RegistrationMade, MakeRegistration, OneExchange, Exchanging
    <2>2. "sf" \in Clients /\ SfTiming(mVsync.workDuration) \in Timing
      BY <1>1 DEF Clients
    <2>3. QED
      BY <1>5, <2>1, <2>2
  <1>11. CASE AppRegistrationMade
    <2>1. /\ timer' = timer /\ dispatch.mCallbackToken + 1 \in Tokens
          /\ LET r == registerCallback(dispatch, "app") IN
             dispatch' \in {r, schedule(r, r.mCallbackToken, mVsyncRegistration.timing)}
      BY <1>1, <1>11 DEF AppRegistrationMade, ExchangeRegistration, OneExchange, Exchanging
    <2>2. "app" \in Clients /\ mVsyncRegistration.timing \in Timing
      BY <1>1 DEF Clients
    <2>3. QED
      BY <1>5, <2>1, <2>2
  <1>12. CASE OldUnregistered \/ AppOldUnregistered
    BY <1>6, <1>12 DEF OldUnregistered, UnregisterOld, AppOldUnregistered,
      UnregisterReplaced
  <1>13. CASE SfCallback \/ AppCallback
    BY <1>4, <1>13 DEF SfCallback, vsyncCallback, AppCallback, onVsync
  <1>14. CASE \/ MainHandlesMessage \/ MainSignalsFrame \/ OldNotRunning \/ AppOldNotRunning
              \/ SyntheticVsync \/ StalledVsync \/ DroppedVsync
              \/ VsyncRequested \/ VsyncRateSet \/ HotplugReceived \/ SyntheticEnabled
              \/ PipeClosed
    <2>1. UNCHANGED dispatchVars
      BY <1>14
         DEF MainHandlesMessage, HandleMessage, MainSignalsFrame, onFrameSignal,
                   OldNotRunning, EnsureNotRunning, AppOldNotRunning, EnsureReplacedNotRunning,
                   SyntheticVsync, StalledVsync, DroppedVsync, FakeVsync, VsyncRequested,
                   requestNextVsync, VsyncRateSet, setVsyncRate, HotplugReceived,
                   onHotplugReceived, SyntheticEnabled, enableSyntheticVsync, PipeClosed,
                   ClosePipe
    <2>2. QED
      BY <1>3, <2>1 DEF dispatchVars
  <1>15. QED
    BY <1>7, <1>8, <1>9, <1>10, <1>11, <1>12, <1>13, <1>14 DEF QueueStep, ThreadStep

\* The timer covers the wakeups as long as they can be represented: a wakeup of kInvalidTime
\* could not be told from a timer that is not intended.
LEMMA CoverNext ==
  ASSUME IInv, CoverInv, TimesRepresentable, [Next]_vars
  PROVE  CoverInv'
  <1>1. /\ DispatchInv /\ GoodDispatch(dispatch) /\ vsyncPhase \in 1..Period
        /\ Covered(dispatch) /\ (AlarmSet(dispatch) \/ TimerThreadComing)
        /\ CallbackSet(dispatch) \/ timer.pc = "callback"
    BY DEF IInv, DispatchInv, CoverInv
  <1>2. CASE QueueStep \/ ThreadStep
    BY <1>1, <1>2, ClientsCover DEF StaysCovered, CoverInv, TimerThreadComing
  <1>3. CASE Tick
    <2>1. /\ Covered(dispatch')
          /\ AlarmSet(dispatch) => AlarmSet(dispatch')
          /\ CallbackSet(dispatch) => CallbackSet(dispatch')
      BY <1>1, <1>3, Ticks DEF Tick
    <2>2. timer'.pc = timer.pc
      BY <1>1, <1>3 DEF Tick, DispatchTick, DispatchInv
    <2>3. QED
      BY <1>1, <2>1, <2>2 DEF CoverInv, TimerThreadComing
  <1>4. CASE TimerExpires
    <2>1. dispatch' = dispatch /\ timer.pc = "waiting" /\ timer'.pc = "expired"
      BY <1>1, <1>4 DEF TimerExpires, AlarmExpires, DispatchInv
    <2>2. QED
      BY <1>1, <2>1 DEF CoverInv, TimerThreadComing
  <1>5. CASE TimerTakesCallback
    <2>1. /\ timer.pc = "expired"
          /\ timer'.pc = IF dispatch.mCallback THEN "callback" ELSE "waiting"
          /\ dispatch'.mIntendedWakeupTime = dispatch.mIntendedWakeupTime
          /\ dispatch'.mCallbacks = dispatch.mCallbacks
          /\ dispatch'.mCallback = dispatch.mCallback
      BY <1>1, <1>5 DEF TimerTakesCallback, TakeCallback, DispatchInv, GoodDispatch,
        Dispatches
    <2>2. Covered(dispatch')
      BY <1>1, <2>1 DEF Covered
    <2>3. /\ AlarmSet(dispatch') \/ TimerThreadComing'
          /\ CallbackSet(dispatch')
      BY <1>1, <2>1 DEF CallbackSet, AlarmSet, TimerThreadComing
    <2>4. QED
      BY <2>2, <2>3 DEF CoverInv
  <1>6. CASE TimerCallback
    <2>1. dispatch' = rearmTimer(Executed(dispatch))
      BY <1>6 DEF TimerCallback, timerCallback
    <2>2. QED
      BY <1>1, <2>1, Executes DEF CoverInv
  <1>7. CASE TimerBeginsCallback \/ Resynced \/ UNCHANGED vars
    <2>1. dispatch' = dispatch /\ timer' = timer
      BY <1>7 DEF TimerBeginsCallback, BeginCallback, Resynced, Resync, vars, dispatchVars
    <2>2. QED
      BY <1>1, <2>1 DEF CoverInv, TimerThreadComing
  <1>8. CASE TimerReset
    <2>1. /\ timer.pc = "waiting"
          /\ timer'.pc = IF dispatch.mCallback THEN "callback" ELSE "waiting"
          /\ dispatch'.mIntendedWakeupTime = dispatch.mIntendedWakeupTime
          /\ dispatch'.mCallbacks = dispatch.mCallbacks
      BY <1>1, <1>8 DEF TimerReset, reset, DispatchInv, GoodDispatch, Dispatches
    <2>2. Covered(dispatch')
      BY <1>1, <2>1 DEF Covered
    <2>3. /\ AlarmSet(dispatch') \/ TimerThreadComing'
          /\ CallbackSet(dispatch') \/ timer'.pc = "callback"
      BY <1>1, <2>1 DEF CallbackSet, AlarmSet, TimerThreadComing
    <2>4. QED
      BY <2>2, <2>3 DEF CoverInv
  <1>9. QED
    BY <1>2, <1>3, <1>4, <1>5, <1>6, <1>7, <1>8 DEF Next, TimerThread, QueueStep, ThreadStep

(***************************************************************************)
(* The properties.                                                         *)
(***************************************************************************)
\* The invariant implies the properties of the scheduling run.
LEMMA InvariantImplies ==
  ASSUME IInv
  PROVE  TypeOK /\ OncePerVsync /\ NoVsyncSkipped /\ NoRequestSleeps /\ ScheduledFrameComes
  <1>1. /\ DispatchInv /\ MessageQueueTypeOK /\ EventThreadTypeOK /\ calls \in 0..MaxCalls
        /\ QueueInv /\ ThreadInv /\ GoodDispatch(dispatch)
    BY DEF IInv, DispatchInv
  <1>2. TypeOK
    BY <1>1, DispatchTypes DEF TypeOK, QueueInv, ThreadInv, OwnRegistration
  <1>3. OncePerVsync
    BY <1>1 DEF OncePerVsync, GoodDispatch, GoodEntry
  <1>4. \A name, token, old :
          OwnRegistration(name, token, old) /\ OnItsWay(name, token, old) =>
            Coming(name) \/ old.pc = "reschedule"
    BY DEF OwnRegistration, OnItsWay, Coming, Invoked, Awaits
  <1>5. NoRequestSleeps
    BY <1>1, <1>4 DEF NoRequestSleeps, ThreadInv
  <1>6. ScheduledFrameComes
    BY <1>1, <1>4 DEF ScheduledFrameComes, QueueInv
  <1>7. NoVsyncSkipped
    BY <1>1 DEF NoVsyncSkipped, GoodDispatch, GoodEntry
  <1>8. QED
    BY <1>2, <1>3, <1>5, <1>6, <1>7

\* A covered wakeup comes in time.
LEMMA CoverImplies ==
  ASSUME IInv, CoverInv, TimesRepresentable
  PROVE  WakeupsCovered /\ WakeupsInTime
  BY CoveredInTime DEF IInv, DispatchInv, CoverInv

\* The invariant holds in every reachable state.
LEMMA Invariant == Spec => []IInv
  <1>1. Init => IInv
    BY InvariantInit
  <1>2. IInv /\ [Next]_vars => IInv'
    BY InvariantNext
  <1>3. QED
    BY <1>1, <1>2, PTL DEF Spec

\* The types of the dispatch, of the MessageQueue and of the EventThread, for any number of
\* connections, tokens and durations: the registrations both clients hold are registered
\* (onNewVsyncSchedule), and at most one message is sent for a frame (dispatchFrame).
THEOREM SchedulingTypes == Spec => []TypeOK
  <1>1. IInv => TypeOK
    BY InvariantImplies
  <1>2. QED
    BY <1>1, Invariant, PTL

\* A callback is dispatched once per vsync, whatever the period, the slack and the distance
\* of two vsyncs, and however the tracker changes its predictions (adjustVsyncIfNeeded,
\* with or without dont_skip_on_early).
THEOREM DispatchedOncePerVsync == Spec => []OncePerVsync
  <1>1. IInv => OncePerVsync
    BY InvariantImplies
  <1>2. QED
    BY <1>1, Invariant, PTL

\* A callback waits for no vsync later than its timing and its last dispatch make it,
\* whatever the period and however the tracker changes its predictions, unless
\* dont_skip_on_early is set (adjustVsyncIfNeeded, schedule, update).
THEOREM VsyncsAreNotSkipped == Spec => []NoVsyncSkipped
  <1>1. IInv => NoVsyncSkipped
    BY InvariantImplies
  <1>2. QED
    BY <1>1, Invariant, PTL

\* The event thread never waits with a request it has to serve, for any number of
\* connections (threadMain, requestNextVsync, onNewVsyncScheduleInternal).
THEOREM RequestsDoNotSleep == Spec => []NoRequestSleeps
  <1>1. IInv => NoRequestSleeps
    BY InvariantImplies
  <1>2. QED
    BY <1>1, Invariant, PTL

\* getScheduledFrameTime tells the truth, also while onNewVsyncSchedule exchanges the
\* registrations (MessageQueue::scheduleFrame, setDuration, vsyncCallback).
THEOREM ScheduledFramesCome == Spec => []ScheduledFrameComes
  <1>1. IInv => ScheduledFrameComes
    BY InvariantImplies
  <1>2. QED
    BY <1>1, Invariant, PTL

\* Every wakeup stays covered while the times can be represented.
LEMMA CoverInvariant == Spec /\ []TimesRepresentable => []CoverInv
  <1>1. Init => CoverInv
    BY InvariantInit
  <1>2. IInv /\ CoverInv /\ TimesRepresentable /\ [Next]_vars => CoverInv'
    BY CoverNext
  <1>3. QED
    BY <1>1, <1>2, Invariant, PTL DEF Spec

\* No wakeup is forgotten while the times are nsecs_t values: the timer is intended for
\* every armed callback, and set or about to run its thread (schedule, cancel,
\* rearmTimerSkippingUpdateFor, timerCallback).
THEOREM TimerCoversWakeups == Spec /\ []TimesRepresentable => []WakeupsCovered
  <1>1. IInv /\ CoverInv /\ TimesRepresentable => WakeupsCovered
    BY CoverImplies
  <1>2. QED
    BY <1>1, Invariant, CoverInvariant, PTL

\* No armed callback is later than the timer thread and the slack make it, while the times
\* are nsecs_t values (scheduleLocked, rearmTimerSkippingUpdateFor, timerCallback).
THEOREM WakeupsAreInTime == Spec /\ []TimesRepresentable => []WakeupsInTime
  <1>1. IInv /\ CoverInv /\ TimesRepresentable => WakeupsInTime
    BY CoverImplies
  <1>2. QED
    BY <1>1, Invariant, CoverInvariant, PTL
=============================================================================
