# Verification of frameworks/native: the path of a frame

TLA+ models of the concurrent core of this repository, the TLC instances that
check them and the TLAPS proofs about them. They follow a frame to the screen:

1. *BufferQueue* (`libs/gui`): producer threads and a consumer pass graphic
   buffers to each other;
2. *frame delivery*: a `BLASTBufferQueue` turns buffers into transactions, alone
   or for a sync with other windows; SurfaceFlinger queues, flushes, applies and
   latches them and reports back which buffers are free;
3. *frame scheduling*: the vsync dispatch that wakes SurfaceFlinger's main thread
   and, through an `EventThread`, the applications.

Contents: [inventory](#inventory-of-the-system), [plan](#plan),
[the BufferQueue model](#the-bufferqueue-model),
[the frame delivery model](#the-frame-delivery-model),
[the frame scheduling model](#the-frame-scheduling-model), [runs](#runs),
[findings](#findings), [proofs](#proofs),
[what is not modelled](#what-is-not-modelled).

## Inventory of the system

The repository is a collection of native libraries and daemons. `PROJECT.json`
lists every part with its sources; this is what each of them has for a model.

| part | state | operations | interacts with | what is hard | properties wanted |
|---|---|---|---|---|---|
| **BufferQueueCore, Producer, Consumer** (`libs/gui`) | 64 slots with three ownership counts, four slot lists, FIFO of frames, limits and modes, condition variables, callback tickets | dequeue, request, queue, cancel, attach, detach, acquire, release, connect, disconnect, allocateBuffers, setters | producer threads, consumer thread, allocator, binder death | the lock is dropped in the middle of handlers; disconnecting and abandonment during waits; slot numbers reused; shared buffer mode | partition of the slots, frames in order, a slot for who must not block, no lost wake-up, refinement of a frame stream |
| Surface, ConsumerBase (`libs/gui`) | mirrors of the slot table | the same calls from the other side | BufferQueue | the mirrors are kept right by flags (`BUFFER_NEEDS_REALLOCATION`, `RELEASE_ALL_BUFFERS`, `mAcquireCalled`) | a mirror is never stale when it is used |
| **BLASTBufferQueue**, listener of SurfaceComposerClient | submitted frames, pending releases, sync transactions | acquire next buffer, transaction callbacks, release callbacks | BufferQueue, SurfaceComposerClient | callbacks of three threads, late and duplicated releases | count of acquired buffers, no buffer released in use, all frames delivered |
| **TransactionHandler, commit, layer buffers** (SurfaceFlinger) | pending transactions per apply token, barriers | queue, flush, apply filters | SurfaceFlinger main thread, binder threads | barriers across tokens, unsignalled buffers | frames of a layer in order across tokens, unsignalled buffers alone, nothing starves |
| **VSyncDispatchTimerQueue, Timer** | registered callbacks, armed and running state, timer | register, schedule, cancel, unregister, timer fires | scheduler threads, timer thread | callbacks run without the lock | no callback forgotten, once per vsync |
| **EventThread, MessageQueue** | connections, pending events, vsync requests | request, dispatch, hotplug | dispatcher, clients' sockets | sleeping and notifying across three mutexes; exchanged registrations | requests answered, scheduled frames come |
| RpcState, RpcSession (`libs/binder`) | binder nodes with timesSent and timesRecd, async queues | send, receive, DEC_STRONG | the peer process | reference counts with messages in flight | no node freed while a reference is in flight |
| IPCThreadState, ProcessState, BpBinder | reference counts, obituaries | transact, death | the kernel driver (not here) | | |
| servicemanager, LazyServiceRegistrar | registrations, client callbacks | add, get, died, tryUnregister | services, clients | unregistering races with a new client | no service is unregistered while it has a client |
| InputDispatcher, InputReader, InputTransport | inbound, outbound and wait queues, focus, ANR timers | dispatch, finish, time out | windows, policy | timeouts racing late answers | every event finished or cancelled once |
| sensorservice | connections, wake-up acknowledgement counts | send, ack, die | HAL, clients | lost acknowledgements | wake lock released |
| the rest of SurfaceFlinger's main loop, CompositionEngine, RenderEngine | display configuration | composite | HWC, GPU | hardware | |
| FrameTimeline, TimeStats | histories | | | statistics | |
| layers front end (LayerLifecycleManager, LayerHierarchy) | layer graph, reference counts | create, destroy, reparent | TransactionHandler | cycles | a layer lives while it is referenced |
| vr broadcast ring, pdx | lock-free ring | put, get | processes | memory order | a reader sees whole records |
| StreamSplitter, GLConsumer, Vulkan swapchain | users of BufferQueue | | BufferQueue | | |
| installd, dumpstate, dumpsys, HAL services, EGL and Vulkan loaders, ui, math, ultrahdr | files, handles, values | | | input and output, numerics, generated code | |

## Plan

1. **Done:** `BufferQueueCore`, `BufferQueueProducer`, `BufferQueueConsumer`,
   composed in `BufferQueue`; the abstract `FrameStream` it implements; type
   correctness and the slot invariant proved.
2. **Done:** `TransactionReadiness`, `TransactionHandler`, `SurfaceFlinger` and
   `BLASTBufferQueue`, composed in `FrameDelivery`.
3. **Done:** `VSyncDispatchTimerQueue`, `MessageQueue` and `EventThread`,
   composed in `FrameScheduling`.
4. **Done:** the safety invariants of frame scheduling proved for every period,
   slack, duration and number of connections; frame order, buffers, lists, queue
   and the refinement of `FrameStream` proved for the BufferQueue; the safety
   invariants of frame delivery proved, from the producer to the layer and back.
5. **Done:** the limits of the BufferQueue, the free slot of the modes that must
   not block, and the wake-ups proved. Left: `SlotInvariant` up to the moment of
   abandonment, and shared buffer mode.
6. Surface and ConsumerBase with their mirrors of the slot table; reference
   counts of RpcState; servicemanager; one connection of the InputDispatcher.
   These would be models of their own, next to the path of a frame.

## The BufferQueue model

| module | models |
|---|---|
| `BufferQueueCore` | `BufferSlot.h`, `BufferQueueCore.h`, `BufferQueueCore.cpp`: the state and the operations shared by both interfaces |
| `BufferQueueProducer` | the handlers of `BufferQueueProducer.cpp` |
| `BufferQueueConsumer` | the handlers of `BufferQueueConsumer.cpp` |
| `BufferQueue` | constructor, next-state relation, fairness, properties |
| `FrameStream` | abstract: what the queue promises its two users |
| `MCBufferQueue` | configurations for TLC |
| `BufferQueueTypes`, `BufferQueueProofs` | theorems about types, limits and slots; every step has one of the effects |
| `BufferQueueSteps` | what the handlers do to slots, frames and buffers, reduced to sixteen effects; the invariants shown for them |
| `BufferQueueFrames`, `BufferQueueRefinement` | every effect keeps the invariants of frames, buffers and lists and is a step of `FrameStream`; the theorems, and what rests on numbers of slots |

**State.** `mSlots` maps a slot to its buffer, the counts `deq`, `que` and `acq`
of `BufferState`, and the flags of `BufferSlot`. The four lists, `mQueue`,
`mSharedBufferSlot`, `mIsAllocating` and the others have the names of the
members they stand for; `cfg` collects limits and modes. `call[t]` says where
producer thread `t` is while it is inside a handler, `parked` which threads
sleep in `mDequeueCondition`, `consumer` and `held` what the consumer thread is
doing and has acquired, `obituary` a death notification on its way.

**Steps.** Every handler takes `mMutex`, so a critical section is one step.
Where a handler lets go of the lock it becomes several: `dequeueBuffer`
(connection check; wait for an allocation; search; wait for a slot; allocation
without the lock), `attachBuffer`, `detachNextBuffer`, `allocateBuffers` and
`queueBuffer` (the callback after the lock, in ticket order). Two loops keep the
lock between two steps (`dequeueLoop`, and `acquireBuffer` while it drops
frames); `Unlocked` keeps everybody else out. `binderDied` reads
`mConnectedApi` without the lock and is two steps.

**Undefined behaviour.** A shared slot that is still being allocated is
dereferenced by a second `dequeueBuffer`, and `acquireBuffer` may index
`mSlots` with -1 after its wait. Both are steps to `undefined`, where the thread
stays.

**Abstractions.** Sizes, formats, usage bits, crops, transforms, timestamps,
fences, damage regions and generation numbers are left out, and the decisions
the code derives from them (does a buffer fit, is the next frame timely, is the
crop refused, does the allocation fail) are free choices, switched on by names
in `Calls`. `mUnusedSlots` has no
order (unused slots are all alike), and a callback ticket is the frame number
minus one, since both are counted up in the same critical section. The upper
bound of `setMaxAcquiredBufferCount` (`MAX_MAX_ACQUIRED_BUFFERS`) is above every
limit in `Limits`. Clients are well behaved: they pass slots they own and release
what they acquired, once. A call that fails without changing anything is not a
step. A buffer identity may be used again once nobody refers to it.

**FrameStream** forgets slots and threads: a buffer is being written, or is in
the pending queue, or is being read; frames are taken in order. `BufferQueue`
maps to it with the buffers the producer owns, the frames of `mQueue` and the
contents of `held`.

## The frame delivery model

| module | models |
|---|---|
| `TransactionReadiness` | `SurfaceFlinger.cpp`: the filters that find a transaction ready |
| `TransactionHandler` | `FrontEnd/TransactionHandler.cpp`: the lock-free queue, one FIFO per apply token, the flush |
| `SurfaceFlinger` | `setTransactionState`, `commit` to the end of `composite` for buffer updates (`SurfaceFlinger.cpp`), `setBuffer` and latching (`Layer.cpp`), callbacks (`TransactionCallbackInvoker.cpp`, `BackgroundExecutor.cpp`) |
| `BLASTBufferQueue` | `BLASTBufferQueue.cpp`, and of `SurfaceComposerClient.cpp` what it uses: the callbacks of the listener, `merge`, `getAndClearBuffer`, `ReleaseCallbackThread` |
| `FrameDelivery` | composition, fairness, properties |
| `Lists` | loops over a list, orders of an unordered container |
| `MCFrameDelivery` | layers, late and timed buffers for TLC |
| `FrameDeliveryInvariants` | the inductive invariant |
| `FrameDeliveryClient`, `FrameDeliverySteps`, `FrameDeliveryProofs` | the client's operators keep it; the client's steps and the flush do; those of SurfaceFlinger do, and the theorems |

**State.** `bbq` is what `mMutex` of the BLASTBufferQueue guards, with the names
of the members; `producer` says where in `queueBuffer` and `onFrameAvailable` the
producer's thread is. `held` are the transactions a sync consumer was handed. In
SurfaceFlinger, `mTransactionFlags` and `commitScheduled` are the flag and the
commit asked for, `settingFlags` the binder threads between queueing and setting
the flag, `mainThread` where the main thread is in `commit`, `layers` the buffers
of each layer with their callback handles. `background` and `inbox` are the
callbacks that `BackgroundExecutor` has to send and those on their way to the
client.

**Steps.** Everything under the BLASTBufferQueue's mutex is one step, with
`onFrameAvailable` cut where it waits on `mCallbackCV`. `setTransactionState` is
two steps (queue, set the flag), a commit four (take it up, clear the flag, flush
and latch, finish), since binder threads may come between them. `SkipCommit` is
its early returns, for a mode set or a frame still on its way to the display: it
asks for another commit and leaves the flag alone. What the main
thread calls directly (the release of a buffer that was never latched) and what
goes through `BackgroundExecutor` reach the client in either order. The flush
(`flushTransactions`) is a fold over the queues in every order that an unordered
map can yield, repeated as the code repeats it.

**Abstractions.** A buffer is its frame number. A transaction sets the buffer of
one layer and carries a barrier and counts of callbacks. Fences and desired
present times are two sets of buffers that are not ready yet. The producer of
the layer is an EGL client, whose released buffers may be held back; the
BufferQueue below is its FIFO and its number of slots. The sync consumer is
external: it merges and applies what it was handed, in order, once. When it
merges, the present time goes with the newer buffer, while `merge` leaves
`mDesiredPresentTime` as it was; whether a frame is timed decides only when it is
ready. The branch of the readiness filter for buffers of an older producer
(another producer id) is out, since a layer has one producer here.

**Ways off the path.** `spinning` and `crashed` are states of the producer, in
which `onFrameAvailable` loops with the mutex held or uses a sync transaction
that was cleared while it waited. `Stuck` names them together with the other
states that the code cannot leave; `EverythingDelivered` says what holds
everywhere else.

## The frame scheduling model

| module | models |
|---|---|
| `VSyncDispatchTimerQueue` | `Scheduler/VSyncDispatchTimerQueue.cpp` and the thread of `Scheduler/src/Timer.cpp` |
| `MessageQueue` | `Scheduler/MessageQueue.cpp` |
| `EventThread` | `Scheduler/EventThread.cpp` |
| `FrameScheduling` | composition, `Scheduler::applyNewVsyncSchedule`, fairness, properties |
| `MCFrameScheduling` | durations for TLC |
| `FrameSchedulingProofs` | lemmas about the dispatch; theorems |

**State.** `dispatch` is the callback map with `mIntendedWakeupTime` and the timer
that is set; `timer` is where the timer thread is and which callbacks it has
collected; `mRunning` whose callback runs. `mVsync`, `mHandler` and
`oldRegistration` belong to the MessageQueue; `thread`, `mState`, `mVSyncState`,
`mPendingEvents`, `vsyncRequest` and `exchange` to the EventThread.
`frameRequested` and `unanswered` remember what was asked for, `frameDropped` and
`vsyncDropped` what an exchange of registrations dropped.

**Time.** All times are relative to now, and `Tick` subtracts one from each of
them. So there is no clock to bound, and liveness is checked over unbounded
time. The tracker is a grid of vsyncs `Period` apart whose phase may change
(`Resync`); the regression behind it is out.

**Steps.** An operation of the dispatch holds its mutex and is one step. The
timer thread takes four: the alarm expires, the callback is read (unless the
alarm was cancelled meanwhile), `timerCallback` collects what is due and rearms,
each collected callback begins and then waits for the mutex of its client. When
`epoll_wait` fails, `reset` gives up the alarm and runs the callback that was
expected at once.
`onNewVsyncSchedule` cancels, registers, unregisters and waits for a running
callback in steps of their own, the first two with the mutex of its client held.
`Scheduler::applyNewVsyncSchedule` calls the one of the MessageQueue, then the
one of the EventThread. A round of `threadMain` is one step, since it keeps its
mutex from event to event; which connections a vsync is throttled for is a choice
(`ThrottledRound`).

## Runs

All bounds are constants. In the BufferQueue runs `MaxFrames`, `MaxConnects` and
`MaxCount` bound counters that are unbounded in the code; two or three frames
are enough for a frame to be queued, replaced or dropped while an older one is
held, two connects for slot numbers to be reused while frames of the first
connection are still queued or held, and two owners of a kind for the counts of
a shared slot. Three slots hold one frame each for producer, queue and consumer,
four leave one free. Buffers are one more than slots where buffers outlive their
slots. Buffers are symmetric in the runs without liveness. Deadlock is not
checked: with the bounds reached, or after the queue was abandoned, the system
stops.

| run | instance | shows |
|---|---|---|
| `lifecycle` | 3 slots, 4 buffers, 3 frames, 2 connections; a consumer that may block, an asynchronous one and one controlled by the application; both sides disconnect at any point, reallocation, dropping | `TypeOK`; `ListsMatchSlotStates` (the checks of `validateConsistencyLocked`); `ConsumerBufferIsAcquired` (a buffer the consumer reads is in no slot that may be handed out, despite slot reuse); `AsyncHasFreeSlot` (where `dequeueBuffer` must not block, the extra buffer of the limits suffices); `ImplementsFrameStream` |
| `attach` | 4 slots, two dequeued at a time; buffers attached by the consumer and detached by both sides, switch to asynchronous mode while frames are queued, extra acquire, dropping, discarding | `SlotInvariant` (the inductive invariant), `QueueMatchesSlots`, `FramesInOrder`, `AsyncHasFreeSlot` |
| `limits` | limits and modes change while buffers are in flight, in and out of shared buffer mode, with crops refused after the slot was marked shared | `AllocatedSlotsMatchLimit`, `SharedSlotStaysActive`, `ListsMatchSlotStates` |
| `shared` | shared buffer mode with auto refresh, a dying producer, reconnection | `ListsPartitionSlots`, `SharedSlotStaysActive` |
| `threads` | two producer threads that dequeue, attach, detach, preallocate and queue, under fairness | `NoLostWakeup`, `WaitingThreadReturns`, `QueueBufferReturns` |
| `frames` | 5 frames, three acquired at most, five slots; two calls of the sync owner or one transaction of another client; one late fence on each layer, one present time, one buffer of a wrong size, commits skipped at will; under fairness | `TypeOK` (with the two counters of the BLASTBufferQueue), `ReleasedNotInUse`, `LayerFramesInOrder`, `SyncedFramesOut`, `PendingHasCommit`, `InductiveInvariant` (of the proofs), `UnsignaledAlone`, `EverythingDelivered` |
| `scheduling` | two clients of the dispatch and a new registration for each, period 4, slack 1, two durations for each client, three calls from outside or failures of the timer, one connection; under fairness | `TypeOK`, `WakeupsCovered`, `WakeupsInTime` (no callback is later than the timer thread and the slack), `OncePerVsync`, `NoVsyncSkipped` (no callback is armed for a later vsync than necessary), `NoRequestSleeps`, `ScheduledFrameComes`, `FrameRequestServed`, `ExchangeEnds` (destroying a registration waits for its callback and does not deadlock with it), `RequestAnswered` |
| `allocation_failure`, `clipped_limits`, `overlapping_allocation`, `merged_sync`, `display_unplugged` | | the findings below |

Every property has a mutant in `PROJECT.json`: a change of the model that a
plausible bug would make and under which TLC finds the property violated.

*Bounds of `frames`.* With `mMaxAcquiredBuffers` 1 the queue may acquire three
buffers, so five frames reach every place where the producer waits, a frame
dropped between two syncs, and a release that comes before and after a stale one.
Two calls are two syncs, or a sync and its clear or merge. The other client's
transaction takes the place of the syncs: it meets own frames, which is
what `UnsignaledAlone` is about. Buffers held back (`mMaxAcquiredBuffers` above
the reported maximum) are in `merged_sync`; with `mMaxAcquiredBuffers` 2 and six
frames the same properties hold, in a state space four times as large.

*What `AsyncHasFreeSlot` asks.* Nothing while the consumer has more buffers than
`mMaxAcquiredBufferCount`, or while frames are queued that were queued before
`setAsyncMode(true)`: those are not droppable, and `dequeueBuffer` answers
`WOULD_BLOCK` until the consumer has taken them. Otherwise a producer below its
limit finds a slot. In `attach` this needs that a frame replaces the droppable
one before it, in `lifecycle` that `connect` and the asynchronous mode add their
slot.

*Bounds of `scheduling`.* A call is any call from outside, a stall of a second,
a throttled vsync, a failure of the timer or a change of prediction. Three
suffice to schedule a frame, change its duration or the prediction, and replace
the registration, at every moment of a period and with the timer thread late by
`MaxLate` at every place. A period of 4 leaves room for two different work
durations, the slack and a vsync too close to the last. The clock is not
bounded; `kInvalidTime`, the largest `nsecs_t`, is 1000, above all wakeups of
the instance. The same properties hold with two connections, in a state space
more than twice as large. The run may stop only where `onVsync` aborts (finding
5).

**Fairness** (`frames`): the main thread runs and does not skip every commit (a
mode set ends, and so does the presentation of a frame, which the display and
the GPU see to); weak fairness of everything else that goes on by itself taken
together: threads that run, calls that are delivered, fences that signal, time
that passes, a sync consumer that applies what it was handed. `FairSpec` writes
the conditions under which these can step out, instead of `ENABLED` of the
actions, which is faster to evaluate. Nothing makes a producer draw or an owner
start or stop a sync.

**Fairness** (`scheduling`): time passes; the main thread, the event thread and
the thread in `onNewVsyncSchedule` run when they can; the timer thread, which
waits for mutexes others take again and again, gets them (strong fairness).
Nothing is assumed about other callers. The one-second timeout of the event
thread is assumed to come only where nothing else will: when the exchange of the
registration dropped the vsync it waits for (`vsyncDropped`). That is how
`RequestAnswered` holds there, a second late. The conditions are written out as
in `frames`. `FrameRequestServed` and `ScheduledFrameComes` leave out one case
by name, `frameDropped`: `onNewVsyncScheduleLocked` takes a frame whose timing
is a pending update for one that was dispatched, and drops it.

**Fairness** (`threads`): weak fairness of each thread that is inside a handler
(the scheduler runs it, an allocation ends, a notified waiter gets the lock); of
acquiring (`onFrameAvailable` makes the consumer acquire what is queued); and of
releasing while more than `mMaxAcquiredBufferCount` buffers are acquired, which
a consumer must do before it can acquire again. Nothing is assumed about calls
the producer has not made. `WaitingThreadReturns` is about waiters after the
first queued frame: before it the code lets a producer dequeue every buffer, and
then it waits for itself.

## Findings

1. `allocation_failure`: when the allocation of `dequeueBuffer` fails, the slot
   is inserted into `mFreeSlots` and never erased from `mActiveBuffers`, a state
   `validateConsistencyLocked` calls an error.
2. `clipped_limits`: `setMaxDequeuedBufferCount` adjusts the slots by the
   difference of the limits, while the buffer count is clipped at
   `mMaxBufferCount`; lowering a clipped limit loses a slot.
3. `overlapping_allocation`: a waiter that wakes up during an allocation starts
   a second one, and the first to end clears `mIsAllocating`, so the flag does
   not say what `BufferQueueCore.h` says it does.

4. `merged_sync`: when a sync consumer merges two sync transactions, the buffer
   of the first is dropped and released. If the release is held back for an EGL
   client, its number stays in `mSyncedFrameNumbers` although no transaction has
   the buffer any more, and no further frame is acquired until another sync.
5. `display_unplugged`: a vsync callback that the timer thread has collected runs
   `EventThread::onVsync` after `threadMain` has handled the disconnection of the
   display, against `LOG_FATAL_IF(!mVSyncState)`.

The hazards in `PROJECT.json` without a property name more places where
the code does less than one might expect (frame number 0 of attached buffers,
detaching after shared mode, wake-ups that are not broadcast, events lost on a
full pipe), and two notes do so (`binderDied` closing a newer connection, the
states `Stuck` names). They are described there and left out of the
instances, or excluded by name from the properties, that they would break.

## Proofs

`BufferQueueTypes` proves `TypeCorrect == Spec => []TypeOK` for every value of
the constants that satisfies `CoreAssumption` and `ConfigsAssumption`, with all
calls enabled. `TypeOK` is inductive as it stands; the point of interest is that
a thread that returns from an allocation has a slot. It also proves
`AllocationsAnnounced` and `LimitsStayFit`, which are used below.

`BufferQueueProofs` proves, for `PlainUse`,

- `SlotsCorrect == Spec => []SlotInvariant`,
- `ListsCorrect == Spec => []ListsPartitionSlots`,

for any number of slots, buffers, threads and frames. `PlainUse` says that
shared buffer mode is not used, that no allocation fails and that the consumer
does not disconnect. None of the three conditions can be dropped without
changing the statement: in shared buffer mode a slot has several owners, a
failed allocation is finding 1, and when the consumer disconnects during an
allocation the same code path runs on an abandoned queue, whose slots may
meanwhile have been handed on by `setMaxBufferCount` or `allocateBuffers`.

*Argument.* That the lists partition the slots is not inductive: `GiveBack`
appends a slot to `mFreeBuffers` without looking whether it is active. So
`SlotInvariant` adds who may call it. `ActiveHasOneOwner`: a slot is active
exactly while the sum of its counts is one, so a slot that its owner gives back
is active and free afterwards. `FramesClaimSlots`: frames that are not stale
stand for different slots that the queue owns, so the slot of a replaced or
dropped frame is active, is not the slot being queued, and no other frame stands
for it. `NothingShared` keeps the shared-mode branches out. The lemmas come in
four layers: sequences without duplicates; moves between the lists
(`TakeSlot`, `ReturnSlot`, `AdjustSlots`, ...); owners and claims
(`OwnerMoves`, `ClaimsOfTail`, `ClaimsOfAppend`, `ClaimsOfReplace`); and one
lemma per action, named after it and ending in `Keeps`. `SlotInvariant` itself
is checked by TLC in the run `attach`.

`BufferQueueRefinement` proves, also for `PlainUse` and any number of slots,
buffers, threads and frames,

- `FramesCorrect == Spec => []FramesInOrder`,
- `ConsumerBuffersCorrect == Spec => []ConsumerBufferIsAcquired`,
- `ListStatesCorrect == Spec /\ []AllocationIsAnnounced =>
  []ListsMatchSlotStates`,
- `QueueMatchesSlotsCorrect == Spec /\ []AllocationIsAnnounced =>
  []QueueMatchesSlots`,
- `StreamImplemented == Spec /\ []AllocationIsAnnounced =>
  ImplementsFrameStream`,
- `OneThreadCorrect` and `OneThreadStream`: the last three without the condition
  where the producer has one thread,
- `AllocatedSlotsCorrect == Spec /\ []LimitsFit => []AllocatedSlotsMatchLimit`,
- `AsyncCorrect == Spec /\ []LimitsFit => []AsyncHasFreeSlot`,
- `LimitsStayFit == Spec => []LimitsFit`, for `UnclippedUse` (in
  `BufferQueueTypes`),
- `NoWakeupIsLost == Spec => []NoLostWakeup`, for `WakingUse`.

*Argument.* The handlers differ in limits, waits, modes and callbacks, and these
invariants see none of that. `BufferQueueSteps` names the sixteen things a step
can do to slots, queue and held buffers (`Takes`, `Queues`, `Drops`, `Releases`,
`Disconnects`, ...); `EveryStep` in `BufferQueueProofs` shows that every
action is one of them, and `BufferQueueFrames` shows each invariant for sixteen
effects instead of some forty actions. The invariants:

- `FrameInvariant`: frame numbers in the queue rise, are above those handed out,
  and no two held frames are the same.
- `BufferInvariant`: a buffer is in one slot, in one queued frame, in the queue
  or with the consumer; where it is in a slot as well, that is the slot its
  frame stands for, with the frame number of that slot. This is what makes a
  late `releaseBuffer` safe: `ConsumerBufferIsAcquired` alone is not inductive,
  since slot numbers are used again after a disconnect, and what tells the old
  use of a slot from the new one is the frame number.
- `QueuedHaveFrames`: a slot the queue owns has a frame that stands for it.
- `AllocationInvariant`: a slot in `mFreeBuffers` has a buffer, an empty one has
  none, and an active one has a buffer or exactly one thread that allocates it.

The last one holds only while allocations are announced: `freeAllBuffersLocked`
waits for `mIsAllocating`, and if the flag is clear while a thread allocates,
the slot can be freed under the thread, which then puts a buffer into a free
slot. Finding 3 is that two threads can bring this about, so the condition is a
hypothesis here; with one thread `AllocationsAnnounced` (in `BufferQueueTypes`,
for all modes and calls) discharges it. `FramesCorrect` and
`ConsumerBuffersCorrect` do not need it. The refinement is proved for the
mapping that TLC checks in `lifecycle`: an effect is one step of `FrameStream`,
or leaves its variables as they are. It leaves out the attaching of buffers by
the consumer, whose buffers have frame number 0, all the same one, which
`FrameStream` has no place for.

*Limits and waits.* `LimitsFit` says that the limits with the extra buffer are
within `mMaxBufferCount`, so that nothing is clipped; finding 2 is what happens
otherwise. The setters refuse what does not fit, hence `LimitsStayFit` where
nobody lowers `mMaxBufferCount` and the consumer is not controlled by the
application, for which `connect` adds a slot unchecked (`UnclippedUse`). Then
every handler moves as many slots in or out of `mUnusedSlots` as the buffer
count changes, which `AdjustCounts` shows for `adjustAvailableSlotsLocked`. For
`AsyncHasFreeSlot` the active slots are counted by owner (`ActiveCount`):
producer, consumer, and one for the queue, since only its last frame can be
droppable (`DroppableIsLast`, the strengthening: the next frame replaces it).
For `NoLostWakeup` the invariant `WaitersAreStuck` says that while a thread
sleeps the search would still find nothing; every step that ends this
broadcasts. `WakingUse` leaves out the calls that change it and notify nobody
(`setMaxAcquiredBufferCount`, `allowAllocation`, and the extra buffer, with
which `acquireBuffer` returns after it has dropped frames).

`FrameSchedulingProofs` proves, for any period, slack, minimal distance,
durations, number of connections and tokens, with and without
`dont_skip_on_early`,

- `SchedulingTypes == Spec => []TypeOK`,
- `DispatchedOncePerVsync == Spec => []OncePerVsync`,
- `VsyncsAreNotSkipped == Spec => []NoVsyncSkipped`,
- `RequestsDoNotSleep == Spec => []NoRequestSleeps`,
- `ScheduledFramesCome == Spec => []ScheduledFrameComes`,
- `TimerCoversWakeups == Spec /\ []TimesRepresentable => []WakeupsCovered`,
- `WakeupsAreInTime == Spec /\ []TimesRepresentable => []WakeupsInTime`.

*Argument.* There is a lemma for each operation of the dispatch: it keeps
`GoodDispatch` (types, and an armed entry beyond its last dispatch and not more
than a period beyond what its timing asks for), and it still serves whom it
served. On top of it `IInv` says of each client that its registration is its
own, that the one it destroys is another (`OwnRegistration`), and that an
awaited callback comes by the registration the client has now, or the exchange
is at the step that schedules it again (`OnItsWay`); `NoRequestSleeps` and
`ScheduledFrameComes` allow any registration of the client, which a cancelled
one would not keep. `CoverInv` ties the intended wakeup to every armed entry and
the alarm to the intended wakeup. `TimesRepresentable` is a hypothesis because
`kInvalidTime` is a time like any other, the largest one, and the comparison
with it decides whether the timer is set. No constant bounds the wakeups: when
an alarm that was cancelled has expired already, a callback is dispatched early,
the next vsync is computed from that, and a changed prediction lets this happen
again. In the code the largest `nsecs_t` is some 292 years away.

`FrameDeliveryProofs` proves, for any layers, limits, fences, present times and
numbers of frames and calls, with and without another client,

- `NoTransactionSleeps == Spec => []PendingHasCommit`,
- `DeliveryInvariantHolds == Spec => []InductiveInvariant`,
- `FramesInOrder == Spec => []LayerFramesInOrder`,
- `SyncsAreOut == Spec => []SyncedFramesOut`,
- `ReleasedBuffersAreFree == Spec => []ReleasedNotInUse`,
- `TypesAndCounters == Spec => []TypeOK`,
- `UnsignaledIsAlone == Spec => UnsignaledAlone`.

*Argument for `NoTransactionSleeps`.* `PendingHasCommit` is not
inductive: `setTransactionFlags` schedules a commit only when the flag was clear,
so a thread that finds it set relies on whoever set it. `FlagHasCommit` adds
that: a flag that is set has a commit to come that has not cleared it yet. The
flush stays opaque here, since whatever it leaves behind is looked at by the end
of the same commit.

*Argument for the others.* None of the four is inductive, and they need each
other: a frame arrives in order because no newer one was sent while it was on its
way, none was sent because its number is in `mSyncedFrameNumbers` or behind a
barrier, and the number stays there until the frame is committed, which is known
from callbacks that must not come too early. `InductiveInvariant` (in
`FrameDeliveryInvariants`, checked by TLC in `frames`) says where frames are:

- `Fifo`, `Counted`: the FIFO is the last frames queued, the frames acquired
  are below it, and the counters count them; `mNumAcquired` stays within two of
  the maximum.
- `Used`: what the layer has and the frames under way (sent, in a sync
  transaction, held by the sync consumer, queued in SurfaceFlinger) are acquired,
  and those under way are newer than the layer's.
- `Barred`: a sync frame under way is in `mSyncedFrameNumbers` and newer than
  every own frame under way, and its barrier is not below any of them. This is
  what keeps two tokens in order: an own frame after the sync frame is not
  acquired, one before it holds the sync frame back in the flush.
- `Sent`, `HeldOK`, `FifoOK`: in every list frames of one token are in order, and
  behind those further on the way.
- `Spare`: a buffer in `mPendingRelease` or with the release thread is not in use.
- `CallsOK`: the listener is only called about frames that the layer has or had,
  and about the release of older ones; `LayersOK`, `OtherOK`: between two commits
  every layer shows the newest frame given to it, and the other client's one
  transaction is sent, queued or applied.

What it says of the client is stated of a record `b` (`Client`, `Fits`), so that
there is one lemma for each operator of BLASTBufferQueue
(`acquireNextBufferLocked`, `releaseBuffer`, `transactionCallback`, ...) and a
handler is followed through the operators it calls. Loops (`flushShadowQueue`,
stale releases, the passes of the flush, sorting, applying) are `Fold` or
recursive functions over a range of numbers; `LoopStays` carries an invariant
through one, for every number of rounds. It is an instance of the least-number
principle, which the library proves without an operator as a parameter. The
flush is followed head by head (`FlushHeadKeeps`), for every order of the
unordered map and every number of passes: what it has chosen so far is in order
for each layer, and what is left comes after it. Then each chosen frame is newer
than the layer's and than any barrier already met, so `Layer::setBuffer` never
finds one out of order.

*Argument for `UnsignaledIsAlone`*, an action property of the commit. What the
passes of a flush take has signaled fences (`Flushes`, kept by every turn of the
loop), since the filter answers "ready" for nothing else.
`applyUnsignaledBufferTransaction` takes one more only when nothing was taken
before it (`Alone`). A layer gets a new frame only from a transaction that was
taken (`FlushAlone`), and no other step changes a layer's frame (`NoneUpdated`).

*Only model-checked*, on the instances above:

- liveness, under the fairness above;
- everything in shared buffer mode (`SharedSlotStaysActive`) and after the
  consumer has gone.

## What is not modelled

Of the BufferQueue: `query`, sideband streams, the setters of names, default
sizes, formats and usage bits, generation numbers, frame-event history,
`getReleasedBuffers` (step 2 of the plan, with the mirrors it serves), binder
transport of the interfaces (`IGraphicBufferProducer.cpp` and its siblings), and
the occupancy tracker. Spurious wake-ups of condition variables are not steps of
their own: every wait in the code is in a loop that tests its condition again.
The throttling fence wait at the end of `queueBuffer` and
the timestamps of `acquireBuffer` are data.

Of frame delivery: `mergeWithNextTransaction`, `applyPendingTransactions` and
`gatherPendingTransactions` (transactions without buffers ordered by frame
number), `update` with a new size, frame rates, timestamps and the destructor of
the BLASTBufferQueue; the table of stalled transactions and the destruction of
layers; all layer state other than buffers; parcelling, caching of buffers and
listeners for statistics; the legacy front end. The sync callback that
`onFrameAvailable` runs after it let go of its mutex is part of the step.

Of frame scheduling: `destroyVsync`, posted messages and configuration in the
MessageQueue, and the ids of vsyncs; rates above one, mode changes, connections
that are made (`registerDisplayEventConnection`) or destroyed while the event
thread runs, and the end of the EventThread; whether the pipe of a connection is
full, when `postEvent` answers `EAGAIN` and the event is gone (a request counts as
answered once it is posted); the numeric part of the VSyncPredictor, and of the
Scheduler that owns these parts all but `applyNewVsyncSchedule` and
`onFrameSignal`. A new schedule is given the same dispatch again.

The remaining parts of the repository are listed under `components` in
`PROJECT.json`, each with the reason. Most of them are input and output,
numerics, generated code or wrappers of the kernel and of hardware interfaces.
Of those with a protocol worth a model, Surface and ConsumerBase belong to the
path of a frame and mirror state of the BufferQueue; RpcState, servicemanager
and InputDispatcher share no state with it and would be developments of their
own.
