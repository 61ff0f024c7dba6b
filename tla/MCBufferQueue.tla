---------------------------- MODULE MCBufferQueue ----------------------------
(***************************************************************************)
(* Instances of BufferQueue for model checking.                            *)
(***************************************************************************)
EXTENDS BufferQueue, TLC

BufferSymmetry == Permutations(Buffers)

\* Two buffers may be dequeued, or one without blocking: in asynchronous mode
\* from the start, or because the consumer is in an app.
SyncOrNot ==
  {[DefaultConfig EXCEPT !.maxDequeued = 2], [DefaultConfig EXCEPT !.async = TRUE],
   [DefaultConfig EXCEPT !.consumerByApp = TRUE]}

\* As constructed, for a consumer in a system process or in an app.
AnyConsumer == {[DefaultConfig EXCEPT !.consumerByApp = byApp] : byApp \in BOOLEAN}

\* As constructed; with two buffers that may be dequeued.
Plain == {DefaultConfig}
TwoDequeued == {[DefaultConfig EXCEPT !.maxDequeued = 2]}

\* Shared buffer mode with auto refresh from the start.
SharedAutoRefresh == {[DefaultConfig EXCEPT !.sharedMode = TRUE, !.autoRefresh = TRUE]}

=============================================================================
