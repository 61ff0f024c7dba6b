----------------------------- MODULE FrameStream -----------------------------
(***************************************************************************)
(* What a BufferQueue outside shared buffer mode promises its two users,   *)
(* without slots, lists, limits and threads: a buffer is written by the    *)
(* producer, or waits in one queue, or is read by the consumer, never two  *)
(* of these, and frames are handed over in the order they were submitted.  *)
(***************************************************************************)
EXTENDS Naturals, Sequences

CONSTANT Buffers

VARIABLES
  writing,    \* buffers the producer may write to
  pending,    \* submitted frames that were not taken, oldest first
  reading,    \* frames the consumer has
  submitted   \* number of frames submitted so far

streamVars == <<writing, pending, reading, submitted>>

PendingBuffers == {pending[i].buf : i \in 1 .. Len(pending)}
ReadingBuffers == {f.buf : f \in reading}

StreamInit == writing = {} /\ pending = <<>> /\ reading = {} /\ submitted = 0

\* The producer gets a buffer that nobody uses (dequeueBuffer, attachBuffer).
Begin(b) ==
  /\ b \notin writing \cup PendingBuffers \cup ReadingBuffers
  /\ writing' = writing \cup {b}
  /\ UNCHANGED <<pending, reading, submitted>>

\* The producer gives a buffer up without submitting it.
Cancel(b) ==
  /\ b \in writing /\ writing' = writing \ {b}
  /\ UNCHANGED <<pending, reading, submitted>>

\* A buffer is submitted, behind the pending frames or in place of the last.
Submit(b) ==
  /\ b \in writing /\ writing' = writing \ {b}
  /\ submitted' = submitted + 1
  /\ LET f == [frame |-> submitted', buf |-> b]
     IN  \/ pending' = Append(pending, f)
         \/ pending # <<>> /\ pending' = [pending EXCEPT ![Len(pending)] = f]
  /\ UNCHANGED reading

\* The consumer takes the oldest pending frame, or lets it go.
Take ==
  /\ pending # <<>> /\ pending' = Tail(pending)
  /\ reading' = reading \cup {Head(pending)}
  /\ UNCHANGED <<writing, submitted>>

Skip ==
  /\ pending # <<>> /\ pending' = Tail(pending)
  /\ UNCHANGED <<writing, reading, submitted>>

GiveBackFrame(f) ==
  /\ f \in reading /\ reading' = reading \ {f}
  /\ UNCHANGED <<writing, pending, submitted>>

\* The producer disconnects; the consumer disconnects.
ProducerLeaves == writing' = {} /\ UNCHANGED <<pending, reading, submitted>>
ConsumerLeaves == writing' = {} /\ pending' = <<>> /\ UNCHANGED <<reading, submitted>>

StreamNext ==
  \/ \E b \in Buffers : Begin(b) \/ Cancel(b) \/ Submit(b)
  \/ Take \/ Skip \/ \E f \in reading : GiveBackFrame(f)
  \/ ProducerLeaves \/ ConsumerLeaves

StreamSpec == StreamInit /\ [][StreamNext]_streamVars

=============================================================================
