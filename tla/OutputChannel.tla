--------------------------- MODULE OutputChannel ---------------------------
(***************************************************************************)
(* The bounded output path of one PTY process                              *)
(* (crates/strukt-terminal/src/portable.rs).                               *)
(*                                                                         *)
(* A dedicated reader thread blocks in read() on the PTY master, reserves  *)
(* the bytes it read in a QueueBudget (a mutex, a condition variable and   *)
(* two atomic flags), and sends the chunk through a bounded sync_channel.  *)
(* The owner of the PortableProcess polls the channel without blocking,    *)
(* gives the bytes back, and eventually drops the process: Drop closes the *)
(* budget and kills the child, and the receiver goes with the last fields. *)
(*                                                                         *)
(* Every atomic access is a step of its own, because QueueBudget::close    *)
(* stores its flag and notifies WITHOUT taking the mutex that reserve()    *)
(* holds between its test and its wait.  A chunk's bytes are its size; its *)
(* content is its sequence number.                                         *)
(***************************************************************************)
EXTENDS Integers, Sequences, FiniteSets

CONSTANTS
    ChunkCap,   \* OUTPUT_QUEUE_CHUNKS, the capacity of the sync_channel
    ByteCap,    \* OUTPUT_QUEUE_BYTES, the most bytes the budget gives out
    Sizes,      \* the sizes one read() may return, at most OUTPUT_CHUNK_BYTES
    MaxChunks   \* bound: the child writes at most this many chunks

ASSUME ChannelAssumption ==
    /\ ChunkCap \in Nat \ {0}
    /\ ByteCap \in Nat \ {0}
    /\ Sizes \subseteq 1..ByteCap
    /\ MaxChunks \in Nat

VARIABLES
    reader,     \* where the reader thread is, see ReaderSteps
    size,       \* the bytes the reader has read and not yet sent
    sequence,   \* the next chunk's sequence number
    queue,      \* the sync_channel: chunks, and at most one end marker
    used,       \* QueueBudget.bytes
    lock,       \* who holds the mutex around it: "none" or "reader"
    blocked,    \* QueueBudget.blocked, what output_backpressured() reports
    closed,     \* QueueBudget.closed
    owner,      \* where the owner of the process is, see OwnerSteps
    releasing,  \* bytes try_recv took off the queue and release() has not returned
    child,      \* the child process: "alive" or "dead"
    delivered   \* history: how many chunks the owner has received

vars == <<reader, size, sequence, queue, used, lock, blocked, closed, owner,
          releasing, child, delivered>>

ReaderSteps ==
    {"read", "lock", "test", "park", "wait", "send", "ended", "done"}
OwnerSteps ==
    {"held", "release", "closing", "notifying", "killing", "dropping", "dropped"}

\* ReaderEvent: a chunk with its number and size, or one of the two end markers.
Chunk == [kind : {"Output"}, sequence : Nat, bytes : Sizes]
Markers == [kind : {"Closed", "Failure"}]

IsChunk(event) == event.kind = "Output"

\* The owner has not started to drop the process.
Held == owner \in {"held", "release"}

Init ==
    /\ reader = "read"
    /\ size = 0
    /\ sequence = 0
    /\ queue = <<>>
    /\ used = 0
    /\ lock = "none"
    /\ blocked = FALSE
    /\ closed = FALSE
    /\ owner = "held"
    /\ releasing = 0
    /\ child = "alive"
    /\ delivered = 0

-----------------------------------------------------------------------------
(* The reader thread, spawn_reader.                                         *)

\* reader.read() returns bytes.
ReadChunk ==
    /\ reader = "read"
    /\ sequence < MaxChunks
    /\ \E n \in Sizes : size' = n
    /\ reader' = "lock"
    /\ UNCHANGED <<sequence, queue, used, lock, blocked, closed, owner,
                   releasing, child, delivered>>

\* reader.read() returns 0 or an error: only once the child is gone, or when
\* the master fails, and the thread has one last event to send.
ReadEnds ==
    /\ reader = "read"
    /\ reader' = "ended"
    /\ UNCHANGED <<size, sequence, queue, used, lock, blocked, closed, owner,
                   releasing, child, delivered>>

\* reserve() takes the mutex, on entry and again after a wait.
TakeLock ==
    /\ reader = "lock"
    /\ lock = "none"
    /\ lock' = "reader"
    /\ reader' = "test"
    /\ UNCHANGED <<size, sequence, queue, used, blocked, closed, owner,
                   releasing, child, delivered>>

HasRoom == used + size <= ByteCap

\* No room and not closed: the loop body of reserve(), up to the wait.
TestFull ==
    /\ reader = "test"
    /\ ~HasRoom
    /\ ~closed
    /\ blocked' = TRUE
    /\ reader' = "park"
    /\ UNCHANGED <<size, sequence, queue, used, lock, closed, owner, releasing,
                   child, delivered>>

\* Condvar::wait: the mutex is released and the thread sleeps, in one step.
Park ==
    /\ reader = "park"
    /\ lock' = "none"
    /\ reader' = "wait"
    /\ UNCHANGED <<size, sequence, queue, used, blocked, closed, owner,
                   releasing, child, delivered>>

\* The loop of reserve() ends: the bytes are reserved, or the budget is closed
\* and the thread leaves without sending.
Reserve ==
    /\ reader = "test"
    /\ HasRoom \/ closed
    /\ blocked' = FALSE
    /\ lock' = "none"
    /\ IF closed
       THEN /\ reader' = "done"
            /\ size' = 0
            /\ UNCHANGED used
       ELSE /\ reader' = "send"
            /\ used' = used + size
            /\ UNCHANGED size
    /\ UNCHANGED <<sequence, queue, closed, owner, releasing, child, delivered>>

\* A faulty variant: a full channel loses the chunk (try_send).
SendOrLose ==
    /\ reader = "send"
    /\ queue' = IF owner = "dropped" \/ Len(queue) >= ChunkCap THEN queue
                ELSE Append(queue, [kind |-> "Output", sequence |-> sequence,
                                    bytes |-> size])
    /\ sequence' = sequence + 1
    /\ reader' = "read"
    /\ size' = 0
    /\ UNCHANGED <<used, lock, blocked, closed, owner, releasing, child, delivered>>

\* sender.send() of a chunk: it waits for a free slot; without a receiver it
\* fails, the bytes are given back and the thread ends.
Send ==
    /\ reader = "send"
    /\ IF owner = "dropped"
       THEN /\ lock = "none"
            /\ used' = used - size
            /\ reader' = "done"
            /\ UNCHANGED <<queue, sequence>>
       ELSE /\ Len(queue) < ChunkCap
            /\ queue' = Append(queue, [kind |-> "Output", sequence |-> sequence,
                                     bytes |-> size])
            /\ sequence' = sequence + 1
            /\ reader' = "read"
            /\ UNCHANGED used
    /\ size' = 0
    /\ UNCHANGED <<lock, blocked, closed, owner, releasing, child, delivered>>

\* sender.send() of Closed or Failure; its result is ignored.
SendEnd ==
    /\ reader = "ended"
    /\ IF owner = "dropped"
       THEN UNCHANGED queue
       ELSE /\ Len(queue) < ChunkCap
            /\ \E marker \in Markers : queue' = Append(queue, marker)
    /\ reader' = "done"
    /\ UNCHANGED <<size, sequence, used, lock, blocked, closed, owner, releasing,
                   child, delivered>>

\* A notification: it wakes the reader only if the reader already sleeps.
Notify == reader' = IF reader = "wait" THEN "lock" ELSE reader

\* Condvar::wait may return without a notification.
SpuriousWake ==
    /\ reader = "wait"
    /\ reader' = "lock"
    /\ UNCHANGED <<size, sequence, queue, used, lock, blocked, closed, owner,
                   releasing, child, delivered>>

-----------------------------------------------------------------------------
(* The owner of the PortableProcess.                                        *)

\* A faulty variant: the last event stays in the channel.
TryReadAllButOne ==
    /\ owner = "held"
    /\ Len(queue) > 1
    /\ queue' = Tail(queue)
    /\ IF IsChunk(Head(queue))
       THEN /\ owner' = "release"
            /\ releasing' = Head(queue).bytes
            /\ delivered' = delivered + 1
       ELSE /\ owner' = "held"
            /\ UNCHANGED <<releasing, delivered>>
    /\ UNCHANGED <<reader, size, sequence, used, lock, blocked, closed, child>>

\* try_read(): takes one event; a failure makes the runtime drop the process.
TryRead ==
    /\ owner = "held"
    /\ queue # <<>>
    /\ queue' = Tail(queue)
    /\ IF IsChunk(Head(queue))
       THEN /\ owner' = "release"
            /\ releasing' = Head(queue).bytes
            /\ delivered' = delivered + 1
       ELSE /\ owner' = IF Head(queue).kind = "Failure" THEN "closing" ELSE "held"
            /\ UNCHANGED <<releasing, delivered>>
    /\ UNCHANGED <<reader, size, sequence, used, lock, blocked, closed, child>>

\* Faulty variants: the bytes are not given back, or the reader is not notified.
ReleaseNothing ==
    /\ owner = "release"
    /\ lock = "none"
    /\ releasing' = 0
    /\ owner' = "held"
    /\ Notify
    /\ UNCHANGED <<size, sequence, queue, used, lock, blocked, closed, child, delivered>>
ReleaseSilently ==
    /\ owner = "release"
    /\ lock = "none"
    /\ used' = used - releasing
    /\ releasing' = 0
    /\ owner' = "held"
    /\ UNCHANGED <<reader, size, sequence, queue, lock, blocked, closed, child,
                   delivered>>

\* QueueBudget::release(): under the mutex, and notify_one before it is given up.
Release ==
    /\ owner = "release"
    /\ lock = "none"
    /\ used' = used - releasing
    /\ releasing' = 0
    /\ owner' = "held"
    /\ Notify
    /\ UNCHANGED <<size, sequence, queue, lock, blocked, closed, child, delivered>>

\* The runtime drops the process: at exit, failure, termination or a restart.
BeginDrop ==
    /\ owner = "held"
    /\ owner' = "closing"
    /\ UNCHANGED <<reader, size, sequence, queue, used, lock, blocked, closed,
                   releasing, child, delivered>>

\* QueueBudget::close(), first half: the flag is stored without the mutex.
CloseFlag ==
    /\ owner = "closing"
    /\ closed' = TRUE
    /\ owner' = "notifying"
    /\ UNCHANGED <<reader, size, sequence, queue, used, lock, blocked, releasing,
                   child, delivered>>

\* QueueBudget::close(), second half: notify_all, also without the mutex.
CloseNotify ==
    /\ owner = "notifying"
    /\ Notify
    /\ owner' = "killing"
    /\ UNCHANGED <<size, sequence, queue, used, lock, blocked, closed, releasing,
                   child, delivered>>

\* A faulty variant: the child is left running.
KillNobody ==
    /\ owner = "killing"
    /\ owner' = "dropping"
    /\ UNCHANGED <<reader, size, sequence, queue, used, lock, blocked, closed,
                   releasing, child, delivered>>

\* Drop kills a child whose exit nobody has observed.
Kill ==
    /\ owner = "killing"
    /\ child' = "dead"
    /\ owner' = "dropping"
    /\ UNCHANGED <<reader, size, sequence, queue, used, lock, blocked, closed,
                   releasing, delivered>>

\* The fields are dropped, the receiver and what it still holds among them.
DropReceiver ==
    /\ owner = "dropping"
    /\ owner' = "dropped"
    /\ queue' = <<>>
    /\ UNCHANGED <<reader, size, sequence, used, lock, blocked, closed, releasing,
                   child, delivered>>

\* The child exits by itself.
ChildExits ==
    /\ child = "alive"
    /\ child' = "dead"
    /\ UNCHANGED <<reader, size, sequence, queue, used, lock, blocked, closed,
                   owner, releasing, delivered>>

Reader == \/ ReadChunk \/ ReadEnds \/ TakeLock \/ TestFull \/ Park \/ Reserve
          \/ Send \/ SendEnd
Owner == \/ TryRead \/ Release \/ CloseFlag \/ CloseNotify \/ Kill \/ DropReceiver

Next == Reader \/ Owner \/ BeginDrop \/ SpuriousWake \/ ChildExits

\* The reader thread is scheduled and, once the child is dead, its read()
\* returns; the owner polls every tick and does not stop half way through a
\* drop.  The mutex is not withheld for ever from a thread that asks for it
\* again and again (strong fairness of the owner's step that takes it).  Nothing
\* obliges the owner to drop, the child to exit, or the condition variable to
\* wake by itself.
Fairness ==
    /\ WF_vars(Reader /\ (reader = "read" => child = "dead"))
    /\ WF_vars(Owner)
    /\ SF_vars(Release)

Spec == Init /\ [][Next]_vars /\ Fairness

-----------------------------------------------------------------------------
(* Properties.                                                              *)

TypeOK ==
    /\ reader \in ReaderSteps
    /\ size \in Sizes \cup {0}
    /\ sequence \in 0..MaxChunks
    /\ queue \in Seq(Chunk \cup Markers)
    /\ used \in 0..ByteCap
    /\ lock \in {"none", "reader"}
    /\ blocked \in BOOLEAN
    /\ closed \in BOOLEAN
    /\ owner \in OwnerSteps
    /\ releasing \in Sizes \cup {0}
    /\ child \in {"alive", "dead"}
    /\ delivered \in 0..MaxChunks

\* The positions of the queue that hold a chunk.
ChunkPositions == {i \in 1..Len(queue) : IsChunk(queue[i])}

\* No byte is dropped and none is reordered: what is queued is exactly the run
\* of sequence numbers between the last one the owner received and the next one
\* the reader will give out, and an end marker can only come after it.  The code
\* this is about: the budget and the channel of spawn_reader, which block the
\* reader where another design would discard output.
InOrder ==
    owner # "dropped" =>
        /\ sequence = delivered + Cardinality(ChunkPositions)
        /\ \A i \in ChunkPositions : queue[i].sequence = delivered + i - 1
        /\ \A i \in 1..Len(queue) : IsChunk(queue[i]) \/ i = Len(queue)

\* The bytes of an event, and of the events of a queue.
BytesIn(event) == IF IsChunk(event) THEN event.bytes ELSE 0

QueuedBytes(events) ==
    LET upTo[n \in 0..Len(events)] ==
            IF n = 0 THEN 0 ELSE upTo[n - 1] + BytesIn(events[n])
    IN upTo[Len(events)]

\* The budget's counter is exact: it is what is queued, plus what try_read took
\* and has not given back, plus what the reader has reserved and not yet sent.
\* reserve(), release() and the release after a failed send keep it so; a
\* double release or a missing one would let the queue outgrow its bound or
\* block the reader for ever.
BudgetExact ==
    owner # "dropped" =>
        used = QueuedBytes(queue) + releasing
                 + (IF reader = "send" THEN size ELSE 0)

\* A reader that sleeps for room is not forgotten while the owner polls: it
\* leaves the wait, or the owner starts to drop the process.
ReaderResumes ==
    (reader \in {"park", "wait"} /\ Held)
        ~> (reader \notin {"park", "wait"} \/ ~Held)

\* Every chunk the reader has sent reaches the owner unless the process is
\* dropped first (the rest of the queue is then thrown away with the receiver).
SentIsDelivered ==
    \A k \in 0..(MaxChunks - 1) :
        (sequence > k) ~> (delivered > k \/ ~Held)

\* After the process is dropped the reader thread ends or is asleep in
\* reserve(): it never stays in a full channel's send.  It CAN stay asleep for
\* ever, because close() may store its flag and notify between the reader's test
\* and its wait, and nobody notifies again.
ReaderSettles ==
    (owner = "dropped") ~> [](reader \in {"done", "wait"})

\* "Reports whether the adapter's bounded output reader is currently blocked"
\* (transport.rs, TerminalProcess::output_backpressured): a reader that waits in
\* send() because all ChunkCap slots are taken is blocked too.
BlockedReaderIsReported ==
    (reader = "send" /\ Held /\ Len(queue) = ChunkCap) => blocked
=============================================================================
