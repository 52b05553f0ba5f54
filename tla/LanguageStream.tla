--------------------------- MODULE LanguageStream ---------------------------
(***************************************************************************)
(* The language client of strukt-language (client.rs), the frames it reads *)
(* (framing.rs) and the process behind it (transport.rs): what one server  *)
(* is told and in which order, what its answers are about, and how they    *)
(* get through the pipe, the reader thread, the bounded channel and the    *)
(* frame decoder.                                                          *)
(*                                                                         *)
(* LanguageRuntime calls the client from one thread and writes everything  *)
(* the client has queued before its next call; an error of a call ends the *)
(* server.  A text is its revision.  A frame is two halves, header and     *)
(* body, numbered in the order the server writes them.  Deadlines are      *)
(* timers that may fire whenever they are set.                             *)
(***************************************************************************)
EXTENDS Naturals, Sequences, SequencesExt, FiniteSets, FiniteSetsExt

CONSTANTS
    Docs, Kinds,
    OutboundLimit,   \* OUTBOUND_LIMIT
    RequestLimit,    \* REQUEST_LIMIT
    RestartDelays,   \* RESTART_DELAYS: how many there are
    ChannelChunks,   \* STDOUT_CHANNEL_CHUNKS
    MaxRevision,     \* bound: edits
    MaxIds,          \* bound: requests of any kind
    MaxInbox         \* bound: messages on their way to the server

VARIABLES
    state,       \* LanguageServerState
    generation,
    ids,         \* RequestIdAllocator: the last one given out
    pendingId,   \* initialize_id or shutdown_id, 0 if none
    idle,        \* idle_deadline is set
    features,    \* capabilities: the kinds of request the server supports
    documents, changes, requests,
    dropped,     \* history: documents whose last change found the queue full
    crashes,     \* crash_times within RESTART_WINDOW
    outbound,
    alive,       \* the server process
    inbox,       \* what it has been sent and has not handled
    texts,       \* what it has of each document
    pipe,        \* its stdout: the halves of frames
    chunks,      \* the channel of the reader thread
    buffer,      \* FrameDecoder
    wrote,       \* frames the server wrote
    received     \* frames the client handled

client == <<state, generation, ids, pendingId, idle, features, documents, changes, requests,
            dropped, crashes>>
process == <<alive, inbox, texts, wrote>>
stream == <<pipe, chunks, buffer, received>>
streamVars == <<client, outbound, process, stream>>

NoDocuments == [d \in Docs |-> 0]
Note(method, doc, revision) == [method |-> method, id |-> 0, doc |-> doc, revision |-> revision]
-----------------------------------------------------------------------------
(* The outbound queue.                                                     *)

\* push_outbound of several messages in turn: those that fit.
Fit(messages) ==
    SubSeq(messages, 1, Min({Len(messages), OutboundLimit - Len(outbound)}))
Fits(messages) == Len(outbound) + Len(messages) <= OutboundLimit

\* The runtime's thread: what is queued is written before the next call.
Idle == outbound = << >>
Live == Idle /\ alive

\* fail_active_generation, the caller's answer to every error, with the end of the process.
Fail ==
    /\ generation' = generation + 1
    /\ state' = "Failed"
    /\ pendingId' = 0
    /\ idle' = FALSE
    /\ features' = {}
    /\ outbound' = << >>
    /\ changes' = NoDocuments
    /\ requests' = {}
    /\ alive' = FALSE
    /\ UNCHANGED <<ids, documents, dropped, crashes, inbox, texts, wrote>> /\ UNCHANGED stream

Queue(messages) == outbound' = outbound \o messages
Cancels(set) == [i \in 1..Cardinality(set) |-> Note("cancel", 0, 0)]

\* flush_client: one message is written, or the write fails.
FlushClient ==
    /\ outbound # << >>
    /\ alive
    /\ Len(inbox) < MaxInbox
    /\ inbox' = Append(inbox, Head(outbound))
    /\ outbound' = Tail(outbound)
    /\ UNCHANGED <<client, alive, texts, wrote>> /\ UNCHANGED stream
WriteFails ==
    /\ outbound # << >>
    /\ ~alive
    /\ Fail
-----------------------------------------------------------------------------
(* Start and end.                                                          *)

\* start, with StdioTransport::spawn: new pipes, a new reader, a new decoder.
Start ==
    /\ state \in {"Stopped", "Restarting"}
    /\ ids < MaxIds
    /\ generation' = generation + 1
    /\ state' = "Starting"
    /\ features' = {}
    /\ ids' = ids + 1
    /\ pendingId' = ids + 1
    /\ alive' = TRUE
    /\ inbox' = <<[method |-> "initialize", id |-> ids + 1, doc |-> 0, revision |-> 0]>>
    /\ texts' = NoDocuments
    /\ pipe' = << >> /\ chunks' = << >> /\ buffer' = << >>
    /\ wrote' = 0 /\ received' = 0
    /\ dropped' = {}
    /\ UNCHANGED <<idle, documents, changes, requests, crashes, outbound>>

AsksShutdown ==
    /\ Live
    /\ state \in {"Ready", "Degraded"}
    /\ ids < MaxIds
    /\ state' = "Stopping"
    /\ changes' = NoDocuments
    /\ requests' = {}
    /\ ids' = ids + 1
    /\ pendingId' = ids + 1
    /\ Queue(<<[method |-> "shutdown", id |-> ids + 1, doc |-> 0, revision |-> 0]>>)
    /\ UNCHANGED <<generation, features, documents, dropped, crashes>>
    /\ UNCHANGED process /\ UNCHANGED stream

BeginShutdown == AsksShutdown /\ UNCHANGED idle

\* try_wait of the runtime: finish_shutdown of a server that was asked to exit,
\* process_exited of another, which may be started again a bounded number of times (the
\* desktop's runtime takes a new client instead, as in the initial state).
ProcessExited ==
    /\ Idle /\ ~alive
    /\ state \in {"Starting", "Ready", "Degraded", "Stopping"}
    /\ pendingId' = 0 /\ idle' = FALSE /\ features' = {}
    /\ changes' = NoDocuments /\ requests' = {}
    /\ IF state = "Stopping" /\ pendingId = 0
         THEN state' = "Stopped" /\ UNCHANGED <<generation, crashes>>
         ELSE /\ generation' = generation + 1
              /\ crashes' = crashes + 1
              /\ state' = IF crashes < RestartDelays THEN "Restarting" ELSE "Failed"
    /\ UNCHANGED <<ids, documents, dropped, outbound>> /\ UNCHANGED process /\ UNCHANGED stream
WindowPasses ==
    /\ crashes > 0
    /\ crashes' = crashes - 1
    /\ UNCHANGED <<state, generation, ids, pendingId, idle, features, documents, changes, requests,
                   dropped, outbound>>
    /\ UNCHANGED process /\ UNCHANGED stream

\* poll_timeouts: an initialize or a shutdown ends the process, a request is forgotten and
\* cancelled, an idle server is shut down.
InitializeTimesOut ==
    /\ Idle /\ state = "Starting" /\ pendingId # 0
    /\ state' = "Failed" /\ pendingId' = 0 /\ alive' = FALSE
    /\ UNCHANGED <<generation, ids, idle, features, documents, changes, requests, dropped, crashes,
                   outbound, inbox, texts, wrote>>
    /\ UNCHANGED stream
ShutdownTimesOut ==
    /\ Idle /\ state = "Stopping" /\ pendingId # 0
    /\ state' = "Stopped" /\ pendingId' = 0 /\ alive' = FALSE
    /\ UNCHANGED <<generation, ids, idle, features, documents, changes, requests, dropped, crashes,
                   outbound, inbox, texts, wrote>>
    /\ UNCHANGED stream
RequestsTimeOut(late) ==
    /\ Idle
    /\ late # {} /\ late \subseteq requests
    /\ requests' = requests \ late
    /\ Queue(Fit(Cancels(late)))
    /\ state' = IF ~Fits(Cancels(late)) /\ state = "Ready" THEN "Degraded" ELSE state
    /\ UNCHANGED <<generation, ids, pendingId, idle, features, documents, changes, dropped,
                   crashes>>
    /\ UNCHANGED process /\ UNCHANGED stream
IdleTimesOut == idle /\ state = "Ready" /\ idle' = FALSE /\ AsksShutdown
-----------------------------------------------------------------------------
(* Documents.                                                              *)

Sent(messages) ==
    /\ Fits(messages)
    /\ Queue(messages)
    /\ UNCHANGED <<state, generation, ids, pendingId, features, crashes>>
    /\ UNCHANGED process /\ UNCHANGED stream

\* The text a server will have once it has read everything.
Told(d) ==
    LET notes == SelectSeq(inbox \o outbound, LAMBDA m :
                   m.method \in {"didOpen", "didChange", "didClose"} /\ m.doc = d)
    IN IF notes = << >> THEN texts[d] ELSE Last(notes).revision

\* did_open: once for each server.
DidOpen(d) ==
    /\ Live /\ state = "Ready" /\ Told(d) = 0
    /\ documents' = [documents EXCEPT ![d] = Max({@, 1})]
    /\ idle' = FALSE
    /\ dropped' = dropped \ {d}
    /\ Sent(<<Note("didOpen", d, documents'[d])>>)
    /\ UNCHANGED <<changes, requests>>

OfDocument(d) == {r \in requests : r.doc = d}

\* DidChange that leaves the requests.
DidChangeOnly(d) ==
    /\ Live /\ state = "Ready" /\ documents[d] \in 1..MaxRevision - 1
    /\ documents' = [documents EXCEPT ![d] = @ + 1]
    /\ changes' = [changes EXCEPT ![d] = documents[d] + 1]
    /\ UNCHANGED <<idle, requests, dropped>>
    /\ Sent(<< >>)
\* did_change: the text waits for flush_changes, the requests about the former one are
\* cancelled.  An error, a full queue, ends the server.
DidChange(d) ==
    /\ Live /\ state = "Ready" /\ documents[d] \in 1..MaxRevision - 1
    /\ IF Fits(Cancels(OfDocument(d)))
         THEN /\ documents' = [documents EXCEPT ![d] = @ + 1]
              /\ changes' = [changes EXCEPT ![d] = documents[d] + 1]
              /\ requests' = requests \ OfDocument(d)
              /\ UNCHANGED <<idle, dropped>>
              /\ Sent(Cancels(OfDocument(d)))
         ELSE Fail

DidClose(d) ==
    /\ Live /\ state = "Ready" /\ documents[d] # 0
    /\ LET messages == Append(Cancels(OfDocument(d)), Note("didClose", d, 0))
       IN IF Fits(messages)
            THEN /\ documents' = [documents EXCEPT ![d] = 0]
                 /\ changes' = [changes EXCEPT ![d] = 0]
                 /\ requests' = requests \ OfDocument(d)
                 /\ idle' = (documents' = NoDocuments)
                 /\ dropped' = dropped \ {d}
                 /\ Sent(messages)
            ELSE Fail

\* FlushChanges with one message for all that are due: only the last text is sent.
FlushLastChange(due) ==
    /\ Live /\ state = "Ready"
    /\ due # {} /\ \A d \in due : changes[d] # 0
    /\ changes' = [d \in Docs |-> IF d \in due THEN 0 ELSE changes[d]]
    /\ Queue(<<Note("didChange", Max(due), changes[Max(due)])>>)
    /\ dropped' = dropped \ due
    /\ UNCHANGED <<state, generation, ids, pendingId, idle, features, documents, requests, crashes>>
    /\ UNCHANGED process /\ UNCHANGED stream

\* flush_changes of those that are due, in the order of their names; each that does not
\* fit is dropped.
FlushChanges(due) ==
    /\ Live /\ state = "Ready"
    /\ due # {} /\ \A d \in due : changes[d] # 0
    /\ changes' = [d \in Docs |-> IF d \in due THEN 0 ELSE changes[d]]
    /\ LET order == SetToSortSeq(due, <)
           sent == Fit([i \in DOMAIN order |-> Note("didChange", order[i], changes[order[i]])])
       IN /\ Queue(sent)
          /\ dropped' = (dropped \ due) \cup {order[i] : i \in DOMAIN order \ DOMAIN sent}
    /\ UNCHANGED <<state, generation, ids, pendingId, idle, features, documents, requests, crashes>>
    /\ UNCHANGED process /\ UNCHANGED stream

Supports(kind) == kind \in features
\* request_feature: of the present revision; one of the same kind is replaced.
RequestFeature(kind, d) ==
    /\ Live /\ state = "Ready" /\ documents[d] # 0
    /\ Supports(kind)
    /\ Cardinality(requests) < RequestLimit /\ ids < MaxIds
    /\ LET former == {r \in OfDocument(d) : r.kind = kind}
           asks == [method |-> "feature", id |-> ids + 1, doc |-> d, revision |-> 0]
           messages == Append(Cancels(former), asks)
       IN IF Fits(messages)
            THEN /\ ids' = ids + 1
                 /\ requests' = (requests \ former)
                      \cup {[id |-> ids + 1, kind |-> kind, doc |-> d,
                             revision |-> documents[d], generation |-> generation]}
                 /\ Queue(messages)
                 /\ UNCHANGED <<state, generation, pendingId, idle, features, documents, changes,
                                dropped, crashes>>
                 /\ UNCHANGED process /\ UNCHANGED stream
            ELSE Fail
-----------------------------------------------------------------------------
(* The server and the way back.                                            *)

\* It takes its messages in order and answers each request with the text it has, perhaps
\* one it was told to cancel; it may write a notification; it may end at any time.
Write(frame) ==
    /\ pipe' = pipe \o <<[frame EXCEPT !.half = 1], [frame EXCEPT !.half = 2]>>
    /\ wrote' = wrote + 1
Frame(id, revision) == [number |-> wrote + 1, half |-> 1, id |-> id, revision |-> revision]
ServerHandles ==
    /\ alive /\ inbox # << >>
    /\ LET message == Head(inbox)
       IN /\ inbox' = Tail(inbox)
          /\ texts' = IF message.method \in {"didOpen", "didChange", "didClose"}
                      THEN [texts EXCEPT ![message.doc] = message.revision] ELSE texts
          /\ IF message.id # 0
               THEN Write(Frame(message.id, IF message.doc = 0 THEN 0 ELSE texts[message.doc]))
               ELSE UNCHANGED <<pipe, wrote>>
          /\ alive' = (message.method # "exit")
    /\ UNCHANGED client /\ UNCHANGED <<outbound, chunks, buffer, received>>
ServerEnds ==
    /\ alive
    /\ alive' = FALSE
    /\ UNCHANGED client /\ UNCHANGED <<outbound, inbox, texts, wrote>> /\ UNCHANGED stream

\* spawn_stdout_reader: a chunk is what one read returns; the channel blocks it.
ReadChunk(n) ==
    /\ n <= Len(pipe)
    /\ Len(chunks) < ChannelChunks
    /\ chunks' = Append(chunks, SubSeq(pipe, 1, n))
    /\ pipe' = SubSeq(pipe, n + 1, Len(pipe))
    /\ UNCHANGED client /\ UNCHANGED process /\ UNCHANGED <<outbound, buffer, received>>

\* try_read and FrameDecoder::push.
TakeChunk ==
    /\ Idle /\ chunks # << >> /\ Len(buffer) < 2
    /\ buffer' = buffer \o Head(chunks)
    /\ chunks' = Tail(chunks)
    /\ UNCHANGED client /\ UNCHANGED process /\ UNCHANGED <<outbound, pipe, received>>

\* handle_frame of the first whole frame: the answer to initialize, with what the server
\* supports (capabilities_from_initialize), to shutdown, or to a request that is still asked.
Taken == buffer[1]
Answered == {r \in requests : r.id = Taken.id}
Capabilities == SUBSET Kinds
AcceptInitialize ==
    /\ state' = "Ready" /\ pendingId' = 0
    /\ features' \in Capabilities
    /\ Queue(<<Note("initialized", 0, 0)>>)
    /\ UNCHANGED requests
AcceptShutdown ==
    /\ pendingId' = 0
    /\ Queue(<<Note("exit", 0, 0)>>)
    /\ UNCHANGED <<state, features, requests>>
HandleFrame ==
    /\ Idle /\ Len(buffer) >= 2
    /\ state \in {"Starting", "Ready", "Degraded", "Stopping"}
    /\ buffer' = SubSeq(buffer, 3, Len(buffer))
    /\ received' = Taken.number
    /\ CASE Taken.id = pendingId /\ state = "Starting" -> AcceptInitialize
         [] Taken.id = pendingId /\ state = "Stopping" -> AcceptShutdown
         [] OTHER ->
              /\ requests' = requests \ Answered
              /\ UNCHANGED <<state, pendingId, features, outbound>>
    /\ UNCHANGED <<generation, ids, idle, documents, changes, dropped, crashes, pipe, chunks>>
    /\ UNCHANGED process

\* A malformed frame, an initialize that is answered with an error: fail_protocol,
\* reject_initialize.
FailProtocol ==
    /\ Idle /\ Len(buffer) >= 2
    /\ state \in {"Starting", "Ready"}
    /\ Fail
-----------------------------------------------------------------------------
StreamInit ==
    /\ state = "Stopped" /\ generation = 0 /\ ids = 0 /\ pendingId = 0 /\ idle = FALSE
    /\ documents = NoDocuments /\ changes = NoDocuments /\ requests = {} /\ crashes = 0
    /\ dropped = {}
    /\ features = {}
    /\ outbound = << >>
    /\ alive = FALSE /\ inbox = << >> /\ texts = NoDocuments /\ wrote = 0
    /\ pipe = << >> /\ chunks = << >> /\ buffer = << >> /\ received = 0

StreamNext ==
    \/ FlushClient \/ WriteFails
    \/ Start \/ BeginShutdown \/ ProcessExited \/ WindowPasses
    \/ InitializeTimesOut \/ ShutdownTimesOut \/ IdleTimesOut
    \/ \E late \in SUBSET requests : RequestsTimeOut(late)
    \/ \E d \in Docs : DidOpen(d) \/ DidChange(d) \/ DidClose(d)
    \/ \E due \in SUBSET Docs : FlushChanges(due)
    \/ \E kind \in Kinds, d \in Docs : RequestFeature(kind, d)
    \/ ServerHandles \/ ServerEnds
    \/ \E n \in 1..3 : ReadChunk(n)
    \/ TakeChunk \/ HandleFrame \/ FailProtocol

StreamSpec == StreamInit /\ [][StreamNext]_streamVars
-----------------------------------------------------------------------------
\* Type invariant.
StreamTypeOK ==
    /\ state \in {"Stopped", "Starting", "Ready", "Degraded", "Restarting", "Failed", "Stopping"}
    /\ Len(outbound) <= OutboundLimit /\ Cardinality(requests) <= RequestLimit
    /\ Len(chunks) <= ChannelChunks
    /\ {documents, changes, texts} \subseteq [Docs -> 0..MaxRevision]
    /\ received <= wrote

\* What is on its way continues what was handled: no frame is lost, doubled, cut or
\* overtaken between the server's write and the client, however reads cut the stream and
\* however often the channel is full.
FramesInOrder ==
    LET onTheWay == buffer \o FlattenSeq(chunks) \o pipe
    IN \A i \in DOMAIN onTheWay :
         /\ onTheWay[i].number = received + (i + 1) \div 2
         /\ onTheWay[i].half = 2 - (i % 2)

\* A request that may still be answered is about the text the document has now, and is the
\* only one of its kind: every edit, close, newer request, time-out, restart and failure on
\* the way has taken the others out.
RequestsAreCurrent ==
    \A r \in requests :
        /\ state \in {"Ready", "Degraded"}
        /\ r.generation = generation
        /\ documents[r.doc] = r.revision
        /\ \A q \in requests : q.kind = r.kind /\ q.doc = r.doc => q = r

\* A ready server is told every text of the documents opened since it was started: what is not
\* waiting for the coalescing window is with it or on its way to it.  The one exception is a
\* document whose change came due when the queue was full: flush_changes drops it, and the
\* server stays behind until the next edit of that document is flushed, or it is closed.
ServerIsTold ==
    alive /\ state = "Ready" =>
        \A d \in Docs : Told(d) # 0 /\ documents[d] # 0 =>
            CASE changes[d] # 0 -> documents[d] = changes[d]
              [] d \in dropped -> documents[d] >= Told(d)
              [] OTHER -> documents[d] = Told(d)

\* An answer that is applied was computed from the revision it is applied to.
AppliedIsOfText ==
    [][\A r \in requests :
          received' # received /\ Taken.id = r.id /\ state = "Ready" => Taken.revision = r.revision]_streamVars
=============================================================================
