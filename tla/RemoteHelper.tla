--------------------------- MODULE RemoteHelper ---------------------------
(***************************************************************************)
(* run_request_loop of crates/strukt-remote/src/helper.rs: a thread reads  *)
(* requests into a bounded channel, the loop hands each one to a worker of *)
(* its own, and the workers return their answers through another bounded   *)
(* channel.  A request is known by its place in the stream; its id is what *)
(* the client gave it, and a client may use one twice.                     *)
(***************************************************************************)
EXTENDS Naturals, Sequences, FiniteSets, SequencesExt

CONSTANTS
    Nothing,
    Ids,         \* request identifiers
    MaxRequests, \* bound: requests of a client
    MaxInFlight  \* ProtocolLimits.max_in_flight

VARIABLES
    sent,        \* how many requests the client has sent
    hungUp,      \* whether the stream has ended
    input,       \* the channel of requests
    phase,       \* where the loop is, or how it ended
    inputClosed,
    active,      \* requests with a worker
    cancellable, \* cancellations: the requests whose token is kept
    cancelled,   \* requests whose token was cancelled
    workers,     \* requests that are being worked on
    completions, \* the channel of answers
    responses    \* what was written, in order

helperVars == <<sent, hungUp, input, phase, inputClosed, active, cancellable, cancelled, workers,
                completions, responses>>

Requests ==
    [place : 1..MaxRequests, id : Ids, cancels : Ids \cup {Nothing}]

HelperInit ==
    /\ sent = 0
    /\ hungUp = FALSE
    /\ input = <<>>
    /\ phase = "drain"
    /\ inputClosed = FALSE
    /\ active = 0
    /\ cancellable = {}
    /\ cancelled = {}
    /\ workers = {}
    /\ completions = <<>>
    /\ responses = <<>>

\* read_requests: the client sends another request, or its stream ends.
ReadRequest ==
    /\ ~hungUp
    /\ Len(input) < MaxInFlight
    /\ \/ /\ sent < MaxRequests
          /\ \E r \in Requests : r.place = sent + 1 /\ input' = Append(input, r)
          /\ sent' = sent + 1
          /\ UNCHANGED hungUp
       \/ /\ \E end \in {"Closed", "Failed"} : input' = Append(input, [end |-> end])
          /\ hungUp' = TRUE
          /\ UNCHANGED sent
    /\ UNCHANGED <<phase, inputClosed, active, cancellable, cancelled, workers, completions,
                   responses>>

\* write_response; the loop ends when the client is gone.
Respond(place, body) ==
    \/ responses' = Append(responses, [place |-> place, body |-> body]) /\ phase' = "drain"
    \/ phase' = "failed" /\ UNCHANGED responses

\* Faulty variant: the place in the loop is freed, the identifier is not.
TakeCompletionOnly ==
    /\ phase = "drain"
    /\ completions # <<>>
    /\ completions' = Tail(completions)
    /\ active' = active - 1
    /\ Respond(Head(completions).place, Head(completions).body)
    /\ UNCHANGED <<sent, hungUp, input, inputClosed, cancellable, cancelled, workers>>
\* The answers that are there come before the next request.
TakeCompletion ==
    /\ phase = "drain"
    /\ completions # <<>>
    /\ completions' = Tail(completions)
    /\ active' = active - 1
    /\ cancellable' = {r \in cancellable : r.id # Head(completions).id}
    /\ Respond(Head(completions).place, Head(completions).body)
    /\ UNCHANGED <<sent, hungUp, input, inputClosed, cancelled, workers>>

\* Faulty variant: the loop does not wait for its workers.
DrainedEarly ==
    /\ phase = "drain"
    /\ completions = <<>>
    /\ phase' = IF inputClosed THEN "done" ELSE "input"
    /\ UNCHANGED <<sent, hungUp, input, inputClosed, active, cancellable, cancelled, workers,
                   completions, responses>>

\* The loop ends when the stream has and every worker is back.
Drained ==
    /\ phase = "drain"
    /\ completions = <<>>
    /\ phase' = IF inputClosed /\ active = 0 THEN "done" ELSE "input"
    /\ UNCHANGED <<sent, hungUp, input, inputClosed, active, cancellable, cancelled, workers,
                   completions, responses>>

\* recv_timeout: nothing arrived, or the reader has gone.
Wait ==
    /\ phase = "input"
    /\ input = <<>>
    /\ phase' = "drain"
    /\ UNCHANGED <<sent, hungUp, input, inputClosed, active, cancellable, cancelled, workers,
                   completions, responses>>

InputEnds ==
    /\ phase = "input"
    /\ input # <<>>
    /\ input' = Tail(input)
    /\ \/ Head(input) = [end |-> "Closed"] /\ inputClosed' = TRUE /\ phase' = "drain"
       \/ Head(input) = [end |-> "Failed"] /\ phase' = "failed" /\ UNCHANGED inputClosed
    /\ UNCHANGED <<sent, hungUp, active, cancellable, cancelled, workers, completions, responses>>

TakesRequest(r) ==
    /\ phase = "input"
    /\ input # <<>>
    /\ Head(input) \in Requests
    /\ r = Head(input)
    /\ input' = Tail(input)
    /\ UNCHANGED <<sent, hungUp, inputClosed, completions>>

CancelRequest(r) ==
    /\ TakesRequest(r)
    /\ r.cancels # Nothing
    /\ LET found == {c \in cancellable : c.id = r.cancels}
       IN /\ cancelled' = cancelled \cup found
          /\ Respond(r.place, IF found = {} THEN "NotFound" ELSE "Acknowledged")
    /\ UNCHANGED <<active, cancellable, workers>>

InUse(r) == \E c \in cancellable : c.id = r.id

RefuseRequest(r) ==
    /\ TakesRequest(r)
    /\ r.cancels = Nothing
    /\ active >= MaxInFlight \/ InUse(r)
    /\ Respond(r.place, IF active >= MaxInFlight THEN "CapacityReached" ELSE "Duplicate")
    /\ UNCHANGED <<active, cancellable, cancelled, workers>>

StartRequest(r) ==
    /\ TakesRequest(r)
    /\ r.cancels = Nothing
    /\ active < MaxInFlight
    /\ ~InUse(r)
    /\ cancellable' = cancellable \cup {r}
    /\ active' = active + 1
    /\ workers' = workers \cup {r}
    /\ phase' = "drain"
    /\ UNCHANGED <<cancelled, responses>>

\* handle_cancellable: a token that is cancelled is seen at the start, or by an operation
\* that looks at it on the way; others finish.
Work(r) ==
    /\ r \in workers
    /\ Len(completions) < MaxInFlight
    /\ workers' = workers \ {r}
    /\ \E body \in {"Answer"} \cup IF r \in cancelled THEN {"Cancelled"} ELSE {} :
          completions' = Append(completions, [place |-> r.place, id |-> r.id, body |-> body])
    /\ UNCHANGED <<sent, hungUp, input, phase, inputClosed, active, cancellable, cancelled,
                   responses>>

Loop ==
    \/ TakeCompletion
    \/ Drained
    \/ Wait
    \/ InputEnds
    \/ \E r \in Requests : CancelRequest(r) \/ RefuseRequest(r) \/ StartRequest(r)

HelperNext ==
    \/ ReadRequest
    \/ Loop
    \/ \E r \in workers : Work(r)

\* The loop and its workers are threads, and what a worker does ends.  Nothing makes a
\* client send or hang up.
HelperFairness ==
    /\ WF_helperVars(Loop)
    /\ \A r \in Requests : WF_helperVars(Work(r))

HelperSpec == HelperInit /\ [][HelperNext]_helperVars /\ HelperFairness

-----------------------------------------------------------------------------
HelperTypeOK ==
    /\ active \in 0..MaxInFlight
    /\ Len(completions) <= MaxInFlight
    /\ phase \in {"drain", "input", "done", "failed"}

\* A request is answered once: it is in one place only on its way from the stream to its
\* answer, and a token is kept exactly as long as the request is worked on or its answer
\* waits, however readers, workers, cancellations and a reused identifier interleave.
AnsweredOnce ==
    LET answered == [i \in DOMAIN responses |-> responses[i].place]
        finished == [i \in DOMAIN completions |-> completions[i].place]
        working == {r.place : r \in workers}
    IN /\ IsInjective(answered \o finished)
       /\ (ToSet(answered) \cup ToSet(finished)) \cap working = {}
       /\ phase # "failed" => {r.place : r \in cancellable} = ToSet(finished) \cup working
       /\ active = Cardinality(cancellable) \/ phase = "failed"

\* A client that closes its stream is answered for everything it has asked, and the
\* helper ends, unless an answer cannot be written or the stream breaks.
HelperEnds ==
    hungUp ~> (phase = "failed" \/ (phase = "done" /\ Len(responses) = sent))
=============================================================================
