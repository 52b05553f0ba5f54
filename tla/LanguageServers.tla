--------------------------- MODULE LanguageServers ---------------------------
(***************************************************************************)
(* The language server of one language of a workspace:                     *)
(* LanguageCoordinator and LanguageRuntime (crates/strukt-app/src/         *)
(* language.rs), LanguageClient (crates/strukt-language/src/client.rs) and *)
(* the messages of app.rs that drive them.                                 *)
(*                                                                         *)
(* Languages share only the poll of the runtime, which runs while some     *)
(* server is starting or ready; `others` says whether another one is.  A   *)
(* document is its path.  A text is its revision: what the server has of a *)
(* document is the revision it was last sent.  Effects are flushed at once,*)
(* so the outbound queue of the client never fills.  A poll is modelled    *)
(* event by event.  Every opening is of a workspace not opened before.     *)
(***************************************************************************)
EXTENDS Naturals, FiniteSets, SequencesExt

CONSTANTS
    None,
    Docs,
    Kinds,          \* FeatureRequestKind
    MaxRevision,    \* bound: edits of a document
    MaxGeneration,  \* bound: starts of the server
    MaxRequests,    \* bound: requests of a client
    MaxWorkspaces   \* bound: workspaces opened

VARIABLES
    workspace,   \* workspace_id
    bindings,    \* documents: None, or the revision open_document and edit_document gave, the
                 \* one of the editor's text (buffer), and eligible.  `replaced` records for
                 \* the properties that the editor's text was replaced since the last edit
    server,      \* ServerBinding
    enabled,     \* selection_enabled
    approved,    \* approvals has the command
    diagnostics, \* the generation the problems of a document are of
    guards,      \* feature_guards
    shown,       \* what the completion list, the hover and the definitions are of
    running,     \* RunningLanguage, or None
    others,      \* another language is being polled
    jobs         \* discoveries and spawns that have not been answered

coordinator == <<workspace, bindings, server, enabled, approved, diagnostics, guards, shown>>
languageVars == <<coordinator, running, others, jobs>>

ServerStates == {"Stopped", "Discovering", "Unavailable", "ApprovalRequired", "Disabled",
                 "Starting", "Ready", "Failed"}

NoServer == [state |-> "Stopped", generation |-> 0, shutdownPending |-> FALSE]

LanguageInit ==
    /\ workspace = 1
    /\ bindings = [d \in Docs |-> None]
    /\ server = NoServer
    /\ enabled = TRUE
    /\ approved = FALSE
    /\ diagnostics = [d \in Docs |-> None]
    /\ guards = {}
    /\ shown = [k \in Kinds |-> None]
    /\ running = None
    /\ others = FALSE
    /\ jobs = {}

-----------------------------------------------------------------------------
(* LanguageClient.                                                          *)

NewClient(generation) ==
    [generation |-> generation, client |-> "Starting",
     opened |-> [d \in Docs |-> 0],    \* documents: the revision the client was told
     changes |-> [d \in Docs |-> 0],   \* pending_changes
     view |-> [d \in Docs |-> 0],      \* the revision the server has been sent
     requests |-> {},                  \* requests
     features |-> {},                  \* feature_requests of the runtime
     issued |-> 0,                     \* request identifiers given out
     shutdown |-> FALSE,               \* a shutdown has not been answered
     idle |-> FALSE,                   \* idle_deadline
     alive |-> TRUE]                   \* the process

Forget(p, d) == [p EXCEPT !.requests = {r \in @ : r.doc # d}]

\* did_open, did_change, did_save and did_close, each with its flush: what becomes of the
\* client, and whether the effect succeeds.
DidOpen(p, e) ==
    [ok |-> p.client = "Ready" /\ p.alive,
     p |-> IF p.client # "Ready" THEN p
           ELSE [p EXCEPT !.opened[e.doc] = e.revision, !.view[e.doc] = e.revision,
                          !.idle = FALSE]]

\* Faulty variant: a change is taken whatever its document is at.
DidChangeUnsent(p, e) ==
    [ok |-> TRUE,
     p |-> IF p.client # "Ready" THEN p ELSE Forget([p EXCEPT !.opened[e.doc] = e.revision], e.doc)]
DidChange(p, e) ==
    LET accepted == p.client = "Ready" /\ p.opened[e.doc] \notin {0} \cup e.revision..MaxRevision
    IN  [ok |-> accepted /\ (p.alive \/ {r \in p.requests : r.doc = e.doc} = {}),
         p |-> IF ~accepted THEN p
               ELSE Forget([p EXCEPT !.opened[e.doc] = e.revision,
                                     !.changes[e.doc] = e.revision], e.doc)]

DidSave(p, e) == [ok |-> p.client = "Ready" /\ p.opened[e.doc] # 0 /\ p.alive, p |-> p]

DidClose(p, e) ==
    LET accepted == p.client = "Ready" /\ p.opened[e.doc] # 0
        closed == Forget([p EXCEPT !.opened[e.doc] = 0, !.changes[e.doc] = 0,
                                   !.view[e.doc] = 0], e.doc)
    IN  [ok |-> accepted /\ p.alive,
         p |-> IF ~accepted THEN p
               ELSE [closed EXCEPT !.idle = @ \/ \A d \in Docs : closed.opened[d] = 0]]

\* LanguageRuntime::apply_effects: an effect of another generation is skipped, and none is
\* applied after one that failed.
Apply(so, e) ==
    IF ~so.ok \/ so.p = None \/ so.p.generation # e.generation THEN so
    ELSE CASE e.kind = "Open" -> DidOpen(so.p, e)
           [] e.kind = "Change" -> DidChange(so.p, e)
           [] e.kind = "Save" -> DidSave(so.p, e)
           [] e.kind = "Close" -> DidClose(so.p, e)
Applied(effects) == FoldLeft(Apply, [ok |-> TRUE, p |-> running], effects)

Effect(kind, d, revision) ==
    [kind |-> kind, doc |-> d, revision |-> revision, generation |-> server.generation]

-----------------------------------------------------------------------------
(* LanguageCoordinator.                                                     *)

Eligible(bs, d) == bs[d] # None /\ bs[d].eligible
AnyEligible(bs) == \E d \in Docs : Eligible(bs, d)

CanStart(state) == state \in {"Stopped", "Unavailable", "Failed"}

\* ensure_language_started and retry: the next generation is discovered.  The job takes the
\* approvals of now.
Discovering(s) == [s EXCEPT !.state = "Discovering", !.generation = @ + 1]
Discovery(s) ==
    {[kind |-> "discover", workspace |-> workspace, generation |-> s.generation,
      approved |-> approved, result |-> None]}

\* fail: what belongs to the generation that failed goes.
Failed(s) == [s EXCEPT !.state = "Failed"]
Without(ds, generation) == [d \in Docs |-> IF ds[d] = generation THEN None ELSE ds[d]]

Clear == guards' = {} /\ shown' = [k \in Kinds |-> None]

\* clear_features_for_document: the hover goes whatever it is of.
KeptFor(d) ==
    [k \in Kinds |-> IF shown[k] # None /\ (k = "Hover" \/ shown[k].doc = d) THEN None
                     ELSE shown[k]]
GuardsBut(d) == {g \in guards : g.doc # d}

\* language_effects_task for a coordinator that has become s with the features kept: the
\* runtime applies the effects, and the server has failed if it cannot.
Effects(s, effects, ds, gs, sh) ==
    LET so == Applied(effects)
    IN  /\ running' = so.p
        /\ \/ /\ so.ok
              /\ server' = s
              /\ diagnostics' = ds
              /\ guards' = gs
              /\ shown' = sh
           \/ /\ ~so.ok
              /\ server' = Failed(s)
              /\ diagnostics' = Without(ds, s.generation)
              /\ Clear

-----------------------------------------------------------------------------
(* Documents.                                                               *)

\* open_document as a function of the bindings after it: what is sent or started.
OpensNow(bs, d) == Eligible(bs, d) /\ enabled
Starts(bs, d) == OpensNow(bs, d) /\ CanStart(server.state)
OpenEffect(bs, d) ==
    IF OpensNow(bs, d) /\ server.state = "Ready" THEN <<Effect("Open", d, bs[d].revision)>>
    ELSE <<>>
AfterOpen(bs, d) == IF Starts(bs, d) THEN Discovering(server) ELSE server
OpenJobs(bs, d) == IF Starts(bs, d) THEN Discovery(Discovering(server)) ELSE {}

\* DocumentOpened, for a document that is open already too.
OpenDocument(d, eligible) ==
    LET bs == [bindings EXCEPT ![d] =
                 IF @ = None
                 THEN [revision |-> 1, buffer |-> 1, eligible |-> eligible, replaced |-> FALSE]
                 ELSE [@ EXCEPT !.revision = bindings[d].buffer]]
    IN  /\ bindings[d] # None => bindings[d].eligible = eligible
        /\ Starts(bs, d) => server.generation < MaxGeneration
        /\ bindings' = bs
        /\ jobs' = jobs \cup OpenJobs(bs, d)
        /\ Effects(AfterOpen(bs, d), OpenEffect(bs, d), diagnostics, guards, shown)
        /\ UNCHANGED <<workspace, enabled, approved, others>>

\* language_document_changed takes the revision and the text from the editor, after an edit, an
\* undo, a replacement in the text, a completion applied.
Changed(d, gs, sh) ==
    LET next == bindings[d].buffer + 1 IN
    /\ next <= MaxRevision
    /\ bindings' = [bindings EXCEPT ![d] =
                      [@ EXCEPT !.revision = next, !.buffer = next, !.replaced = FALSE]]
    /\ Effects(server,
               IF bindings[d].eligible /\ server.state = "Ready"
               THEN <<Effect("Change", d, next)>> ELSE <<>>,
               diagnostics, gs, sh)
    /\ UNCHANGED <<workspace, enabled, approved, others, jobs>>

EditDocument(d) == bindings[d] # None /\ Changed(d, GuardsBut(d), KeptFor(d))

\* ReloadDocumentFromDisk, RecoveryLoaded and DocumentDiskObserved of a clean document replace
\* the text in the editor; the coordinator is not called.
ReplaceText(d) ==
    /\ bindings[d] # None
    /\ bindings[d].buffer < MaxRevision
    /\ bindings' = [bindings EXCEPT ![d] = [@ EXCEPT !.buffer = @ + 1, !.replaced = TRUE]]
    /\ UNCHANGED <<workspace, server, enabled, approved, diagnostics, guards, shown, running,
                   others, jobs>>

SaveDocument(d) ==
    /\ bindings[d] # None
    /\ bindings[d].eligible
    /\ server.state = "Ready"
    /\ Effects(server, <<Effect("Save", d, 0)>>, diagnostics, guards, shown)
    /\ UNCHANGED <<workspace, bindings, enabled, approved, others, jobs>>

\* close_document sends a Close that a server which is only starting refuses.
CloseEffect(d) ==
    IF bindings[d].eligible /\ server.state \in {"Discovering", "Starting", "Ready"}
    THEN <<Effect("Close", d, 0)>> ELSE <<>>

CloseDocument(d) ==
    /\ bindings[d] # None
    /\ bindings' = [bindings EXCEPT ![d] = None]
    /\ Effects(server, CloseEffect(d), [diagnostics EXCEPT ![d] = None], GuardsBut(d), KeptFor(d))
    /\ UNCHANGED <<workspace, enabled, approved, others, jobs>>

\* set_override: the document leaves the language, or comes back to it.
SetLanguageOverride(d) ==
    LET bs == [bindings EXCEPT ![d].eligible = ~@]
    IN  /\ bindings[d] # None
        /\ Starts(bs, d) => server.generation < MaxGeneration
        /\ bindings' = bs
        /\ jobs' = jobs \cup OpenJobs(bs, d)
        /\ Effects(AfterOpen(bs, d), CloseEffect(d) \o OpenEffect(bs, d),
                   [diagnostics EXCEPT ![d] = None], GuardsBut(d), KeptFor(d))
        /\ UNCHANGED <<workspace, enabled, approved, others>>

-----------------------------------------------------------------------------
(* Discovery and start.                                                     *)

\* discover_workspace_language and spawn_discovered_server, on threads of their own.
RunJob(job) ==
    /\ job.result = None
    /\ \E result \in IF job.kind = "spawn" THEN {"Process", "Error"}
                     ELSE {"Available", "Unavailable", "Disabled", "Error"}
                            \cup IF job.approved THEN {} ELSE {"ApprovalRequired"} :
          jobs' = (jobs \ {job}) \cup {[job EXCEPT !.result = result]}
    /\ UNCHANGED <<coordinator, running, others>>

Spawn ==
    {[kind |-> "spawn", workspace |-> workspace, generation |-> server.generation,
      approved |-> TRUE, result |-> None]}

\* A discovery of another workspace or generation is ignored.
IsCurrentDiscovery(job) ==
    /\ job.workspace = workspace
    /\ job.generation = server.generation
    /\ server.state = "Discovering"

LanguageDiscovered(job) ==
    /\ job.kind = "discover"
    /\ job.result # None
    /\ \/ /\ ~IsCurrentDiscovery(job)
          /\ jobs' = jobs \ {job}
          /\ UNCHANGED server
       \/ /\ IsCurrentDiscovery(job)
          /\ jobs' = (jobs \ {job}) \cup IF job.result = "Available" THEN Spawn ELSE {}
          /\ server' = [server EXCEPT !.state =
                          CASE job.result = "Available" -> "Starting"
                            [] job.result = "Error" -> "Failed"
                            [] OTHER -> job.result]
    /\ UNCHANGED <<workspace, bindings, enabled, approved, diagnostics, guards, shown, running,
                   others>>

\* finish_start takes a process of this workspace whatever its generation; the one that was
\* there is dropped.
LanguageStarted(job) ==
    /\ job.kind = "spawn"
    /\ job.result # None
    /\ jobs' = jobs \ {job}
    /\ \/ job.workspace # workspace /\ UNCHANGED <<running, server, diagnostics, guards, shown>>
       \/ /\ job.workspace = workspace
          /\ job.result = "Process"
          /\ running' = NewClient(job.generation)
          /\ UNCHANGED <<server, diagnostics, guards, shown>>
       \/ /\ job.workspace = workspace
          /\ job.result = "Error"
          /\ UNCHANGED running
          /\ IF job.generation = server.generation
             THEN server' = Failed(server) /\ diagnostics' = Without(diagnostics, job.generation)
                    /\ Clear
             ELSE UNCHANGED <<server, diagnostics, guards, shown>>
    /\ UNCHANGED <<workspace, bindings, enabled, approved, others>>

ApproveLanguage ==
    /\ server.state = "ApprovalRequired"
    /\ server' = [server EXCEPT !.state = "Starting"]
    /\ approved' = TRUE
    /\ jobs' = jobs \cup Spawn
    /\ UNCHANGED <<workspace, bindings, enabled, diagnostics, guards, shown, running, others>>

DenyLanguage ==
    /\ server.state = "ApprovalRequired"
    /\ server' = [server EXCEPT !.state = "Disabled"]
    /\ approved' = FALSE
    /\ UNCHANGED <<workspace, bindings, enabled, diagnostics, guards, shown, running, others, jobs>>

RetryLanguage ==
    /\ server.state \in {"Unavailable", "Failed"}
    /\ server.generation < MaxGeneration
    /\ server' = Discovering(server)
    /\ jobs' = jobs \cup Discovery(Discovering(server))
    /\ UNCHANGED <<workspace, bindings, enabled, approved, diagnostics, guards, shown, running,
                   others>>

\* enable_language: a server that is still being stopped is started when it has stopped.
EnableLanguage ==
    LET begins == ~server.shutdownPending /\ AnyEligible(bindings)
    IN  /\ server.state = "Disabled"
        /\ begins => server.generation < MaxGeneration
        /\ enabled' = TRUE
        /\ server' = IF server.shutdownPending THEN server
                     ELSE IF begins THEN Discovering(server)
                     ELSE [server EXCEPT !.state = "Stopped"]
        /\ jobs' = jobs \cup IF begins THEN Discovery(Discovering(server)) ELSE {}
        /\ UNCHANGED <<workspace, bindings, approved, diagnostics, guards, shown, running, others>>

\* LanguageRuntime::begin_shutdown; a client that is not ready refuses it.
CanShutDown == running # None /\ running.generation = server.generation /\ running.client = "Ready"
ShuttingDown(p) == [p EXCEPT !.client = "Stopping", !.shutdown = TRUE, !.requests = {},
                             !.changes = [d \in Docs |-> 0]]

DisableLanguage ==
    /\ server.state \in {"Unavailable", "Failed", "Ready"}
    /\ enabled' = FALSE
    /\ server' = [server EXCEPT !.state = "Disabled", !.shutdownPending = server.state = "Ready"]
    /\ running' = IF server.state = "Ready" /\ CanShutDown THEN ShuttingDown(running) ELSE running
    /\ diagnostics' = [d \in Docs |-> None]
    /\ Clear
    /\ UNCHANGED <<workspace, bindings, approved, others, jobs>>

RestartLanguage ==
    /\ server.state = "Ready"
    /\ ~server.shutdownPending
    /\ running' = IF CanShutDown THEN ShuttingDown(running) ELSE running
    /\ \/ /\ CanShutDown /\ running.alive
          /\ server' = [server EXCEPT !.shutdownPending = TRUE]
          /\ UNCHANGED <<diagnostics, guards, shown>>
       \/ /\ ~(CanShutDown /\ running.alive)
          /\ server' = [Failed(server) EXCEPT !.shutdownPending = TRUE]
          /\ diagnostics' = Without(diagnostics, server.generation)
          /\ Clear
    /\ UNCHANGED <<workspace, bindings, enabled, approved, others, jobs>>

WorkspaceOpened ==
    /\ workspace < MaxWorkspaces
    /\ workspace' = workspace + 1
    /\ bindings' = [d \in Docs |-> None]
    /\ server' = NoServer
    /\ diagnostics' = [d \in Docs |-> None]
    /\ Clear
    /\ running' = None
    /\ enabled' \in BOOLEAN
    /\ approved' \in BOOLEAN
    /\ UNCHANGED <<others, jobs>>

-----------------------------------------------------------------------------
(* Features.                                                                *)

\* request_context: the document is bound to a server that is ready.
HasContext(d) == Eligible(bindings, d) /\ server.state = "Ready"

\* request_feature of a client that has this revision of the document: of the requests that
\* are open for it none of this kind is left.
Requested(r) ==
    [running EXCEPT
        !.issued = @ + 1,
        !.requests = {x \in @ : x.doc # r.doc \/ x.kind # r.kind} \cup {r},
        !.features = @ \cup {r}]

\* begin_feature.
BeginFeature(r) ==
    {g \in guards : g.doc # r.doc \/ g.kind # r.kind}
      \cup {[id |-> r.id, doc |-> r.doc, kind |-> r.kind, revision |-> r.revision,
             generation |-> server.generation]}

\* RequestLanguageFeature: a request of this kind that is open for the document goes, and
\* its answer is not waited for.
RequestLanguageFeature(d, kind) ==
    LET r == [id |-> running.issued + 1, doc |-> d, kind |-> kind,
              revision |-> bindings[d].revision]
    IN  /\ HasContext(d)
        /\ running # None
        /\ running.generation = server.generation
        /\ running.client = "Ready"
        /\ running.opened[d] = bindings[d].revision
        /\ running.issued < MaxRequests
        /\ running' = Requested(r)
        /\ guards' = IF running.alive THEN BeginFeature(r) ELSE guards
        /\ UNCHANGED <<workspace, bindings, server, enabled, approved, diagnostics, shown, others,
                       jobs>>

DismissLanguageFeatures ==
    /\ \E k \in Kinds : shown[k] # None
    /\ Clear
    /\ UNCHANGED <<workspace, bindings, server, enabled, approved, diagnostics, running, others,
                   jobs>>

\* ApplyCompletion: insert_completion compares with the revision of the editor's text, and the
\* document is changed.
ApplyCompletion ==
    LET d == shown["Completion"].doc
    IN  /\ "Completion" \in Kinds
        /\ shown["Completion"] # None
        /\ shown["Completion"].revision = bindings[d].buffer
        /\ Changed(d, {}, [k \in Kinds |-> None])

-----------------------------------------------------------------------------
(* PollLanguage.                                                            *)

Polls == running # None /\ (others \/ server.state \in {"Starting", "Ready"})

\* The runtime drops the process and the coordinator hears of it.
PollFails ==
    /\ running' = None
    /\ IF running.generation = server.generation
       THEN server' = Failed(server) /\ diagnostics' = Without(diagnostics, running.generation)
              /\ Clear
       ELSE UNCHANGED <<server, diagnostics, guards, shown>>
    /\ UNCHANGED <<workspace, bindings, enabled, approved, others, jobs>>

PollStops ==
    LET again == enabled /\ AnyEligible(bindings)
    IN  /\ running' = None
        /\ \/ /\ running.generation # server.generation
              /\ UNCHANGED <<server, diagnostics, guards, shown, jobs>>
           \/ /\ running.generation = server.generation
              /\ again => server.generation < MaxGeneration
              /\ server' = LET stopped == [server EXCEPT !.shutdownPending = FALSE,
                                             !.state = IF enabled THEN "Stopped" ELSE "Disabled"]
                           IN  IF again THEN Discovering(stopped) ELSE stopped
              /\ jobs' = jobs \cup IF again THEN Discovery(Discovering(server)) ELSE {}
              /\ diagnostics' = Without(diagnostics, running.generation)
              /\ Clear
        /\ UNCHANGED <<workspace, bindings, enabled, approved, others>>

\* The answer to initialize: the documents that are open by now are sent.
InitializeAnswered ==
    /\ Polls
    /\ running.alive
    /\ running.client = "Starting"
    /\ LET ready == [running EXCEPT !.client = "Ready"]
           mine == running.generation = server.generation /\ server.state = "Starting"
           open == SetToSeq({d \in Docs : Eligible(bindings, d)})
           opens == [i \in DOMAIN open |-> Effect("Open", open[i], bindings[open[i]].revision)]
           so == FoldLeft(Apply, [ok |-> TRUE, p |-> ready], IF mine THEN opens ELSE <<>>)
       IN  /\ running' = so.p
           /\ server' = IF mine THEN [server EXCEPT !.state = "Ready"] ELSE server
    /\ UNCHANGED <<workspace, bindings, enabled, approved, diagnostics, guards, shown, others, jobs>>

\* An error for an answer, a timeout of initialize, a broken stream, or the exit of a
\* server that was not asked to.
ServerFails ==
    /\ Polls
    /\ \/ running.client = "Starting"
       \/ ~running.alive /\ (running.shutdown \/ running.client # "Stopping")
       \/ running.alive /\ running.client = "Ready"
    /\ PollFails

\* A shutdown is answered, and exit sent; the exit itself comes with a later poll, or the
\* shutdown times out and the process is killed.
ShutdownAnswered ==
    /\ Polls
    /\ running.alive
    /\ running.shutdown
    /\ running' = [running EXCEPT !.shutdown = FALSE]
    /\ UNCHANGED <<coordinator, others, jobs>>

ServerStops ==
    /\ Polls
    /\ running.client = "Stopping"
    /\ running.shutdown \/ ~running.alive
    /\ PollStops

\* The idle deadline passes.
IdleShutdown ==
    /\ Polls
    /\ running.client = "Ready"
    /\ running.idle
    /\ running.alive
    /\ running' = [ShuttingDown(running) EXCEPT !.idle = FALSE]
    /\ UNCHANGED <<coordinator, others, jobs>>

\* flush_changes: the delay of a change has passed.
FlushChanges(d) ==
    /\ Polls
    /\ running.changes[d] # 0
    /\ running.alive
    /\ running' = [running EXCEPT !.view[d] = running.changes[d], !.changes[d] = 0]
    /\ UNCHANGED <<coordinator, others, jobs>>

\* accept_feature_response of the coordinator.
Accepts(g, r) ==
    /\ bindings[g.doc] # None
    /\ g.generation = running.generation
    /\ g.revision = bindings[g.doc].revision
    /\ g.kind = r.kind

FeatureResponse(r) ==
    /\ Polls
    /\ running.alive
    /\ r \in running.features
    /\ running' = [running EXCEPT !.features = @ \ {r}, !.requests = @ \ {r}]
    /\ LET current == r \in running.requests /\ running.client = "Ready"
                        /\ running.opened[r.doc] = r.revision
           asked == {g \in guards : g.id = r.id}
       IN  IF current /\ asked # {}
           THEN LET g == CHOOSE g \in asked : TRUE
                IN  /\ guards' = guards \ asked
                    /\ shown' = IF Accepts(g, r)
                                THEN [shown EXCEPT ![r.kind] =
                                        [doc |-> g.doc, revision |-> g.revision]]
                                ELSE shown
           ELSE UNCHANGED <<guards, shown>>
    /\ UNCHANGED <<workspace, bindings, server, enabled, approved, diagnostics, others, jobs>>

RequestTimedOut(r) ==
    /\ Polls
    /\ r \in running.requests
    /\ running' = [running EXCEPT !.features = @ \ {r}, !.requests = @ \ {r}]
    /\ guards' = {g \in guards : g.id # r.id}
    /\ UNCHANGED <<workspace, bindings, server, enabled, approved, diagnostics, shown, others, jobs>>

\* publish_diagnostics, for the version the server has of the document or for no version.
PublishDiagnostics(d, versioned, some) ==
    /\ Polls
    /\ running.alive
    /\ running.client \in {"Ready", "Stopping"}
    /\ server.state = "Ready"
    /\ running.generation = server.generation
    /\ Eligible(bindings, d)
    /\ versioned => running.view[d] = bindings[d].revision
    /\ diagnostics' = [diagnostics EXCEPT ![d] = IF some THEN server.generation ELSE None]
    /\ diagnostics' # diagnostics
    /\ UNCHANGED <<workspace, bindings, server, enabled, approved, guards, shown, running, others,
                   jobs>>

ServerDies ==
    /\ running # None
    /\ running.alive
    /\ running' = [running EXCEPT !.alive = FALSE]
    /\ UNCHANGED <<coordinator, others, jobs>>

\* The server of another language starts or stops.
OthersChange ==
    /\ others' = ~others
    /\ UNCHANGED <<coordinator, running, jobs>>

-----------------------------------------------------------------------------
DocumentSteps(d) ==
    \/ \E eligible \in BOOLEAN : OpenDocument(d, eligible)
    \/ EditDocument(d)
    \/ ReplaceText(d)
    \/ SaveDocument(d)
    \/ CloseDocument(d)
    \/ SetLanguageOverride(d)
    \/ \E kind \in Kinds : RequestLanguageFeature(d, kind)

UserSteps ==
    \/ ApproveLanguage
    \/ DenyLanguage
    \/ RetryLanguage
    \/ EnableLanguage
    \/ DisableLanguage
    \/ RestartLanguage
    \/ DismissLanguageFeatures
    \/ ApplyCompletion
    \/ WorkspaceOpened

PollSteps ==
    \/ InitializeAnswered
    \/ ServerFails
    \/ ShutdownAnswered
    \/ ServerStops
    \/ IdleShutdown
    \/ \E d \in Docs : FlushChanges(d)
    \/ \E d \in Docs, versioned, some \in BOOLEAN : PublishDiagnostics(d, versioned, some)
    \/ running # None /\ \E r \in running.features : FeatureResponse(r) \/ RequestTimedOut(r)

LanguageNext ==
    \/ \E d \in Docs : DocumentSteps(d)
    \/ UserSteps
    \/ \E job \in jobs : RunJob(job) \/ LanguageDiscovered(job) \/ LanguageStarted(job)
    \/ PollSteps
    \/ ServerDies
    \/ OthersChange

LanguageSpec == LanguageInit /\ [][LanguageNext]_languageVars

-----------------------------------------------------------------------------
LanguageTypeOK ==
    /\ server.state \in ServerStates
    /\ server.generation \in 0..MaxGeneration
    /\ \A d \in Docs : bindings[d] # None =>
         bindings[d].revision \in 1..bindings[d].buffer /\ bindings[d].buffer \in 1..MaxRevision
    /\ running # None => running.client \in {"Starting", "Ready", "Stopping"}

\* A server that is ready has the text of every document of its language, or a change with
\* it waits to be sent, and it has no other document: whatever was opened, edited, closed
\* or given another language while the server was being found, started or restarted.  Of a
\* document that was reloaded, recovered or taken from the disk the claim is made again after
\* its next edit, as the server is not told of these (app.rs, ReplaceText).
ServerHasText ==
    (/\ server.state = "Ready"
     /\ enabled
     /\ running # None
     /\ running.generation = server.generation
     /\ running.client = "Ready"
     /\ running.alive)
      => \A d \in Docs :
           /\ Eligible(bindings, d) /\ ~bindings[d].replaced =>
                bindings[d].buffer = IF running.changes[d] # 0 THEN running.changes[d]
                                     ELSE running.view[d]
           /\ ~Eligible(bindings, d) => running.view[d] = 0 /\ running.changes[d] = 0

\* What a completion, a hover or a definition shows was asked for the revision that the text
\* on the screen has: an answer that arrives after an edit, a close, a restart or another
\* request is not shown.  The revision is what the desktop asked for, not what the server
\* computed the answer from, which may be older (LanguageStream, AppliedIsOfText); a text
\* that was replaced without the coordinator is excepted as above.
ShownIsCurrent ==
    \A k \in Kinds :
      shown[k] # None =>
        LET b == bindings[shown[k].doc] IN
        b # None /\ (b.replaced \/ b.buffer = shown[k].revision)

\* Problems are of an open document of the language and of the server that is ready: no
\* server leaves any behind when it fails, stops or is disabled, and no late publication
\* brings them back.
ProblemsAreOfServer ==
    \A d \in Docs :
      diagnostics[d] # None =>
        /\ Eligible(bindings, d)
        /\ server.state = "Ready"
        /\ diagnostics[d] = server.generation
=============================================================================
