---------------------------- MODULE MCWorkbench ----------------------------
(***************************************************************************)
(* What the desktop does with services and hosts: the catalog of sessions  *)
(* and the surface that shows it, the language servers and the stream to   *)
(* one of them, and a remote host, with its helper's installation, link,   *)
(* processes and tmux, and the records of connections. The parts keep      *)
(* their state apart, so each is checked on behaviours in which it alone   *)
(* acts: the first state chooses the part.                                 *)
(***************************************************************************)
EXTENDS CatalogMutations, TLC

CONSTANTS
    Nothing,
    SurfaceGenerations, SurfaceTurns,
    Docs, Kinds, StreamDocs, StreamKinds, MaxRevision, MaxRequests,
    OutboundLimit, RequestLimit, RestartDelays, ChannelChunks, MaxIds, MaxInbox,
    Hosts, Texts, Invalid, Commands, MaxConnections, MaxTasks, MaxChanges,
    Targets, PaneSizes, MaxOutput, MaxChunks, MaxPaneIds, MaxTurns,
    MaxProcesses, DrainChunks, DrainLimit, OutputLimit, MaxChunkBytes, MaxBytes, MaxProcessJobs,
    Installers, Absent,
    Tasks, Nobody, ClientLimit, HelperLimit, Sizes, MaxLinks, MaxLinkRequests,
    Connections, Unreadable, DocumentLimit, MaxJobs, MaxStarts

VARIABLES
    part,
    status, connection, busy, alias, hostLabel, files, document, results, consent, command,
    artifact, runtime, tasks, remoteFile, changes,
    workspace, bindings, server, enabled, approved, diagnostics, guards, shown, running,
    others, jobs,
    state, generation, ids, pendingId, idle, features, documents, edits, requests, dropped, crashes,
    outbound, alive, inbox, texts, pipe, chunks, buffer, wrote, received,
    provider, kept, revision, given, inventory, selection, confirmation, asked, due,
    surfaceTurns,
    tmuxServer, attached, discovered, projection, nextId, tmuxShown, request, child, reader,
    answer, sent, turns,
    procs, langs, nextProcess, job, ended, processJobs,
    desktop, result, streamed, script, staged, target,
    link, held, sessions, awaited, task,
    recordFile, recordBackup, listed, loading, recordJobs, begun, starts, replaced, forgotten

\* The surface with one session identifier less to give: requests, not mutations, matter here.
Surface == INSTANCE SessionSurface
             WITH PaneIds <- {1, 2, 3}, MaxPanes <- 2, MaxGeneration <- SurfaceGenerations,
                  MaxTurns <- SurfaceTurns, shown <- inventory, turns <- surfaceTurns
\* A server that is started twice in one workspace, with a document that is replaced and edited
\* after that, and one server for each of two workspaces, asked for two kinds of answer.
Language == INSTANCE LanguageServers
              WITH None <- Nothing, Kinds <- {"Completion"}, MaxGeneration <- 2,
                   MaxWorkspaces <- 1, MaxRevision <- 3
Moved == INSTANCE LanguageServers
           WITH None <- Nothing, MaxGeneration <- 1, MaxWorkspaces <- 2
Stream == INSTANCE LanguageStream
            WITH Docs <- StreamDocs, Kinds <- StreamKinds, changes <- edits
Remote == INSTANCE RemoteWorkspace WITH None <- Nothing, MaxGeneration <- MaxConnections
Tmux == INSTANCE TmuxBridge
          WITH None <- Nothing, MaxIds <- MaxPaneIds, server <- tmuxServer, shown <- tmuxShown
Processes == INSTANCE RemoteTasks
               WITH None <- Nothing, MaxChunks <- DrainChunks, MaxDrainBytes <- DrainLimit,
                    MaxJobs <- MaxProcessJobs, nextId <- nextProcess, jobs <- processJobs
Install == INSTANCE HelperInstall
Link == INSTANCE HelperLink
Records == INSTANCE RemoteRecords WITH jobs <- recordJobs

-----------------------------------------------------------------------------
remotePart ==
    <<status, connection, busy, alias, hostLabel, files, document, results, consent, command,
      artifact, runtime, tasks, remoteFile, changes>>
languagePart ==
    <<workspace, bindings, server, enabled, approved, diagnostics, guards, shown, running,
      others, jobs>>
streamPart ==
    <<state, generation, ids, pendingId, idle, features, documents, edits, requests, dropped, crashes,
      outbound, alive, inbox, texts, pipe, chunks, buffer, wrote, received>>
surfacePart ==
    <<provider, kept, revision, given, inventory, selection, confirmation, asked, due,
      surfaceTurns>>
tmuxPart ==
    <<tmuxServer, attached, discovered, projection, nextId, tmuxShown, request, child, reader,
      answer, sent, turns>>
helperPart ==
    <<procs, langs, nextProcess, job, ended, processJobs>>
installPart ==
    <<desktop, result, streamed, script, staged, target>>
linkPart ==
    <<link, held, sessions, awaited, task>>
recordsPart ==
    <<recordFile, recordBackup, listed, loading, recordJobs, begun, starts, replaced, forgotten>>

\* What a part that does not act starts with is one of its initial states.
First(values) == CHOOSE v \in values : TRUE
Idle(name, choice, values) == part # name => choice = First(values)

MCInit ==
    /\ part \in {"catalog", "surface", "language", "moved", "stream", "remote", "tmux",
                "helper", "install", "link", "records"}
    /\ Init
    /\ Surface!SurfaceInit /\ Idle("surface", provider, {"native"})
    /\ IF part = "moved" THEN Moved!LanguageInit ELSE Language!LanguageInit
    /\ Stream!StreamInit
    /\ Remote!RemoteInit /\ Idle("remote", remoteFile, [Hosts -> Remote!Contents])
    /\ Tmux!TmuxInit
    /\ Processes!TasksInit
    /\ Install!InstallInit
    /\ Link!LinkInit
    /\ Records!RecordsInit

CatalogActs ==
    /\ part = "catalog" /\ Next
    /\ UNCHANGED <<part, remotePart, languagePart, streamPart, surfacePart, tmuxPart,
                   helperPart, installPart, linkPart, recordsPart>>
RemoteActs ==
    /\ part = "remote" /\ Remote!RemoteNext
    /\ UNCHANGED <<part, vars, languagePart, streamPart, surfacePart, tmuxPart, helperPart,
                   installPart, linkPart, recordsPart>>
LanguageActs ==
    /\ part = "language" /\ Language!LanguageNext
    /\ UNCHANGED <<part, vars, remotePart, streamPart, surfacePart, tmuxPart, helperPart,
                   installPart, linkPart, recordsPart>>
MovedActs ==
    /\ part = "moved" /\ Moved!LanguageNext
    /\ UNCHANGED <<part, vars, remotePart, streamPart, surfacePart, tmuxPart, helperPart,
                   installPart, linkPart, recordsPart>>
StreamActs ==
    /\ part = "stream" /\ Stream!StreamNext
    /\ UNCHANGED <<part, vars, remotePart, languagePart, surfacePart, tmuxPart, helperPart,
                   installPart, linkPart, recordsPart>>
SurfaceActs ==
    /\ part = "surface" /\ Surface!SurfaceNext
    /\ UNCHANGED <<part, vars, remotePart, languagePart, streamPart, tmuxPart, helperPart,
                   installPart, linkPart, recordsPart>>
TmuxActs ==
    /\ part = "tmux" /\ Tmux!TmuxNext
    /\ UNCHANGED <<part, vars, remotePart, languagePart, streamPart, surfacePart, helperPart,
                   installPart, linkPart, recordsPart>>
ProcessesActs ==
    /\ part = "helper" /\ Processes!TasksNext
    /\ UNCHANGED <<part, vars, remotePart, languagePart, streamPart, surfacePart, tmuxPart,
                   installPart, linkPart, recordsPart>>
InstallActs ==
    /\ part = "install" /\ Install!InstallNext
    /\ UNCHANGED <<part, vars, remotePart, languagePart, streamPart, surfacePart, tmuxPart,
                   helperPart, linkPart, recordsPart>>
LinkActs ==
    /\ part = "link" /\ Link!LinkNext
    /\ UNCHANGED <<part, vars, remotePart, languagePart, streamPart, surfacePart, tmuxPart,
                   helperPart, installPart, recordsPart>>
RecordsActs ==
    /\ part = "records" /\ Records!RecordsNext
    /\ UNCHANGED <<part, vars, remotePart, languagePart, streamPart, surfacePart, tmuxPart,
                   helperPart, installPart, linkPart>>

MCNext ==
    \/ CatalogActs \/ SurfaceActs \/ LanguageActs \/ MovedActs \/ StreamActs \/ RemoteActs
    \/ TmuxActs \/ ProcessesActs \/ InstallActs \/ LinkActs \/ RecordsActs

allVars ==
    <<part, vars, remotePart, languagePart, streamPart, surfacePart, tmuxPart, helperPart,
      installPart, linkPart, recordsPart>>

MCSpec == MCInit /\ [][MCNext]_allVars

-----------------------------------------------------------------------------
(* Properties. Each is a conjunction of properties of the parts' modules,  *)
(* which say there what they are about.                                    *)

\* Every sequence of mutations leaves a catalog that validate accepts, takes no live pane out
\* of it and keeps the panes of a window in their order (strukt-session, catalog.rs).
CatalogIsSound ==
    /\ LiveIsNeverRemoved
    /\ OrderIsKept
    /\ [](part = "catalog" => TypeOK /\ AlwaysValid)

\* A request of the session surface ends processes only if it was confirmed, and only those the
\* desktop showed as running when it was made; the selection is one pane of the inventory that
\* is shown (session.rs, app.rs).
EndsAreConfirmed ==
    /\ Surface!EndsAreConfirmed
    /\ [](part = "surface" => Surface!SurfaceTypeOK /\ Surface!SelectionIsShown)

\* A ready language server has, or is being told, the text of every open document, but of one
\* that was replaced since its last edit or whose change the full queue dropped; an answer that
\* is shown was asked for the revision on the screen, which is not to say that the server had
\* that text by then (AppliedIsOfText); problems are of the server that runs; and the frames to
\* and from it are neither lost nor reordered (language.rs, client.rs).
LanguageIsCurrent ==
    /\ part = "language" =>
         /\ Language!LanguageTypeOK
         /\ Language!ServerHasText /\ Language!ShownIsCurrent /\ Language!ProblemsAreOfServer
    /\ part = "moved" =>
         /\ Moved!LanguageTypeOK
         /\ Moved!ServerHasText /\ Moved!ShownIsCurrent /\ Moved!ProblemsAreOfServer
    /\ part = "stream" =>
         /\ Stream!StreamTypeOK
         /\ Stream!FramesInOrder /\ Stream!RequestsAreCurrent /\ Stream!ServerIsTold

\* The files, the document and the runtime are of the connection there is, and results come in
\* from no other; the command that is confirmed is the one that was reviewed; frames and input
\* belong to the request and the tmux pane they are for; the output of a task comes in order.
\* Results that are kept from an earlier connection, and a consent given on one, are not claimed
\* about (strukt-app, remote.rs; strukt-remote, tmux.rs, helper.rs, process.rs).
RemoteIsCurrent ==
    /\ part = "remote" =>
         Remote!RemoteTypeOK /\ Remote!ShownIsOfConnection /\ Remote!ReviewedIsRun
    /\ part = "tmux" => Tmux!TmuxTypeOK /\ Tmux!InputGoesToShown /\ Tmux!AcceptedIsWhole
    /\ part = "link" => Link!LinkTypeOK /\ Link!AnswersInStep
    /\ part = "helper" => Processes!TasksTypeOK /\ Processes!TaskOutputInOrder

\* No ssh and no remote language server is left running with nobody to end it, however a
\* handshake, an exchange or a diagnosis ended (remote_client.rs, helper.rs).
NothingIsLeftRunning ==
    /\ part = "link" => Link!NothingIsLeftRunning
    /\ part = "helper" => Processes!ServersAreReleased

\* The helper that is in place is whole, and a saved record of connections always has a valid
\* one to fall back on, wherever an installation or a save was cut off (install.rs,
\* remote_store.rs).
StoredIsWhole ==
    /\ part = "install" => Install!InstallTypeOK /\ Install!InstalledIsWhole
    /\ part = "records" => Records!RecordsTypeOK /\ Records!BackupIsValid
=============================================================================
