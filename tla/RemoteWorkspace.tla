-------------------------- MODULE RemoteWorkspace --------------------------
(***************************************************************************)
(* The SSH workspace of the desktop: RemoteSurfaces and RemoteRuntime of   *)
(* crates/strukt-app/src/remote.rs, the messages of app.rs that drive      *)
(* them and what the helper answers (crates/strukt-remote/src/helper.rs and *)
(* filesystem.rs).                                                         *)
(*                                                                         *)
(* Every operation runs on a task that holds the runtime of the connection *)
(* it was asked on and answers with the generation of that time.  One file *)
(* stands for the files of a host; its revision is its contents.           *)
(***************************************************************************)
EXTENDS Naturals, FiniteSets

CONSTANTS
    None,
    Hosts,         \* host aliases
    Texts,         \* contents that are UTF-8 text
    Invalid,       \* contents that are not
    Commands,      \* exact commands of a task
    MaxGeneration, \* bound: connections
    MaxTasks,      \* bound: tasks at the same time, those that connect not counted
    MaxChanges     \* bound: changes of a file by others

VARIABLES
    status,
    connection,  \* generation
    busy,        \* operation_in_flight
    alias,       \* alias_input
    hostLabel,
    files,       \* the connection the file list is of
    document,
    results,     \* the host and the connection the search, Git, task and language results
                 \* came from.  `under` records for the properties which connection there was
                 \* when they came in
    consent,     \* task_consent
    command,     \* task_executable and task_arguments_json
    artifact,    \* pending_artifact, install_consent
    runtime,     \* remote_runtime
    tasks,       \* tasks that have not been answered
    remoteFile,  \* the file on each host
    changes      \* changes of it by others so far

ui == <<status, connection, busy, hostLabel, files, document, results, consent, artifact, runtime>>
disk == <<remoteFile, changes>>
remoteVars == <<ui, alias, command, tasks, disk>>

RemoteStatuses == {"Disconnected", "Connecting", "Ready", "TerminalOnly", "Stale"}
Contents == Texts \cup {Invalid}

RemoteInit ==
    /\ status = "Disconnected"
    /\ connection = 0
    /\ busy = FALSE
    /\ alias = None
    /\ hostLabel = None
    /\ files = None
    /\ document = None
    /\ results = None
    /\ consent = None
    /\ command = None
    /\ artifact = FALSE
    /\ runtime = None
    /\ remoteFile \in [Hosts -> Contents]
    /\ changes = 0
    /\ tasks = {}

-----------------------------------------------------------------------------
(* Tasks.  A task holds its runtime; the helper answers it or fails.        *)

CanRun == Cardinality({task \in tasks : task.kind # "connect"}) < MaxTasks
Done(task) == task.result # None
Answer(task, result) == (tasks \ {task}) \cup {[task EXCEPT !.result = result]}

Operation(kind) ==
    [kind |-> kind, generation |-> connection, host |-> runtime.host, result |-> None]
Opening ==
    [kind |-> "open", generation |-> connection, host |-> runtime.host, result |-> None,
     revision |-> None]
Saving ==
    [kind |-> "save", generation |-> connection, host |-> runtime.host, result |-> None,
     revision |-> document.revision, text |-> document.text]

\* begin_operation, and the early return of a handler that then finds nothing to work on:
\* the flag stays.
Begins == status = "Ready" /\ ~busy
Starts(new) ==
    /\ Begins
    /\ CanRun
    /\ busy' = TRUE
    /\ tasks' = tasks \cup new
    /\ UNCHANGED <<status, connection, alias, hostLabel, files, document, results, command,
                   artifact, runtime, disk>>

\* RemoteRuntime::connect, the requests of RemoteRuntime, execute_helper_install.
RunSimple(task) ==
    /\ task.kind \in {"connect", "list", "query", "task", "install"}
    /\ ~Done(task)
    /\ \E result \in {"ok", "failed"} : tasks' = Answer(task, result)
    /\ UNCHANGED <<ui, alias, command, disk>>

\* read_document asks for the metadata and then for the bytes.  The helper calls the kinds
\* of a document text, truncatedtext, binary and invalidutf8; the application goes on
\* with a kind that contains utf8.
Stat(task) ==
    /\ task.kind = "open"
    /\ ~Done(task)
    /\ task.revision = None
    /\ tasks' = IF remoteFile[task.host] = Invalid
                THEN (tasks \ {task}) \cup {[task EXCEPT !.revision = Invalid]}
                ELSE Answer(task, "failed")
    /\ UNCHANGED <<ui, alias, command, disk>>

ReadFile(task) ==
    /\ task.kind = "open"
    /\ ~Done(task)
    /\ task.revision # None
    /\ \E result \in {IF remoteFile[task.host] \in Texts THEN remoteFile[task.host]
                      ELSE "failed", "failed"} : tasks' = Answer(task, result)
    /\ UNCHANGED <<ui, alias, command, disk>>

\* WriteFile replaces the file only if it still has the revision that is expected.  The
\* answer may be lost after the file was written.
WriteFile(task) ==
    /\ task.kind = "save"
    /\ ~Done(task)
    /\ \/ /\ remoteFile[task.host] = task.revision
          /\ remoteFile' = [remoteFile EXCEPT ![task.host] = task.text]
          /\ \E result \in {"ok", "failed"} : tasks' = Answer(task, result)
       \/ tasks' = Answer(task, "failed") /\ UNCHANGED remoteFile
    /\ UNCHANGED <<ui, alias, command, changes>>

\* Another program changes the file on the host.
RemoteChange(host, contents) ==
    /\ changes < MaxChanges
    /\ remoteFile[host] # contents
    /\ remoteFile' = [remoteFile EXCEPT ![host] = contents]
    /\ changes' = changes + 1
    /\ UNCHANGED <<ui, alias, command, tasks>>

-----------------------------------------------------------------------------
(* Messages of the user.                                                    *)

AliasChanged(host) ==
    /\ alias # host
    /\ alias' = host
    /\ UNCHANGED <<ui, command, tasks, disk>>

\* begin_connect: what belongs to the last connection goes, but for its results, its
\* consent and its flag.
ConnectTask ==
    [kind |-> "connect", generation |-> connection + 1, host |-> alias, result |-> None]
Connecting ==
    /\ connection' = connection + 1
    /\ status' = "Connecting"
    /\ files' = None
    /\ document' = None

ConnectRemote ==
    /\ alias # None
    /\ connection < MaxGeneration
    /\ Connecting
    /\ tasks' = tasks \cup {ConnectTask}
    /\ UNCHANGED <<busy, alias, hostLabel, results, consent, command, artifact, runtime, disk>>

DisconnectRemote ==
    /\ status \in {"Ready", "TerminalOnly", "Stale"}
    /\ connection < MaxGeneration
    /\ connection' = connection + 1
    /\ status' = "Disconnected"
    /\ busy' = FALSE
    /\ hostLabel' = None
    /\ files' = None
    /\ document' = None
    /\ results' = None
    /\ consent' = None
    /\ runtime' = None
    /\ UNCHANGED <<alias, command, artifact, tasks, disk>>

RefreshRemoteFiles == Starts({Operation("list")}) /\ UNCHANGED consent
RunRemoteSearch == Starts({Operation("query")}) /\ UNCHANGED consent
RefreshRemoteGit == Starts({Operation("query")}) /\ UNCHANGED consent
VerifyRemoteLanguage ==
    document # None /\ Starts({Operation("query")}) /\ UNCHANGED consent

OpenRemoteDocument ==
    /\ files # None
    /\ Starts({Opening})
    /\ UNCHANGED consent

\* edit_document: any action of the editor, the movement of its cursor too.
RemoteDocumentAction(text) ==
    /\ document # None
    /\ document' = [document EXCEPT !.text = text, !.dirty = TRUE]
    /\ UNCHANGED <<status, connection, busy, alias, hostLabel, files, results, consent, command,
                   artifact, runtime, tasks, disk>>

SaveRemoteDocument ==
    /\ document # None
    /\ document.dirty
    /\ Starts({Saving})
    /\ UNCHANGED consent

\* RemoteTaskExecutableChanged, RemoteTaskArgumentsChanged.
TaskChanged(new) ==
    /\ command # new
    /\ command' = new
    /\ consent' = None
    /\ UNCHANGED <<status, connection, busy, alias, hostLabel, files, document, results, artifact,
                   runtime, tasks, disk>>

\* prepare_task; the capabilities are those of the last connection.
ReviewRemoteTask ==
    /\ hostLabel # None
    /\ command # None
    /\ consent = None
    /\ consent' = [generation |-> connection, command |-> command]
    /\ UNCHANGED <<status, connection, busy, alias, hostLabel, files, document, results, command,
                   artifact, runtime, tasks, disk>>

ConfirmRemoteTask ==
    /\ consent # None
    /\ Starts({Operation("task")})
    /\ consent' = None

CancelRemoteTask ==
    /\ consent # None
    /\ consent' = None
    /\ UNCHANGED <<status, connection, busy, alias, hostLabel, files, document, results, command,
                   artifact, runtime, tasks, disk>>

\* RemoteHelperPicked and CancelRemoteHelperInstall.
Pick(chosen) ==
    /\ artifact # chosen
    /\ artifact' = chosen
    /\ UNCHANGED <<status, connection, busy, alias, hostLabel, files, document, results, consent,
                   command, runtime, tasks, disk>>

\* begin_install takes the artifact even if there is no alias to install it on, and does
\* not ask whether an operation is in flight.
ConfirmRemoteHelperInstall ==
    /\ artifact
    /\ artifact' = FALSE
    /\ \/ alias = None /\ UNCHANGED <<busy, tasks>>
       \/ /\ alias # None
          /\ CanRun
          /\ busy' = TRUE
          /\ tasks' = tasks \cup {[kind |-> "install", result |-> None]}
    /\ UNCHANGED <<status, connection, alias, hostLabel, files, document, results, consent,
                   command, runtime, disk>>

-----------------------------------------------------------------------------
(* Answers.                                                                 *)

\* Faulty variant: whatever answers is applied.
IsCurrentAny(task) == TRUE
\* An answer of another generation changes nothing.
IsCurrent(task) == task.generation = connection

RemoteConnected(task) ==
    /\ task.kind = "connect"
    /\ Done(task)
    /\ tasks' = tasks \ {task}
    /\ \/ ~IsCurrent(task) /\ UNCHANGED <<status, hostLabel, runtime>>
       \/ /\ IsCurrent(task)
          /\ task.result = "failed"
          /\ status' = "TerminalOnly"
          /\ hostLabel' = alias
          /\ runtime' = None
       \/ /\ IsCurrent(task)
          /\ task.result = "ok"
          /\ status' = "Ready"
          /\ hostLabel' = task.host
          /\ runtime' = [host |-> task.host, generation |-> task.generation]
    /\ UNCHANGED <<connection, busy, alias, files, document, results, consent, command, artifact,
                   disk>>

RemoteFilesFinished(task) ==
    /\ task.kind = "list"
    /\ Done(task)
    /\ tasks' = tasks \ {task}
    /\ busy' = (busy /\ ~IsCurrent(task))
    /\ files' = IF IsCurrent(task) /\ task.result = "ok"
                THEN [host |-> task.host, generation |-> task.generation] ELSE files
    /\ status' = IF IsCurrent(task) /\ task.result = "failed" THEN "Stale" ELSE status
    /\ UNCHANGED <<connection, alias, hostLabel, document, results, consent, command, artifact,
                   runtime, disk>>

RemoteDocumentFinished(task) ==
    /\ task.kind = "open"
    /\ Done(task)
    /\ tasks' = tasks \ {task}
    /\ busy' = (busy /\ ~IsCurrent(task))
    /\ document' = IF IsCurrent(task) /\ task.result # "failed"
                   THEN [host |-> task.host, generation |-> task.generation,
                         text |-> task.result, revision |-> task.revision, dirty |-> FALSE]
                   ELSE document
    /\ UNCHANGED <<status, connection, alias, hostLabel, files, results, consent, command,
                   artifact, runtime, disk>>

\* finish_save marks the document clean whatever was typed while it was saved.
RemoteSaveFinished(task) ==
    /\ task.kind = "save"
    /\ Done(task)
    /\ tasks' = tasks \ {task}
    /\ busy' = (busy /\ ~IsCurrent(task))
    /\ document' = IF IsCurrent(task) /\ task.result = "ok" /\ document # None
                   THEN [document EXCEPT !.revision = task.text, !.dirty = FALSE] ELSE document
    /\ UNCHANGED <<status, connection, alias, hostLabel, files, results, consent, command,
                   artifact, runtime, disk>>

\* finish_search, finish_git, finish_language and finish_task.
RemoteResultFinished(task) ==
    /\ task.kind \in {"query", "task"}
    /\ Done(task)
    /\ tasks' = tasks \ {task}
    /\ busy' = (busy /\ ~IsCurrent(task))
    /\ results' = IF IsCurrent(task) /\ task.result = "ok"
                  THEN [host |-> task.host, generation |-> task.generation, under |-> connection]
                  ELSE results
    /\ consent' = IF IsCurrent(task) /\ task.kind = "task" THEN None ELSE consent
    /\ UNCHANGED <<status, connection, alias, hostLabel, files, document, command, artifact,
                   runtime, disk>>

\* finish_install; an installation posts a ConnectRemote of its own.
RemoteHelperInstalled(task) ==
    /\ task.kind = "install"
    /\ Done(task)
    /\ busy' = FALSE
    /\ \/ /\ task.result = "failed"
          /\ tasks' = tasks \ {task}
          /\ UNCHANGED status
       \/ /\ task.result = "ok"
          /\ tasks' = (tasks \ {task}) \cup {[kind |-> "posted", result |-> "ok"]}
          /\ status' = "Disconnected"
    /\ UNCHANGED <<connection, alias, hostLabel, files, document, results, consent, command,
                   artifact, runtime, disk>>

ConnectPosted(task) ==
    /\ task.kind = "posted"
    /\ connection < MaxGeneration
    /\ Connecting
    /\ tasks' = (tasks \ {task}) \cup {ConnectTask}
    /\ UNCHANGED <<busy, alias, hostLabel, results, consent, command, artifact, runtime, disk>>

-----------------------------------------------------------------------------
RemoteMessages ==
    \/ \E host \in Hosts : AliasChanged(host)
    \/ ConnectRemote
    \/ DisconnectRemote
    \/ RefreshRemoteFiles
    \/ OpenRemoteDocument
    \/ \E text \in Texts : RemoteDocumentAction(text)
    \/ SaveRemoteDocument
    \/ RunRemoteSearch
    \/ RefreshRemoteGit
    \/ VerifyRemoteLanguage
    \/ \E new \in Commands : TaskChanged(new)
    \/ ReviewRemoteTask
    \/ ConfirmRemoteTask
    \/ CancelRemoteTask
    \/ \E chosen \in BOOLEAN : Pick(chosen)
    \/ ConfirmRemoteHelperInstall

RemoteWork(task) ==
    \/ RunSimple(task)
    \/ Stat(task)
    \/ ReadFile(task)
    \/ WriteFile(task)

RemoteAnswers(task) ==
    \/ RemoteConnected(task)
    \/ RemoteFilesFinished(task)
    \/ RemoteDocumentFinished(task)
    \/ RemoteSaveFinished(task)
    \/ RemoteResultFinished(task)
    \/ RemoteHelperInstalled(task)
    \/ ConnectPosted(task)

RemoteNext ==
    \/ RemoteMessages
    \/ \E task \in tasks : RemoteWork(task) \/ RemoteAnswers(task)
    \/ \E host \in Hosts, contents \in Contents : RemoteChange(host, contents)

RemoteSpec == RemoteInit /\ [][RemoteNext]_remoteVars

-----------------------------------------------------------------------------
RemoteTypeOK ==
    /\ status \in RemoteStatuses
    /\ connection \in 0..MaxGeneration
    /\ remoteFile \in [Hosts -> Contents]
    /\ document # None => document.text \in Texts /\ document.revision \in Contents

\* A list, a document or a runtime of an earlier connection, however late it arrives, is
\* never shown or used under a later one, and an operation is asked of the host on the label.
\* Results come in only from the connection there is then, and while it lasts they are of the
\* host on the label.  begin_connect keeps the results and the consent of the connection
\* before: of those nothing is claimed here (ApprovalIsOfConnection is violated).
ShownIsOfConnection ==
    /\ files # None => files.generation = connection /\ files.host = hostLabel
    /\ document # None => document.generation = connection /\ document.host = hostLabel
    /\ status = "Ready" => runtime.generation = connection /\ runtime.host = hostLabel
    /\ results # None =>
         /\ results.generation = results.under
         /\ results.under = connection => results.host = hostLabel

\* The command that a confirmation runs is the command that was reviewed, though command
\* and review are kept apart and an answer to an earlier task takes the review away.
ReviewedIsRun == consent # None => consent.command = command

\* docs/specs/0008-m4-ssh-remote-workspace.md:420: "Scope command approvals to exact
\* remote connection, root, executable, arguments, and environment."
ApprovalIsOfConnection ==
    consent # None /\ status = "Ready" => consent.generation = connection
=============================================================================
