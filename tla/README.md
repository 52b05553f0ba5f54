# TLA+ models of strukt

`strukt` is a native development workspace written in Rust: a desktop application,
a local session service that keeps terminals alive when the desktop is closed, and
remote, language and editor services around them. This directory holds models of
its core logic in TLA+, the TLC configurations that check them on small instances,
and proofs of the main results for every value of the constants.

The models follow the source under `src/crates/`. Each action stands for a whole
handler: its guard is the handler's conditions and early returns, and its primed
variables are the handler's assignments. `PROJECT.json` maps every definition to
the lines it stands for.

## The system

| Part | State it keeps | Operations | Hard behaviour |
|---|---|---|---|
| PTY output channel (`strukt-terminal/portable.rs`) | byte budget, bounded channel, flags, child | read, reserve, send; poll, release; drop | a thread and a poller share a mutex, a condition variable and two atomics |
| Terminal runtime (`runtime.rs`) | panes with generation, state, process, output | prepare, restart, drain, terminate, close | jobs complete after the pane has moved on; a noisy pane must not starve the others |
| Terminal screen (`grid.rs`, `parser.rs`) | two screens, history, cursor, saved cursor, modes | print, erase, insert, scroll, resize | wide characters cut in two, sizes that change |
| Terminal layout (`layout.rs`, app `terminal.rs`) | tabs, splits, focus, a copy of each pane's state | split, close, focus, save, restore | copies of one fact |
| Session catalog (`strukt-session/catalog.rs`) | sessions, windows, split trees, panes | 20 mutations | long sequences of legal calls; limits at several levels |
| Session service (`service.rs`, `strukt-sessiond.rs`) | catalog, runtime, histories, controlling client | requests, tick, save, exit | connections compete, peers vanish, saves fail, the service crashes |
| Rendezvous, store (`rendezvous.rs`, `auth.rs`, `endpoint.rs`, `store.rs`) | lock, secret, record, two files | acquire, publish, discover, clear; save, load | a service that ends while another starts; a crash between two writes |
| Session client and surface (`client.rs`, app `session.rs`) | connection, request in flight, catalog, screens, selection | connect, request, answer, disconnect, start, terminate, remove | an inventory older than the service; answers of old connections |
| Editor (`strukt-editor`, `strukt-fs/document.rs`) | buffer, history, saved and disk revisions, recovery record | open, edit, undo, save, observe, close, recover | a save racing an edit, other programs that write the file |
| Workspace files (`app.rs`, `watcher.rs`, `discovery.rs`, `search.rs`, `operations.rs`) | listing, scan, search, generations, pending saves, dialog | refresh, search, open a workspace, create, rename, copy, delete | results that overtake each other; folders that change between two steps |
| Shell (`strukt-shell`) | canvas, sidebar, drawer, command center, key focus | select, promote, demote, persist | who gets the keys |
| Language (`strukt-language`, app `language.rs`) | servers, documents, pending changes, requests, diagnostics | discover, start, change, ask, stop | late answers, a server that dies, a bounded queue |
| Remote (`strukt-remote`, app `remote.rs`) | connection, files, tasks, tmux, helper tables, records | connect, install, list, save, run, attach | partial failure, former connections, identities used again |

The desktop is one message loop: handlers change the state of the parts and start
jobs on worker threads, whose completions come back as messages. The desktop runs a
terminal runtime of its own and asks the session service for persistent sessions
over an authenticated local connection; a remote host is reached through a helper
behind `ssh`, which has a request loop with workers, process tables, and a session
client of its own. Terminal runtimes start and end children through the PTY adapter,
whose reader thread fills the channel that the drain empties.

What makes each part correct: bytes are neither dropped nor reordered; every child
has one owner who will end it; no pane starves; a catalog is always valid and never
loses a live pane; what was acknowledged or saved survives; what is shown is of the
workspace, connection and text it is shown for; no step overwrites or loses the
user's or another program's work; and who waits for an answer gets one.

## The modules

| Module | Models | Checked by |
|---|---|---|
| `OutputChannel`, `_proofs` | `spawn_reader`, `QueueBudget`, `PortableProcess` | `MCOutputChannel`, tlapm |
| `TerminalPane` | one pane's turn in a drain, as operators | through its users |
| `TerminalRuntime`, `_proofs` | the desktop's runtime with its jobs | `MCTerminalRuntime`, tlapm |
| `SessionCatalog` | catalog mutations as relations between catalogs; tabs planned as a catalog to import | through its users |
| `CatalogRequests` | what a client may ask of the catalog, with fresh identifiers | through its users |
| `CatalogMutations` | the catalog as a state machine of these requests | `MCWorkbench` |
| `SessionDaemon`, `_proofs` | the service, its loop and its connections | `MCSessionDaemon`, tlapm |
| `SessionRecord` | abstract: an atomic record with a predecessor | refinement |
| `SessionStore` | its two files | with `ServiceOwnership` |
| `ServiceOwnership` | lock, secret, rendezvous record, handshake, discovery, saves | `MCServices`, tlapm |
| `RemoteHelper` | the helper's request loop | `MCServices`, tlapm |
| `MCServices_proofs` | proofs about the two and about their run | tlapm |
| `SessionClient` | the client's methods, as operators | `DesktopSessions` |
| `DesktopSessions` | the desktop's jobs and the services they ask, local and remote | `MCDesktop`, tlapm |
| `EditorDocuments` | one file, its document, its recovery record and other writers | `MCDesktop`, tlapm |
| `MCDesktop_proofs` | proofs about the two and about their run | tlapm |
| `WorkspaceFiles` | listing, quick open, search, watcher, workspace store, recent list | `MCWorkspace`, tlapm |
| `WorkspaceFiles_proofs` | proofs about it, within the run of all parts | tlapm |
| `ExplorerOperations` | file operations step by step | `MCWorkspace` |
| `ContentSearch` | the walk with ignore rules, limits and cancellation | `MCWorkspace`, tlapm |
| `TerminalLayout`, `Shell` | layout with its copies; surfaces and key focus | `MCWorkspace`, tlapm |
| `TerminalScreen` | grid, parser, scrollback, reflow | `MCWorkspace`, `MCTerminalScreen` |
| `DrainScheduler` | the budget and the cursor of `drain` | `MCWorkspace`, tlapm |
| `MCWorkspace_proofs` | proofs about the layout, the shell, the content search and the drain | tlapm |
| `LanguageServers` | coordinator and runtime of one language | `MCWorkbench`, twice |
| `LanguageStream` | the client, its queues, frames and reader of one server | `MCWorkbench` |
| `RemoteWorkspace` | connections, files, status, reviewed tasks | `MCWorkbench`, tlapm |
| `RemoteTasks` | remote commands and the helper's tables | `MCWorkbench`, tlapm |
| `TmuxBridge` | tmux identities, input, and a command with its output threads | `MCWorkbench`, tlapm |
| `HelperInstall` | the installation script and its stream | `MCWorkbench`, tlapm |
| `HelperLink` | handshake, limits, exchanges, holders of a connection | `MCWorkbench`, tlapm |
| `RemoteRecords` | the saved connections and their jobs | `MCWorkbench`, tlapm |
| `MCWorkbench_proofs` | proofs about the six and about their run | tlapm |
| `SessionSurface` | the session canvas and what its buttons end | `MCWorkbench` |

**Composition.** `CatalogMutations` and `SessionDaemon` both extend `CatalogRequests`:
the first is the catalog alone, the second asks the same of the catalog that it serves,
saves and shows. The catalogs it may be asked to import are those `PlannedCatalogs`
plans from tabs. Its runtime is made of `TerminalPane` values, the operators that
`TerminalRuntime` uses for the desktop. `DesktopSessions` composes the surface, the
jobs, two clients (the desktop's and the helper's, both `SessionClient`) and the
services. `ServiceOwnership` extends `SessionStore`, so a crash falls between the two
writes of a save. `MCDesktop`, `MCServices`, `MCWorkspace` and `MCWorkbench` put parts
that share no state into one run: the first state chooses the part that acts. That is
no composition, and claims none: the parts of the desktop meet only in the message
loop, which handles one message at a time, and where a handler touches two parts, the
module of each part has the effect on it.

**How state corresponds to code.** `OutputChannel`: a program counter for the reader
and one for the owner, since `close` does not take the mutex that `reserve` holds
between its test and its wait. `TerminalPane`: the two 250 ms clocks are `none`,
`fresh` or `old`. `TerminalRuntime`: a child is named by its pane and generation;
`starts` are start jobs and their completions, `stops` processes handed to a worker,
`alive` what the operating system runs; dropping a handle kills its child.
`TerminalLayout`: a split tree is the sequence of its leaves, in the order `collect_panes`
has them.
`SessionCatalog`: a split tree is the set of paths to its leaves. `SessionDaemon`:
`phase` is where the loop is; the save is a step of its own, so that a crash can come
between; any request may be refused, which covers stale revisions and limits. In the
modules of the desktop `jobs` are the tasks in flight with the values they captured,
and an answer is applied by the handler's own comparison with the state it finds.
`EditorDocuments`: a revision of the file is a hash and is represented by the
contents. `ExplorerOperations`: a path is a sequence of names and a folder a function
from paths. `TerminalScreen`: a cell is a character of width one or two, a half, or
blank. `LanguageStream`: a text is its revision, a frame is two halves.

Operators commented as faulty variants are plausible mistakes in the definition that
follows them; `PROJECT.json` names the one that breaks each property, and the others
were found by the same runs.

## The runs

| Run | Instance | Shows |
|---|---|---|
| `output_channel` | 3 slots, 4 bytes, 4 chunks of 1 or 3 bytes | order, exact budget, resumption, delivery, a dropped process leaves no thread stuck in `send` |
| `terminal_runtime` | 1 pane, 4 generations, 3 jobs | custody of the children, held panes shown live, starts settle, abandoned children end |
| `session_daemon` | 2 panes, 2 sessions, 2 connections, 1 start each, imports planned from tabs | the copies agree, acknowledged is saved, rearranging ends nothing |
| `session_daemon_loaded` | 1 pane, 2 generations, 2 connections, oversized screens, failing store | control is released |
| `desktop` | one document, 2 revisions, one other writer, large and small contents, a tab restored from the previous session; one pane, 2 service instances, 1 link, 2 jobs | text that is shown clean is saved, closing loses nothing, a save overwrites no other program's work; the surface can always ask, and until a completion of an earlier client is applied its screens are of the catalog shown |
| `services` | 2 processes, 3 starts, 1 client, 2 records, 1 damage; 3 requests with 2 identifiers, 2 in flight | a serving service is reachable, saves are atomic (refinement), a client arrives; a request is answered once, the helper ends |
| `workspace` | 2 workspaces; 2 folders of small files; 2 rows by 3 columns; 3 entries under the root; 4 panes with a budget for 2 | nothing stale stays shown, the store catches up, surfaces agree, searches say what they skipped, explorer operations are safe, rows stay whole, drains are fair |
| `workbench` | 2 sessions and 4 panes; 1 document, once with 3 revisions and a server that is started twice, once with 2 workspaces and 2 kinds of request; 3 documents over a queue of 2; 2 hosts and 2 connections; 2 installers; 2 connection records and 3 jobs | see the properties of `MCWorkbench` |
| `terminal_runtime_exited`, `session_daemon_outlives`, `editor_preview_saved`, `terminal_screen_panics` | small | *violations*, see below |

**Why the bounds are enough.** The channel needs both limits to be reached and a
sleeping reader to be woken. Panes of the runtime share only the bound on jobs, and
handles name their pane, so one pane shows every interleaving of its jobs; four
generations let a restart overtake a restart whose job still runs, with a close in
between. Four panes and a budget for two make the budget run out half way round. The
catalog's limits are small, so they are hit; depth three lets a closed pane's sibling
be a split. Stale results need a second generation: one later workspace, connection,
server or document overtakes an earlier one, so there are two of each in the part that
tells them apart. A text that is replaced and edited after that needs three revisions; a
change that the queue of the language client drops needs more documents than the queue has
places, three over two. On the remote workspace one operation runs beside the tasks that
connect, of which there may be as many as connections, so that an answer of the first
connection arrives while the second is being made or used; two requests share a link, so
that one could take the other's frame. Three starts let a service end while the next one starts and a
discoverer still remembers the first. Two rows and three columns hold a wide character at
every place, a scroll region, and a resize that cuts it. The file operations need a
folder within a folder and one change from outside between two steps; a copy reads the
tree of its source in one step (`preflight_copy`) and each file in one step, which are
abstractions, and what is added to the source after the first is not in the copy.

The editor starts with what the previous session left: a file or none, a recovery record
or none, and possibly a tab that is restored. A restored tab is explored where it
matters, with the file missing and the read that will find that on its way; with the
file there, opening it is the same as opening it by hand.

`Desktop.cfg` has a constraint, `NotMisapplied`: a connection that is asked for while
another is ready (divergence 5) is explored up to the completion that is misapplied,
not beyond. `SessionsCanAsk` and `ScreensAreOfCatalog` are checked so far only; beyond, the
second is false, as neither `client.rs` nor `session.rs` asks which client a completion is
of.

`RemoteTasks` has one job at a time. `operation_in_flight` keeps a second from being
started, but `finish_install` clears it while one may run; two jobs would share the
helper's tables and their capacity, and nothing that is claimed of a job.

**Deadlock** is not checked: the systems stop by design once a bound is reached.

**Fairness.** The reader thread is scheduled, and its `read` returns once the child
is dead. The owner polls on every tick. The mutex is not withheld for ever from a
thread that asks again and again, hence strong fairness of `Release`. Worker threads
run the jobs they were given. The desktop polls a pane only while some process is
held (`app.rs:5925`), so only `Polled` turns are fair. The service's loop goes on, and
a disconnection is in a first-in first-out channel: strong fairness of
`Disconnected`. A client retries on a timer (`ClientSteps`). The helper's loop and
workers are threads, and what a worker does ends (`RemoteHelper`). The desktop drains
on every tick. Nothing obliges a child to exit, an owner to drop a process, a client
to ask or hang up, a service to start or stay, or a condition variable to wake by
itself.

## What is proved

`TerminalRuntime_proofs`, for any panes and any bounds on generations and jobs:

- `TypeCorrect`: the types, and that generations stay within their bound;
- `NoProcessIsLost`: every running child is installed in a pane, carried by a start
  job as its prior or as its result, or handed to a close job;
- `ProcessHasOneHolder`: these four are disjoint;
- `HeldPaneIsShownLive`: a pane that holds a process is running or backpressured.

None but the first is inductive. A completion that fails leaves the pane `Failed`,
which is right only because the pane cannot hold a process while its own generation's
job is under way; and two holders are excluded only because jobs are never ahead of
their pane, priors are of older generations, and closed panes get no new jobs.
`Custody` says all that, and one lemma per action shows that it is kept.

`OutputChannel_proofs`, for any chunks, bytes and slots:

- `OutputIsInOrder`: the chunks in the channel are numbered from the next one the owner
  expects to the last one the reader counted, and nothing follows the end of the output;
- `BudgetIsExact`: the bytes that are accounted for are those of the chunks in the
  channel and in the hands of the two threads.

The invariant `ChannelInv` numbers the chunks also while the end of the output is on its
way or sent (`Numbered`), and bounds what each thread holds (`InHand`), so that a chunk
that is reserved is one that will fit. The sum over the channel is a function on its
positions, so that appending and removing an event are lemmas about sums, proved from
the least position at which two sums could differ.

`SessionDaemon_proofs`, for any identifiers, limits, clients and turns of the panes, and
all but the first provided that "no record" is none of the records (`NoRecordIsNone`):

- `ControlIsAgreed`: the service, its loop and the connections agree on who controls;
- `CatalogIsTrue`: the catalog that clients see tells the state of every pane;
- `AcknowledgedIsSaved`: what was acknowledged is on disk or about to be;
- `ProcessesSurviveRearranging` (an action property): no request that gives the catalog
  other panes ends a process.

The invariant has four parts. `CatalogInv`: the catalog is valid, the panes of the
runtime are among its panes and shown as they are, and every identifier in it has been
given out, without which a fresh one could be one that is in use. `StoreInv`: the record
on disk is a valid catalog of stopped panes, as what is loaded after a crash becomes the
catalog. `SavedInv`: the two differ only while a save is due. `ControlInv`: the types of
the loop. Each mutation of the catalog has a lemma: valid catalogs stay valid, and the
panes it carries over keep their lifecycle.

`MCDesktop_proofs`, of the editor, for any contents, any number of documents, revisions and
jobs:

- `CleanIsTrue`: a document that is shown clean has the text it was saved with;
- `OthersWorkIsKept`: a save never replaces contents that the user has not seen;
- `ClosedIsSaved`: closing loses nothing, provided that "no document" is none of the
  documents (`NoDocumentIsNone`).

The invariant is `EditorInv == WorldInv /\ DocumentInv /\ JobsInv /\ MatchInv`: the types
of the file and the store; the document, whose history leads from its baseline to its
text; the jobs, each with values that were true when it was started; and, which is what
makes late completions harmless, for every job of the *same* document and revision, that
what it captured is what the document still has (`MatchInv`).

`MCServices_proofs`, for any services, clients and records, under `OwnershipAssumption`
and `StoreAssumption` (absence is none of the values), and for any requests, provided
that the limits are numbers (`LimitsAreNumbers`):

- `ServingServiceIsReachable`: a serving service is named by the record and its secret
  is the one on disk. The invariant adds that a process beyond the lock holds it,
  and that the secret and the record are its own from the step that writes them, so
  that nobody else writes in between and a discoverer, which removes a record only
  when the lock is free, cannot meet a serving process;
- `StoreIsAtomic`: the refinement of `SessionRecord`. It needs `CopyIsMade`: between
  the two writes of a save the copy is the record that is about to be replaced,
  unless that was damaged meanwhile. Then the second write is the abstract `Save`,
  the first is `Settle`, and every other step stutters;
- `HelperAnswersOnce`, and `ServicesAnswerOnce` of the run: the helper answers a request at
  most once, and only requests it has read. A response, a completion on its way and a
  worker exclude each other for the same request (`OnceInv`), which holds because each
  request that is in flight has one token (`TokenInv`) and the places of the input only
  grow (`InputInv`).

`MCWorkbench_proofs`, for any installers, records, tasks, connections, panes and sizes:

- `InstalledHelperIsWhole`: the helper at its final path is whole, provided that "no
  file" is not a file (`AbsentIsNothing`). The invariant says what is staged at each
  line of the script: nothing before `mktemp`, the whole helper or (after a hangup)
  nothing once the checksum was tested;
- `StoredStaysWhole`: that, and that once a save has replaced a valid record of the
  connections the backup is valid, which is inductive as the record is copied only when
  it can be read;
- `ConnectionsStayInStep`: a task reads the answer to what it asked, within the limit it
  reads with, and each connection that is open has somebody to end it. `StreamInv` says
  that an open connection whose helper runs is quiet unless one task reads, and that
  then its request is in one of three places; `LockInv` that this task has the lock.
  The two sides compute the same limit, which is why the first oversized frame is
  refused by who sends it (`LimitIsAgreed`);
- `NothingStaysRunning`: no ssh and no language server is left without somebody to end
  it, in the run of all parts; of commands it says nothing (divergence 7);
- `RemoteStaysCurrent` (`RemoteIsCurrent`): what is shown of a connection is of the one there
  is, but for results and consent that were kept from an earlier one, and frames, input and
  output are of what they are for; provided that the bounds are numbers, a tmux server
  has finitely many panes and "nothing" is no request, size or job. It has one inductive
  invariant for each part. `RemoteInv`: a task of the current connection asks the host on the
  label, and while a connection is being made it is the only task of its generation and no
  results have come in under it, which is what lets the answer of an earlier one be dropped
  and a new host be put on the label. `TmuxInv`: every id below the next one was
  shown for one pane, and what the child of a command wrote is kept, in the pipe or still to
  be written until the bound is exceeded. `TasksInv`: what a command printed is either read,
  put back or queued, as consecutive chunks (`Queued`); a turn of the drain keeps that
  although it cuts a chunk (`TurnSplits`), and so does a whole drain, by induction over its
  turns (`DrainGoesOn`).

`MCDesktop_proofs`, of the sessions, for any finite set of panes and any bounds (`SessionsAssumption`),
provided that "none" is no number, connection, catalog or tag (`NoneIsNothing`):

- `DesktopCanAsk`: a surface that waits has a job that will answer it, and a client that
  is ready and idle holds a connection;
- `DesktopScreens`: until a completion of an earlier client is applied, the screens a client
  keeps are of panes of the catalog it shows, and come from the instance that catalog comes
  from;
- `DesktopTypes`: both parts of the run are well typed.

All three follow from `SessionsHold`. A completion is applied to the client there is when
it arrives, so the invariant has to say that it fits (`AnswersShown`). The client that is
shown is in flight exactly while one job of its era exists (`FlightInv`); that job goes to
the same place over the same link; a request's connection is of the instance that the
client shows. For a remote client the last is true only because the helper is connected
again by nobody else: its client, while it can be asked, is of the same instance
(`LinkInv`), for which no older attempt to connect may still be running over that link. A
screen is answered only for a pane the service has, and a service never gives an
identifier out twice, so that a pane which is asked for and is missing stays missing
(`Gone`): hence the history variable `given`, and fresh identifiers for new panes. This part
is claimed only until a completion of an earlier client is applied, which the code permits
(divergence 5); the types, what the services gave out, and that a surface which waits has
a request under way, hold in every state, beyond the constraint of the run as well.

`MCWorkspace_proofs`, for any folders, listings, panes and bounds:

- `SurfacesKeepAgreeing`, for any activities with the one a shell starts with
  (`ActivitiesAssumption`): the layout is one `validate_snapshot` accepts and the next start
  shows again, every pane shows the state of its runtime, a promoted surface is on the
  canvas, and a closed command center has no focus. `LayoutFits` adds that no pane is in two
  places and that identifiers are below their counters (`TabsFit`), that a pane's runtime
  has a root as long as it holds a process (`PanesFit`), and that what is stored for any
  folder is a snapshot of such a layout, so that opening it again gives one (`StoreFits`);
- `SearchStaysHonest`, for any ignore rules and limits (`SearchAssumption`): a result that
  is not marked incomplete has every match, and none that the rules hide. `SearchFits` says
  of each phase where a match is that is not yet in the result: its path, or its folder, is
  still to walk, it is among the files to read, or the walk was cut short and says so
  (`NothingLost`); and that nothing hidden is in any of these places (`NothingSkipped`);
- `DrainKeepsFair`, for any number of panes and any budgets (`SchedulerAssumption`): no pane
  with output goes unserved for as many drains as there are panes. `DrainFits`: the drains a
  pane has waited and its distance from the cursor (`Turn`) are together at most `N - 1`,
  since the pane at the cursor is always served and the cursor moves by one.

`WorkspaceFiles_proofs`, for any finite set of folders, any queries, and any capacity of the
watcher's channel and of the recent list (`FilesAssumption`, which otherwise says that "none"
is no value):

- `NothingStale`: with no event and no listing on its way the explorer shows the folder as
  it is, with the present options; no answer to an older query, option or root is shown;
- `StoreKeepsUp`: with no save running or failed the store has the present state, and an
  opened workspace is in the recent list or queued for it.

Both follow from `FilesFit`. Of the listing it says that one runs at a time and, unless
another waits for it, lists the open folder with the present options (`RefreshRuns`), and
that what is shown or answered is what is there unless the watcher has more to say
(`ListsNewest`): a change in its channel, a loss it has not acknowledged, or a new watch whose
first listing is still due. Answers of quick open and of the search carry the generation,
the query and the options they were asked with (`QuickFits`, `SearchedFits`), so that equal
generations mean equal questions. One save runs; it carries the present state unless
another waits, and the store has what it carries before it is done (`SavesFit`). The opened
folder is queued, in the edits under way, or in the file (`RecentsFit`); for a list that
is full this is false, which the proof showed first: a folder opened again while its edit is
retried keeps its earlier place in the queue, and the folders opened in between push it
out of the list. The property therefore asks that the list has room for every folder.

**Left to TLC.** Liveness, which the prover cannot treat. `LanguageIsCurrent`: frames and
texts are what folds over sequences compute, and induction over data is out of reach but
where the least position at which a claim fails can be taken, as for the loops of
`SearchFits`, `DrainFits` and `TurnSplits`. The action properties of `MCWorkspace` and
`MCWorkbench`, which have no proof: `FilesAreSafe` and `ScreenKeepsText`, which speak of a
tree of paths and of a grid that are transformed by folds, and `CatalogIsSound` and
`EndsAreConfirmed`, which compare catalogs over several steps.

## Where code and documents differ

Four runs show it, each against a sentence of the repository that `PROJECT.json`
quotes: a pane that exited while output was pending is shown backpressured, then
running (`terminal_runtime_exited`); the history of a restored pane that was never
started makes the next save fail and ends the service (`session_daemon_outlives`);
saving the read-only preview of an oversized file replaces the file by its beginning
(`editor_preview_saved`); a cursor saved before the screen shrinks is restored outside
it (`terminal_screen_panics`).

Noted without a run. Those with a name are stated in their module as a property, which
TLC finds violated there.

1. A reader that waits for one of the 1024 slots is not reported as blocked
   (`BlockedReaderIsReported`, portable.rs:357 against transport.rs:156). A pane larger
   than a snapshot may be makes a save fail and ends the service (service.rs:619).
   `close()` on the byte budget notifies without the mutex, so a reader thread can
   sleep for ever. The drain's cursor moves by one pane, not by the panes served
   (docs/specs/0005).
2. Recovery of an already open, dirty document replaces newer edits and the history
   (`EditsSurvive`, app.rs:3184 and 4122).
3. Editor: a stand-in that was restored for a missing file, then emptied and kept, is
   shown clean though there is no file; opened again while its file is missing, its
   surface is emptied and its document is not (app.rs:3214). `ResolveDocumentClose`
   with Cancel deletes the recovery record of a document that is still dirty
   (app.rs:3924); a pending close stays when its save fails.
4. `finish_start` of the terminal accepts a process of a former workspace
   (`ProcessIsOfWorkspace`, terminal.rs:223; docs/specs/0005:109).
5. Session client: connecting is offered while a connection is ready; the second attach
   is refused, and what becomes of the old connection depends on which completion is
   applied last (`StaleIsIgnored`, `StaleRecovers`; strukt-sessiond.rs:230, client.rs:231
   and 313, session.rs:298; docs/specs/0007:191, 0009:164). A service
   whose catalog cannot be loaded leaves its rendezvous record behind.
6. Session canvas: a question counts the running panes when it is put, and is not put again
   when more run by the time it is confirmed, which ends them all (`EndsAreNamed`,
   app.rs:2178; docs/specs/0007:343). `EndsAreConfirmed` compares with what the desktop
   showed when the request was made, not with the question; `SendSessionInput` takes
   the typed line before a refusal (app.rs:2440).
7. Remote: text of a remote file cannot be opened, as the helper calls its kind `text`
   and the desktop accepts `utf8` or `file` (helper.rs:322, remote.rs:723); the flag of an
   operation in flight stays set when there is nothing to save (app.rs:1527); a
   remote save clears the dirty flag for edits made while it ran (remote.rs:478; docs/specs/0008:300); consent to a task survives a new
   connection (`ApprovalIsOfConnection`; docs/specs/0008:420); finished tasks stay in
   the helper's table, and so does a process whose drain or poll was answered with an error
   (`TasksAreReleased`, process.rs:96, remote.rs:849 and 895); results of a former host stay
   on the screen until the connection is given up (remote.rs:134).
8. Remote installation: `mv` replaces a helper installed since the test
   (`InstalledIsKept`, install.rs:23 and 34); the deadline is looked at only after
   the whole artifact was written (install.rs:163). Connections have no read deadline.
   A forgotten connection can come back with a save that was under way
   (`ForgottenIsGone`, remote_store.rs:192; docs/specs/0008:401).
9. tmux: identities depend on the order of discovery (`IdsAreStable`, tmux.rs:735;
   docs/specs/0009:246).
10. Language: a change beyond the queue's limit is dropped by `flush_changes`
    (client.rs:497), which the server is not told until the next change (`dropped`);
    answers are applied to a text the server was not yet told (`AppliedIsOfText`, client.rs:510; docs/specs/0006); reloading or recovering a
    document, or taking its new text from the disk, is not told to the server until the next
    edit (`ReplaceText`, app.rs:4012 to 4153); disabling the only running
    server stops the poll that would end it (app.rs:5929).
11. Workspace: opening another workspace overwrites a save that is due (app.rs:5507);
    requeued recent workspaces change their order (5591); moving to the trash always
    fails (operations.rs:176).
12. Shell: keys go to a surface that is covered (`KeysAreSeen`, app.rs:4938;
    docs/specs/0010:476); a promotion is not persisted (docs/specs/0010:298).
13. Screen: SGR 0 also ends a hyperlink (parser.rs:232); halves of wide characters stay
    until an erasure or a resize repairs them.

Guards that no state needs, found while breaking them: the comparison of generations in
`LanguageDiscovered` and of revisions in `accept_feature_response` are implied by others;
`begin_start`'s branch for diverged generations and the late validation of `close_pane`
cannot be reached.

## What is left out

Wire formats and parsing of formats, glob matching, conversions of positions, colours
and layout of text; the encoding of keys and the selection; names, sizes and ratios;
the ConPTY cursor answer; output revisions, unread counts and attention of sessions;
edits proposed by a language server; git, port forwarding and host keys; encryption and
schema migration in the stores; the preference stores, which write one file each. The
catalog revision is a refusal that is always possible. `strukt-remote/state.rs`
(`ConnectionMachine`, `OperationTracker`, `RemoteWatchSequencer`) is used by no other
source, and `strukt-theme`, `strukt-ui`, the views and the smoke programs are
presentation and drivers. `PROJECT.json` has a row and a reason for each part.

## Plan

1. Proofs: `CatalogIsSound` and `EndsAreConfirmed` of `MCWorkbench` from the lemmas of
   `SessionDaemon_proofs`.
2. Output revisions, unread counts and attention across restarts.
3. An abstract specification of a pane's promise, implemented by `TerminalRuntime` and
   by `SessionDaemon`.
