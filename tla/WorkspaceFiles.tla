--------------------------- MODULE WorkspaceFiles ---------------------------
(***************************************************************************)
(* The open workspace of the desktop: the messages of                      *)
(* crates/strukt-app/src/app.rs that open a folder, watch and list its     *)
(* files, save its state and the list of recent workspaces, and answer     *)
(* quick open and search; the watcher of crates/strukt-fs/src/watcher.rs   *)
(* and the store of crates/strukt-persistence/src/workspace_store.rs.      *)
(*                                                                         *)
(* The messages run one after another; the watcher's thread and the jobs   *)
(* they start run beside them and answer later.  A listing of files is the *)
(* root, the version of its files and the options it was made with.  The   *)
(* option stands for show_hidden and show_ignored; the workspace state is  *)
(* that option, the part of it that a restart shows again.                 *)
(***************************************************************************)
EXTENDS Naturals, Sequences, FiniteSets, SequencesExt

CONSTANTS
    None,
    Roots,             \* folders
    Queries,           \* search texts that are not empty
    EventCapacity,     \* EVENT_QUEUE_CAPACITY
    EventsPerPoll,     \* MAX_WATCHER_EVENTS_PER_POLL
    RecentLimit,       \* workspaces the list of recent ones holds
    Scenarios          \* bounds: how often each kind of outside step happens, to choose from

VARIABLES
    tree,        \* the version of the files of each root
    saved,       \* the workspace state the store has for each root
    recentFile,  \* the list of recent workspaces in the store
    opened,      \* workspace: its root, explorer state and stale_filesystem
    explorer,    \* explorer_options
    listing,     \* files
    listingRevision, \* filesystem_revision
    refresh,     \* refresh_generation, refresh_in_flight, refresh_pending
    failed,      \* the kinds of error that are shown
    watch,       \* the watcher, its event channel, and PollWatcher's place in it
    quick,       \* quick_open_*
    search,      \* search_*
    persist,     \* persistence_* and the queues of recent roots
    chooser,     \* open_folder_in_flight, recent_mutation_in_flight, manual_open_started
    recents,     \* recent_workspaces
    jobs,        \* background work and the messages it will send
    limits,      \* the bounds of this behaviour
    used         \* outside steps so far

storeVars == <<saved, recentFile>>
listVars == <<listing, listingRevision, refresh, watch, quick, search>>
saveVars == <<persist, chooser, recents>>
workspaceVars ==
    <<tree, storeVars, opened, explorer, listVars, failed, saveVars, jobs, limits, used>>

Kinds == {"change", "open", "toggle", "quick", "search", "recent", "failure"}
Left(kind) == used[kind] < limits[kind]
Spend(kind) == Left(kind) /\ used' = [used EXCEPT ![kind] = @ + 1]

\* The default state of a workspace shows no hidden files.
WorkspaceInit ==
    /\ tree = [r \in Roots |-> 0]
    /\ saved = [r \in Roots |-> None]
    /\ recentFile \in {<<>>} \cup {<<r>> : r \in Roots}
    /\ opened = None
    /\ explorer = FALSE
    /\ listing = None
    /\ listingRevision = 0
    /\ refresh = [generation |-> 0, inFlight |-> None, pending |-> FALSE]
    /\ failed = {}
    /\ watch = [root |-> None, queue |-> <<>>, lost |-> FALSE, acknowledged |-> FALSE]
    /\ quick = [visible |-> FALSE, ignored |-> FALSE, generation |-> 0, scan |-> None,
                cache |-> None, results |-> None]
    /\ search = [query |-> None, ignored |-> FALSE, generation |-> 0, results |-> None]
    /\ persist = [generation |-> 0, inFlight |-> None, pending |-> None, active |-> <<>>,
                  queue |-> <<>>, last |-> "none"]
    /\ chooser = [opening |-> FALSE, mutating |-> FALSE, manual |-> FALSE]
    /\ recents = <<>>
    /\ jobs = {[kind |-> "boot", result |-> None]}
    /\ limits \in Scenarios
    /\ used = [k \in Kinds |-> 0]

IsCurrentRoot(root) == opened # None /\ opened.root = root
Listing(root, hidden, ignored) ==
    [root |-> root, version |-> tree[root], hidden |-> hidden, ignored |-> ignored]

-----------------------------------------------------------------------------
(* Jobs: each reads or writes outside the messages' thread, then its answer *)
(* waits to be handled.                                                     *)

Done(value) == [ok |-> TRUE, value |-> value]
Failed == [ok |-> FALSE, value |-> None]
Finish(job, result) == jobs' = (jobs \ {job}) \cup {[job EXCEPT !.result = result]}

\* discover_report_for_root, and the search over what it finds.
RunScan(job) ==
    /\ job.kind \in {"refresh", "quick", "search"}
    /\ job.result = None
    /\ \/ Finish(job, Done(Listing(job.root, job.hidden, job.ignored))) /\ UNCHANGED used
       \/ Spend("failure") /\ Finish(job, Failed)
    /\ UNCHANGED <<tree, storeVars, opened, explorer, listVars, failed, saveVars>>

\* open_workspace_with_store: the state the store has, or a new one, and its files.
RunOpen(job) ==
    /\ job.kind = "open"
    /\ job.result = None
    /\ LET hidden == IF saved[job.root] = None THEN FALSE ELSE saved[job.root] IN
       \/ Finish(job, Done(Listing(job.root, hidden, FALSE))) /\ UNCHANGED used
       \/ Spend("failure") /\ Finish(job, Failed)
    /\ UNCHANGED <<tree, storeVars, opened, explorer, listVars, failed, saveVars>>

\* retain: the elements of a list that are in a set, in order.
Among(list, set) ==
    LET upTo[n \in 0..Len(list)] ==
            IF n = 0 THEN << >>
            ELSE IF list[n] \in set THEN Append(upTo[n - 1], list[n]) ELSE upTo[n - 1]
    IN  upTo[Len(list)]

\* record_recent, relink_recent and remove_recent: what they write from what they read.
Edited(list, edit) ==
    LET kept == Among(list, Roots \ {edit.drop, edit.add})
        with == IF edit.add = None THEN kept ELSE <<edit.add>> \o kept
    IN  SubSeq(with, 1, IF Len(with) < RecentLimit THEN Len(with) ELSE RecentLimit)

\* load_recent, then write_recent: nothing keeps another job from writing between them.
LoadRecent(job) ==
    /\ job.kind \in {"persist", "recent"}
    /\ job.result = None /\ job.edits # <<>> /\ job.read = None
    /\ job.kind = "persist" => job.stored
    /\ jobs' = (jobs \ {job}) \cup {[job EXCEPT !.read = recentFile]}
    /\ UNCHANGED <<tree, storeVars, opened, explorer, listVars, failed, saveVars, used>>

WriteRecent(job) ==
    /\ job.kind \in {"persist", "recent"}
    /\ job.result = None /\ job.edits # <<>> /\ job.read # None
    /\ \/ /\ recentFile' = Edited(job.read, Head(job.edits))
          /\ jobs' = (jobs \ {job}) \cup
                     {[job EXCEPT !.read = None, !.edits = Tail(@),
                                  !.result = IF Len(job.edits) = 1 THEN Done(recentFile') ELSE None]}
          /\ UNCHANGED used
       \/ Spend("failure") /\ Finish(job, Failed) /\ UNCHANGED recentFile
    /\ UNCHANGED <<tree, saved, opened, explorer, listVars, failed, saveVars>>

\* persist_workspace_batch: the state first, then each recent root.
StoreState(job) ==
    /\ job.kind = "persist"
    /\ job.result = None /\ ~job.stored
    /\ \/ /\ saved' = [saved EXCEPT ![job.root] = job.hidden]
          /\ jobs' = (jobs \ {job}) \cup
                     {[job EXCEPT !.stored = TRUE,
                                  !.result = IF job.edits = <<>> THEN Done(recentFile) ELSE None]}
          /\ UNCHANGED used
       \/ Spend("failure") /\ Finish(job, Failed) /\ UNCHANGED saved
    /\ UNCHANGED <<tree, recentFile, opened, explorer, listVars, failed, saveVars>>

\* The boot task loads the recent workspaces.
LoadBoot(job) ==
    /\ job.kind = "boot"
    /\ job.result = None
    /\ \/ Finish(job, Done(recentFile)) /\ UNCHANGED used
       \/ Spend("failure") /\ Finish(job, Failed)
    /\ UNCHANGED <<tree, storeVars, opened, explorer, listVars, failed, saveVars>>

-----------------------------------------------------------------------------
(* The watcher's thread and the folders themselves.                         *)

\* EventHandoff::try_send: a full channel drops the event and raises the flag.
Sent(w, event) ==
    IF Len(w.queue) < EventCapacity
    THEN [w EXCEPT !.queue = Append(@, event)]
    ELSE [w EXCEPT !.lost = TRUE]

TreeChanges(root) ==
    /\ Spend("change")
    /\ tree' = [tree EXCEPT ![root] = @ + 1]
    /\ watch' = IF watch.root = root THEN Sent(watch, "changed") ELSE watch
    /\ UNCHANGED <<storeVars, opened, explorer, listing, listingRevision, refresh, quick,
                   search, failed, saveVars, jobs>>

\* The native watcher asks for a rescan or reports an error.
WatchError ==
    /\ Spend("failure")
    /\ watch.root # None
    /\ watch' = Sent(watch, "stale")
    /\ UNCHANGED <<tree, storeVars, opened, explorer, listing, listingRevision, refresh, quick,
                   search, failed, saveVars, jobs>>

-----------------------------------------------------------------------------
(* request_file_refresh and request_persistence, which most messages end in. *)

RefreshJob(generation, root, hidden) ==
    [kind |-> "refresh", generation |-> generation, root |-> root, hidden |-> hidden,
     ignored |-> FALSE, result |-> None]

\* start_file_refresh
Started(f) == [f EXCEPT !.inFlight = f.generation]

\* A request that finds a listing running leaves it to that one.
RequestFileRefreshOnce(f) == IF f.inFlight # None THEN f ELSE Started([f EXCEPT !.generation = @ + 1])

RequestFileRefresh(f) ==
    LET g == [f EXCEPT !.generation = @ + 1] IN
    IF f.inFlight # None THEN [g EXCEPT !.pending = TRUE] ELSE Started(g)

\* The job a request starts, when it starts one.
Refreshing(f, g, root, hidden) ==
    IF g.inFlight # None /\ g.inFlight # f.inFlight
    THEN {RefreshJob(g.inFlight, root, hidden)}
    ELSE {}

\* start_persistence takes every recent root that waits.
StartPersistence(p, state) ==
    [p EXCEPT !.generation = @ + 1, !.inFlight = [generation |-> p.generation + 1,
                                                  root |-> state.root],
              !.active = p.queue, !.queue = <<>>, !.pending = None]

EnqueueRecent(queue, root) == Append(Among(queue, Roots \ {root}), root)
\* A failed save forgets the recent roots it had taken.
RequeueNothing(queue, roots) == queue

RequeueRecents(queue, roots) == roots \o Among(queue, Roots \ ToSet(roots))

\* A request that finds a save running is left to that one.
RequestPersistenceOnce(p, state, recording, refreshing) ==
    LET q == IF recording THEN [p EXCEPT !.queue = EnqueueRecent(@, state.root)] ELSE p IN
    IF p.inFlight # None THEN q
    ELSE IF refreshing THEN [q EXCEPT !.pending = state] ELSE StartPersistence(q, state)

RequestPersistence(p, state, recording, refreshing) ==
    LET q == IF recording THEN [p EXCEPT !.queue = EnqueueRecent(@, state.root)] ELSE p IN
    IF p.inFlight # None \/ refreshing
    THEN [q EXCEPT !.pending = state]
    ELSE StartPersistence(q, state)

Persisting(p, q, state) ==
    IF q.generation = p.generation THEN {}
    ELSE {[kind |-> "persist", generation |-> q.generation, root |-> state.root,
           hidden |-> state.hidden, recents |-> q.active, stored |-> FALSE, read |-> None,
           edits |-> [i \in DOMAIN q.active |-> [add |-> q.active[i], drop |-> None]],
           result |-> None]}

\* What is saved of the open workspace.
StateOf(ws) == [root |-> ws.root, hidden |-> ws.hidden]

-----------------------------------------------------------------------------
(* Quick open.                                                              *)

\* quick_open_source: the files listed, or with ignored files the cache, if it is current.
QuickOpenSource(q, files, revision, ws) ==
    IF ~q.ignored THEN files
    ELSE IF ws # None /\ q.cache # None /\ q.cache.root = ws.root /\ q.cache.revision = revision
         THEN q.cache.files
         ELSE None

\* A listing leaves the cache of the former one.
InvalidatedLate(q) == [q EXCEPT !.generation = @ + 1, !.scan = None]

Invalidated(q) ==
    [q EXCEPT !.generation = @ + 1, !.scan = None, !.cache = None,
              !.results = IF q.ignored THEN None ELSE @]

\* start_quick_open_scan
Scanning(q, root, revision) ==
    IF q.scan # None /\ q.scan.root = root /\ q.scan.revision = revision THEN q
    ELSE [q EXCEPT !.generation = @ + 1,
                   !.scan = [generation |-> q.generation + 1, root |-> root,
                             revision |-> revision]]

ScanJob(q, r, hidden) ==
    IF r.scan = None \/ r.scan = q.scan THEN {}
    ELSE {[kind |-> "quick", generation |-> r.scan.generation, root |-> r.scan.root,
           revision |-> r.scan.revision, hidden |-> hidden, ignored |-> TRUE,
           result |-> None]}

-----------------------------------------------------------------------------
(* Opening a workspace.                                                     *)

\* OpenFolder, then FolderPicked; RetryRecentWorkspace skips the picker.
ChooserFree == ~chooser.opening /\ ~chooser.mutating
OpenJob(root) == [kind |-> "open", root |-> root, result |-> None]

OpenFolder ==
    /\ Spend("open")
    /\ ChooserFree
    /\ chooser' = [chooser EXCEPT !.opening = TRUE, !.manual = TRUE]
    /\ failed' = failed \ {"open"}
    /\ jobs' = jobs \cup {[kind |-> "pick", result |-> None]}
    /\ UNCHANGED <<tree, storeVars, opened, explorer, listVars, persist, recents>>

FolderPicked(job) ==
    /\ job.kind = "pick"
    /\ \/ /\ \E root \in Roots : jobs' = (jobs \ {job}) \cup {OpenJob(root)}
          /\ UNCHANGED chooser
       \/ /\ jobs' = jobs \ {job}
          /\ chooser' = [chooser EXCEPT !.opening = FALSE]
    /\ UNCHANGED <<tree, storeVars, opened, explorer, listVars, failed, persist, recents, used>>

RetryRecentWorkspace ==
    /\ Spend("open")
    /\ ChooserFree
    /\ \E root \in ToSet(recents) : jobs' = jobs \cup {OpenJob(root)}
    /\ chooser' = [chooser EXCEPT !.opening = TRUE, !.manual = TRUE]
    /\ UNCHANGED <<tree, storeVars, opened, explorer, listVars, failed, persist, recents>>

\* A recent workspace chosen in the command center is taken for a picked folder: neither
\* flag is looked at, so several may be on the way.
CommandResourceSelected ==
    /\ Spend("open")
    /\ \E root \in ToSet(recents) : jobs' = jobs \cup {OpenJob(root)}
    /\ chooser' = [chooser EXCEPT !.opening = TRUE]
    /\ UNCHANGED <<tree, storeVars, opened, explorer, listVars, failed, persist, recents>>

\* The most recent workspace is opened unless the user already opens one.
RecentWorkspaceLoaded(job) ==
    /\ job.kind = "boot"
    /\ job.result # None
    /\ IF ~job.result.ok
       THEN /\ failed' = failed \cup {"open"}
            /\ jobs' = jobs \ {job}
            /\ UNCHANGED <<recents, chooser>>
       ELSE /\ recents' = job.result.value
            /\ UNCHANGED failed
            /\ IF ~chooser.manual /\ opened = None /\ recents' # <<>>
               THEN /\ jobs' = (jobs \ {job}) \cup {OpenJob(Head(recents'))}
                    /\ chooser' = [chooser EXCEPT !.opening = TRUE]
               ELSE jobs' = jobs \ {job} /\ UNCHANGED chooser
    /\ UNCHANGED <<tree, storeVars, opened, explorer, listVars, persist, used>>

\* WorkspaceOpened: the surfaces of the former workspace are reset, the watcher is started
\* before the files are listed again, and the state is saved with the recent root.
WorkspaceOpened(job) ==
    /\ job.kind = "open"
    /\ job.result # None
    /\ job.result.ok
    /\ LET files == job.result.value
           root == files.root
           state == [root |-> root, hidden |-> files.hidden]
           p == RequestPersistence(persist, state, TRUE, refresh.inFlight # None)
           former == [refresh EXCEPT !.generation = @ + 1, !.pending = FALSE]
           f == RequestFileRefresh(former)
       IN  /\ \E watched \in BOOLEAN :
                /\ watched \/ Left("failure")
                /\ watch' = [root |-> IF watched THEN root ELSE None, queue |-> <<>>,
                             lost |-> FALSE, acknowledged |-> FALSE]
                /\ opened' = [root |-> root, hidden |-> files.hidden, stale |-> ~watched]
                /\ failed' = IF watched THEN {} ELSE {"refresh"}
                /\ used' = IF watched THEN used ELSE [used EXCEPT !["failure"] = @ + 1]
           /\ explorer' = files.hidden
           /\ listing' = files
           /\ listingRevision' = listingRevision + 1
           /\ quick' = [Invalidated(quick) EXCEPT !.visible = FALSE, !.results = None]
           /\ search' = [search EXCEPT !.generation = @ + 1, !.results = None]
           /\ persist' = p
           /\ refresh' = f
           /\ chooser' = [chooser EXCEPT !.opening = FALSE]
           /\ jobs' = (jobs \ {job}) \cup Persisting(persist, p, state)
                      \cup Refreshing(former, f, root, files.hidden)
    /\ UNCHANGED <<tree, storeVars, recents>>

WorkspaceOpenFailed(job) ==
    /\ job.kind = "open"
    /\ job.result # None
    /\ ~job.result.ok
    /\ failed' = failed \cup {"open"}
    /\ chooser' = [chooser EXCEPT !.opening = FALSE]
    /\ jobs' = jobs \ {job}
    /\ UNCHANGED <<tree, storeVars, opened, explorer, listVars, persist, recents, used>>

-----------------------------------------------------------------------------
(* Listing the files.                                                       *)

\* ToggleHiddenFiles and ToggleIgnoredFiles
ToggleHiddenFiles ==
    /\ Spend("toggle")
    /\ opened # None
    /\ explorer' = ~explorer
    /\ opened' = [opened EXCEPT !.hidden = ~explorer]
    /\ LET f == RequestFileRefresh(refresh)
           p == RequestPersistence(persist, StateOf(opened'), FALSE, f.inFlight # None)
       IN  /\ refresh' = f
           /\ persist' = p
           /\ jobs' = jobs \cup Refreshing(refresh, f, opened.root, ~explorer)
                           \cup Persisting(persist, p, StateOf(opened'))
    /\ UNCHANGED <<tree, storeVars, listing, listingRevision, watch, quick, search, failed,
                   chooser, recents>>

\* FilesRefreshed: an answer that is not the newest one only makes room for the next job.
FilesRefreshed(job) ==
    /\ job.kind = "refresh"
    /\ job.result # None
    /\ LET f == [refresh EXCEPT !.inFlight = None]
           g == IF f.pending THEN Started([f EXCEPT !.pending = FALSE]) ELSE f
           p == IF ~f.pending /\ persist.inFlight = None /\ persist.pending # None
                THEN StartPersistence(persist, persist.pending) ELSE persist
           applies == refresh.inFlight = job.generation /\ job.generation = refresh.generation
           fresh == applies /\ job.result.ok
           q == Invalidated(quick)
           rescans == fresh /\ quick.visible /\ quick.ignored
           r == Scanning(q, opened.root, listingRevision + 1)
       IN  IF refresh.inFlight # job.generation
           THEN /\ jobs' = jobs \ {job}
                /\ UNCHANGED <<opened, listing, listingRevision, refresh, quick, failed, persist>>
           ELSE /\ refresh' = g
                /\ persist' = p
                /\ listing' = IF fresh THEN job.result.value ELSE listing
                /\ listingRevision' = IF fresh THEN listingRevision + 1 ELSE listingRevision
                /\ opened' = IF fresh THEN [opened EXCEPT !.stale = FALSE] ELSE opened
                /\ failed' = IF fresh THEN failed \ {"refresh"}
                             ELSE IF applies THEN failed \cup {"refresh"} ELSE failed
                /\ quick' = IF rescans THEN r
                            ELSE IF fresh
                                 THEN [q EXCEPT !.results = IF q.visible THEN listing' ELSE @]
                                 ELSE quick
                /\ jobs' = (jobs \ {job})
                           \cup Refreshing(f, g, opened.root, explorer)
                           \cup Persisting(persist, p, persist.pending)
                           \cup (IF rescans THEN ScanJob(q, r, explorer) ELSE {})
    /\ UNCHANGED <<tree, storeVars, explorer, watch, search, chooser, recents, used>>

\* FileEvent: what a poll of the watcher found is followed by a listing.
FileEvent(event) ==
    LET f == RequestFileRefresh(refresh) IN
    /\ opened' = IF event = "stale" THEN [opened EXCEPT !.stale = TRUE] ELSE opened
    /\ failed' = IF event = "stale" THEN failed \cup {"refresh"} ELSE failed
    /\ refresh' = f
    /\ jobs' = jobs \cup Refreshing(refresh, f, opened.root, explorer)

\* PollWatcher on a channel that lost nothing: a batch of events becomes one.
PollWatcher ==
    /\ watch.root # None /\ ~watch.lost /\ watch.queue # <<>>
    /\ LET n == IF Len(watch.queue) < EventsPerPoll THEN Len(watch.queue) ELSE EventsPerPoll
           batch == SubSeq(watch.queue, 1, n)
       IN  /\ watch' = [watch EXCEPT !.queue = SubSeq(@, n + 1, Len(@))]
           /\ FileEvent(IF Contains(batch, "stale") THEN "stale" ELSE "changed")
    /\ UNCHANGED <<tree, storeVars, explorer, listing, listingRevision, quick, search, saveVars,
                   used>>

\* recover_event_loss: the flag is taken first, then the obsolete events; the watcher's
\* thread may send between the two.
AcknowledgeLoss ==
    /\ watch.root # None /\ watch.lost
    /\ watch' = [watch EXCEPT !.lost = FALSE, !.acknowledged = TRUE]
    /\ UNCHANGED <<tree, storeVars, opened, explorer, listing, listingRevision, refresh, quick,
                   search, failed, saveVars, jobs, used>>

DrainObsolete ==
    /\ watch.acknowledged
    /\ watch' = [watch EXCEPT !.queue = <<>>, !.acknowledged = FALSE]
    /\ FileEvent("stale")
    /\ UNCHANGED <<tree, storeVars, explorer, listing, listingRevision, quick, search, saveVars,
                   used>>

-----------------------------------------------------------------------------
(* Saving the state and the recent workspaces.                              *)

WorkspacePersisted(job) ==
    /\ job.kind = "persist"
    /\ job.result # None
    /\ LET done == [persist EXCEPT
                      !.inFlight = None, !.active = <<>>,
                      !.last = IF job.result.ok THEN "ok" ELSE "failed",
                      !.queue = IF job.result.ok THEN @ ELSE RequeueRecents(@, job.recents)]
           p == IF persist.pending # None THEN StartPersistence(done, persist.pending) ELSE done
       IN  /\ persist' = p
           /\ jobs' = (jobs \ {job}) \cup Persisting(done, p, persist.pending)
    /\ failed' = IF ~IsCurrentRoot(job.root) THEN failed
                 ELSE IF job.result.ok THEN failed \ {"persistence"}
                 ELSE failed \cup {"persistence"}
    /\ UNCHANGED <<tree, storeVars, opened, explorer, listVars, chooser, recents, used>>

\* RemoveRecentWorkspace, and LocateRecentWorkspace once its picker has answered.
RecentJob(drop, add) ==
    [kind |-> "recent", edits |-> <<[add |-> add, drop |-> drop]>>, read |-> None,
     result |-> None]

RemoveRecentWorkspace ==
    /\ Spend("recent")
    /\ ChooserFree
    /\ \E root \in ToSet(recents) : jobs' = jobs \cup {RecentJob(root, None)}
    /\ chooser' = [chooser EXCEPT !.mutating = TRUE]
    /\ UNCHANGED <<tree, storeVars, opened, explorer, listVars, failed, persist, recents>>

LocateRecentWorkspace ==
    /\ Spend("recent")
    /\ ChooserFree
    /\ \E root \in ToSet(recents) :
         jobs' = jobs \cup {[kind |-> "locate", root |-> root, result |-> None]}
    /\ chooser' = [chooser EXCEPT !.mutating = TRUE]
    /\ UNCHANGED <<tree, storeVars, opened, explorer, listVars, failed, persist, recents>>

RecentWorkspaceLocated(job) ==
    /\ job.kind = "locate"
    /\ \/ /\ \E root \in Roots : jobs' = (jobs \ {job}) \cup {RecentJob(job.root, root)}
          /\ UNCHANGED chooser
       \/ /\ jobs' = jobs \ {job}
          /\ chooser' = [chooser EXCEPT !.mutating = FALSE]
    /\ UNCHANGED <<tree, storeVars, opened, explorer, listVars, failed, persist, recents, used>>

RecentWorkspacesUpdated(job) ==
    /\ job.kind = "recent"
    /\ job.result # None
    /\ chooser' = [chooser EXCEPT !.mutating = FALSE]
    /\ recents' = IF job.result.ok THEN job.result.value ELSE recents
    /\ failed' = IF job.result.ok THEN failed \ {"persistence"} ELSE failed \cup {"persistence"}
    /\ jobs' = jobs \ {job}
    /\ UNCHANGED <<tree, storeVars, opened, explorer, listVars, persist, used>>

-----------------------------------------------------------------------------
(* Quick open and search.                                                   *)

ToggleQuickOpen ==
    /\ Spend("quick")
    /\ LET source == QuickOpenSource(quick, listing, listingRevision, opened)
           q == [quick EXCEPT !.visible = ~@, !.results = IF quick.visible THEN @ ELSE source]
           scans == ~quick.visible /\ quick.ignored /\ source = None /\ opened # None
           r == IF scans THEN Scanning(q, opened.root, listingRevision) ELSE q
       IN  /\ quick' = r
           /\ jobs' = jobs \cup (IF scans THEN ScanJob(q, r, explorer) ELSE {})
    /\ UNCHANGED <<tree, storeVars, opened, explorer, listing, listingRevision, refresh, watch,
                   search, failed, saveVars>>

ToggleQuickOpenIgnored ==
    /\ Spend("quick")
    /\ quick.visible
    /\ LET q == [quick EXCEPT !.ignored = ~@]
           source == QuickOpenSource(q, listing, listingRevision, opened)
           scans == q.ignored /\ source = None /\ opened # None
           r == IF ~q.ignored
                THEN [q EXCEPT !.generation = @ + 1, !.scan = None, !.results = listing]
                ELSE IF scans
                     THEN Scanning([q EXCEPT !.results = None], opened.root, listingRevision)
                     ELSE [q EXCEPT !.results = source]
       IN  /\ quick' = r
           /\ jobs' = jobs \cup (IF scans THEN ScanJob(q, r, explorer) ELSE {})
    /\ failed' = failed \ {"quick"}
    /\ UNCHANGED <<tree, storeVars, opened, explorer, listing, listingRevision, refresh, watch,
                   search, saveVars>>

QuickOpenFilesLoaded(job) ==
    /\ job.kind = "quick"
    /\ job.result # None
    /\ jobs' = jobs \ {job}
    /\ IF /\ quick.scan = [generation |-> job.generation, root |-> job.root,
                           revision |-> job.revision]
          /\ job.generation = quick.generation
          /\ IsCurrentRoot(job.root)
          /\ job.revision = listingRevision
       THEN /\ quick' = IF job.result.ok
                        THEN [quick EXCEPT !.scan = None, !.results = job.result.value,
                                           !.cache = [root |-> job.root, revision |-> job.revision,
                                                      files |-> job.result.value]]
                        ELSE [quick EXCEPT !.scan = None]
            /\ failed' = IF job.result.ok THEN failed \ {"quick"} ELSE failed \cup {"quick"}
       ELSE UNCHANGED <<quick, failed>>
    /\ UNCHANGED <<tree, storeVars, opened, explorer, listing, listingRevision, refresh, watch,
                   search, saveVars, used>>

\* schedule_search: an empty text ends the search.
ScheduleSearch(query, ignored) ==
    /\ search' = [query |-> query, ignored |-> ignored, generation |-> search.generation + 1,
                  results |-> None]
    /\ failed' = failed \ {"search"}
    /\ jobs' = IF query = None \/ opened = None THEN jobs
               ELSE jobs \cup {[kind |-> "debounce", generation |-> search'.generation,
                               root |-> opened.root, query |-> query, result |-> None]}

SearchChanged ==
    /\ Spend("search")
    /\ \E query \in Queries \cup {None} : ScheduleSearch(query, search.ignored)
    /\ UNCHANGED <<tree, storeVars, opened, explorer, listing, listingRevision, refresh, watch,
                   quick, saveVars>>

ToggleSearchIgnored ==
    /\ Spend("search")
    /\ ScheduleSearch(search.query, ~search.ignored)
    /\ UNCHANGED <<tree, storeVars, opened, explorer, listing, listingRevision, refresh, watch,
                   quick, saveVars>>

\* SearchDebounced, then start_search
SearchDebounced(job) ==
    /\ job.kind = "debounce"
    /\ jobs' = IF /\ job.generation = search.generation
                  /\ IsCurrentRoot(job.root)
                  /\ job.query = search.query
               THEN (jobs \ {job}) \cup
                    {[kind |-> "search", generation |-> job.generation, root |-> job.root,
                      query |-> job.query, hidden |-> explorer, ignored |-> search.ignored,
                      result |-> None]}
               ELSE jobs \ {job}
    /\ UNCHANGED <<tree, storeVars, opened, explorer, listVars, failed, saveVars, used>>

\* An answer is only checked for its folder.
IsCurrentSearchRoot(job) == IsCurrentRoot(job.root)

IsCurrentSearch(job) == job.generation = search.generation /\ IsCurrentRoot(job.root)

SearchCompleted(job) ==
    /\ job.kind = "search"
    /\ job.result # None
    /\ jobs' = jobs \ {job}
    /\ IF IsCurrentSearch(job)
       THEN /\ search' = IF job.result.ok
                         THEN [search EXCEPT !.results = [of |-> job.query,
                                                          files |-> job.result.value]]
                         ELSE search
            /\ failed' = IF job.result.ok THEN failed \ {"search"} ELSE failed \cup {"search"}
       ELSE UNCHANGED <<search, failed>>
    /\ UNCHANGED <<tree, storeVars, opened, explorer, listing, listingRevision, refresh, watch,
                   quick, saveVars, used>>

-----------------------------------------------------------------------------
Work(job) ==
    RunScan(job) \/ RunOpen(job) \/ LoadRecent(job) \/ WriteRecent(job) \/ StoreState(job)
    \/ LoadBoot(job)

Outside == WatchError \/ \E r \in Roots : TreeChanges(r)

UserMessages ==
    \/ OpenFolder \/ RetryRecentWorkspace \/ CommandResourceSelected \/ ToggleHiddenFiles
    \/ RemoveRecentWorkspace \/ LocateRecentWorkspace
    \/ ToggleQuickOpen \/ ToggleQuickOpenIgnored \/ SearchChanged \/ ToggleSearchIgnored

JobMessages(job) ==
    \/ FolderPicked(job) \/ RecentWorkspaceLoaded(job)
    \/ WorkspaceOpened(job) \/ WorkspaceOpenFailed(job) \/ FilesRefreshed(job)
    \/ WorkspacePersisted(job) \/ RecentWorkspaceLocated(job) \/ RecentWorkspacesUpdated(job)
    \/ QuickOpenFilesLoaded(job) \/ SearchDebounced(job) \/ SearchCompleted(job)

\* The thread of the messages is inside PollWatcher while a loss is acknowledged.
WorkspaceNext ==
    /\ \/ Outside
       \/ \E job \in jobs : Work(job)
       \/ ~watch.acknowledged /\ (UserMessages \/ PollWatcher \/ AcknowledgeLoss)
       \/ ~watch.acknowledged /\ \E job \in jobs : JobMessages(job)
       \/ DrainObsolete
    /\ UNCHANGED limits

WorkspaceSpec == WorkspaceInit /\ [][WorkspaceNext]_workspaceVars

-----------------------------------------------------------------------------
\* The state is well formed: an error of each kind, one job in flight of those that exclude
\* each other, and a channel no longer than its capacity.
WorkspaceTypeOK ==
    /\ failed \subseteq {"open", "refresh", "quick", "search", "persistence"}
    /\ Len(watch.queue) <= EventCapacity
    /\ Len(recentFile) <= RecentLimit
    /\ Cardinality({j \in jobs : j.kind = "persist"}) <= 1
    /\ Cardinality({j \in jobs : j.kind = "refresh"}) <= 1
    /\ Cardinality({j \in jobs : j.kind \in {"locate", "recent"}}) <= 1

\* When the watcher has nothing left to say and no listing runs, and no error is shown, the
\* files shown are the files of the folder with the options chosen, and not marked stale: a
\* change that comes while a listing runs, or that the full channel dropped, is never missed.
FilesAreCurrent ==
    (/\ opened # None
     /\ watch.root # None /\ watch.queue = <<>> /\ ~watch.lost /\ ~watch.acknowledged
     /\ refresh.inFlight = None
     /\ "refresh" \notin failed)
    => listing = Listing(opened.root, explorer, FALSE) /\ ~opened.stale

\* When nothing waits to be saved and the last save worked, the store has the state of the
\* open workspace: a change made while a save or a listing runs is saved after it.
SettledIsSaved ==
    (opened # None /\ persist.inFlight = None /\ persist.pending = None /\ persist.last = "ok")
    => saved[opened.root] = opened.hidden

\* An opened workspace reaches the list of recent ones or waits to be recorded there, whatever
\* saves fail (as long as nobody edits the list beside it, for that edit is not excluded, and
\* the list has room for every folder: a folder opened again while it waits to be saved once
\* more keeps its place before the ones opened in between, which can push it out of a full list).
RecentsAreKept ==
    (opened # None /\ used["recent"] = 0 /\ Cardinality(Roots) <= RecentLimit)
    => opened.root \in ToSet(persist.queue) \cup ToSet(persist.active) \cup ToSet(recentFile)

\* Quick open offers files of the newest listing or scan of the open workspace only.
QuickOpenIsCurrent ==
    (quick.visible /\ quick.results # None)
    => quick.results = QuickOpenSource(quick, listing, listingRevision, opened)

\* The matches shown are of the text, the folder and the option shown with them.
SearchIsCurrent ==
    search.results # None
    => /\ search.results.of = search.query
       /\ search.results.files.root = opened.root
       /\ search.results.files.ignored = search.ignored

=============================================================================
