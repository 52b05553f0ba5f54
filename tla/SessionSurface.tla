--------------------------- MODULE SessionSurface ---------------------------
(***************************************************************************)
(* The session canvas of the desktop (view/mod.rs session_detail_canvas,   *)
(* view/sessions.rs), the handlers of app.rs behind its buttons, the       *)
(* selection SessionSurfaces keeps, and the service that answers.          *)
(*                                                                         *)
(* The desktop acts on a copy of the catalog, shown, that is as old as the *)
(* last answer that carried one, while panes start and exit.  It has one   *)
(* request in flight at most; a request made meanwhile is dropped with an  *)
(* error message.  The connection is up and in control throughout: losing  *)
(* it is the subject of DesktopSessions.  Names and sizes are left out.    *)
(***************************************************************************)
EXTENDS SessionCatalog

CONSTANTS
    MaxGeneration,  \* bound: no pane is started more often
    MaxTurns        \* bound: requests made

VARIABLES
    provider,       \* remote_provider: "native" or "tmux"
    kept,           \* the service's catalog
    revision,       \* its revision
    given,          \* history: identifiers given out, by kind
    shown,          \* the client's catalog: [catalog, revision]
    selection,      \* selected_session, selected_window, selected_pane
    confirmation,   \* session_confirmation
    asked,          \* the request in flight, with its answer; NoRequest if none
    due,            \* messages a handler has returned as done tasks
    turns

surfaceVars == <<provider, kept, revision, given, shown, selection, confirmation, asked, due, turns>>
service == <<kept, revision, given>>

NoSelection == [session |-> None, window |-> None, pane |-> None]
NoConfirmation == [kind |-> "none", target |-> NoSelection, generation |-> 0, running |-> 0]
NoSnapshot == [catalog |-> EmptyCatalog, revision |-> 0]
NoRequest == [body |-> "none", target |-> NoSelection, generation |-> 0, revision |-> 0,
              confirmed |-> FALSE, running |-> 0, live |-> {}, answer |-> "none",
              snapshot |-> NoSnapshot]

\* The live panes of a catalog, each with its generation.
Lives(catalog) ==
    {[pane |-> p, generation |-> PaneOf(catalog, p).generation] :
        p \in {q \in PanesIn(catalog) : PaneOf(catalog, q).lifecycle \in LiveStates}}
LivesIn(catalog, panes) == {life \in Lives(catalog) : life.pane \in panes}

\* ProviderCapabilities: tmux sessions can be shown, written to and resized.
Can(capability) == provider = "native" \/ capability \in {"detach", "input", "resize"}
\* What the canvas enables: its buttons need a client that is ready and idle.
Ready == asked = NoRequest
Offered(capability) == Ready /\ Can(capability)
SessionOffered(capability) == Offered(capability) /\ selection.session # None
PaneOffered(capability) == Offered(capability) /\ selection.pane # None
-----------------------------------------------------------------------------
(* Requests: start_session_request.                                        *)

\* One at a time: while one is in flight another is dropped.
Ask(body, target, generation, confirmed, running) ==
    /\ turns < MaxTurns
    /\ turns' = turns + 1
    /\ asked' = IF asked = NoRequest
                THEN [body |-> body, target |-> target, generation |-> generation,
                      revision |-> shown.revision, confirmed |-> confirmed,
                      running |-> running, live |-> Lives(shown.catalog), answer |-> "none",
                      snapshot |-> NoSnapshot]
                ELSE asked
    /\ UNCHANGED <<provider, kept, revision, given, shown>>

AskFor(body, target) ==
    /\ Ask(body, target, 0, FALSE, 0)
    /\ UNCHANGED <<selection, confirmation, due>>

Selected == shown.catalog.sessions[selection.session]
-----------------------------------------------------------------------------
(* Selecting: the selection moves at once, whatever becomes of the request. *)

Moves(target, body) ==
    /\ selection' = target
    /\ IF provider = "tmux"
         THEN due' = due \cup {"poll"} /\ UNCHANGED <<provider, kept, revision, given, shown, asked, turns>>
         ELSE Ask(body, target, 0, FALSE, 0) /\ UNCHANGED due
    /\ UNCHANGED confirmation

SelectSession(s) ==
    /\ HasSession(shown.catalog, s)
    /\ LET window == ActiveWindow(shown.catalog.sessions[s])
       IN Moves([session |-> s, window |-> window.id, pane |-> window.focused], "activate")

\* The inventory lists the windows of the selected session and the panes of the
\* selected window.
SelectSessionWindow(i) ==
    /\ HasWindow(shown.catalog, selection.session, i)
    /\ LET window == Selected.windows[i]
       IN Moves([selection EXCEPT !.window = window.id, !.pane = window.focused],
                "activate_window")

SelectSessionPane(p) ==
    /\ p \in PanesIn(shown.catalog)
    /\ WindowOf(shown.catalog, p).id = selection.window
    /\ Moves([session |-> SessionOf(shown.catalog, p),
              window |-> WindowOf(shown.catalog, p).id, pane |-> p], "focus")

\* sync_selection: a selection whose pane is gone moves to what is active.
\* The same, keeping any selection.
SyncSelectionOnce(catalog) ==
    IF selection.pane # None \/ DOMAIN catalog.sessions = {} THEN selection
    ELSE LET s == catalog.active
             window == ActiveWindow(catalog.sessions[s])
         IN [session |-> s, window |-> window.id, pane |-> window.focused]
SyncSelection(catalog) ==
    IF selection.pane \in PanesIn(catalog) THEN selection
    ELSE IF DOMAIN catalog.sessions = {} THEN NoSelection
    ELSE LET s == catalog.active
             window == ActiveWindow(catalog.sessions[s])
         IN [session |-> s, window |-> window.id, pane |-> window.focused]
-----------------------------------------------------------------------------
(* The handlers behind the buttons.                                        *)

\* CreateSession, RenameSession, DuplicateSession, CreateSessionWindow,
\* RenameSessionWindow, DuplicateSessionWindow, SplitSessionPane, ResizeSessionPane and
\* SendSessionInput ask at once.
AskCreate == Offered("create_session") /\ AskFor("create", NoSelection)
AskOfSession ==
    \/ SessionOffered("rename_session") /\ AskFor("rename", selection)
    \/ SessionOffered("duplicate_session") /\ AskFor("duplicate", selection)
AskOfWindow ==
    /\ SessionOffered("mutate_windows")
    /\ \E body \in {"create_window", "rename_window", "duplicate_window"} :
         AskFor(body, selection)
AskSplit == PaneOffered("mutate_panes") /\ AskFor("split", selection)

LiveSelected == LivesIn(shown.catalog, {selection.pane})
AskOfRunning ==
    /\ \E body \in {"write", "resize"} :
         /\ Offered(IF body = "write" THEN "input" ELSE "resize")
         /\ \E life \in LiveSelected :
              Ask(body, selection, life.generation, FALSE, 0)
    /\ UNCHANGED <<selection, confirmation, due>>

\* A destructive button puts a question first when processes would end, or when
\* something would be removed.
Question(kind, generation, running) ==
    /\ confirmation' = [kind |-> kind, target |-> selection, generation |-> generation,
                        running |-> running]
    /\ UNCHANGED <<provider, kept, revision, given, shown, selection, asked, due, turns>>

Running == LivesIn(shown.catalog, PanesOf(Selected))
StartSessionPane ==
    /\ PaneOffered("mutate_panes")
    /\ IF LiveSelected # {} THEN Question("start_pane", 0, 1)
       ELSE AskFor("start_pane", selection)
BeginRestartSession ==
    /\ SessionOffered("terminate_session")
    /\ HasSession(shown.catalog, selection.session)
    /\ IF Running = {} THEN AskFor("restart_session", selection)
       ELSE Question("restart_session", 0, Cardinality(Running))
BeginTerminateSession ==
    /\ SessionOffered("terminate_session")
    /\ HasSession(shown.catalog, selection.session)
    /\ Running # {}
    /\ Question("terminate_session", 0, Cardinality(Running))
BeginRemoveSession ==
    /\ SessionOffered("terminate_session")
    /\ HasSession(shown.catalog, selection.session)
    /\ Running = {}
    /\ Question("remove_session", 0, 0)
BeginCloseSessionWindow ==
    /\ SessionOffered("mutate_windows")
    /\ HasSession(shown.catalog, selection.session)
    /\ \E i \in DOMAIN Selected.windows :
         /\ Selected.windows[i].id = selection.window
         /\ ~LiveWindow(Selected.windows[i])
    /\ Question("close_window", 0, 0)
BeginCloseSessionPane ==
    /\ PaneOffered("mutate_panes")
    /\ LiveSelected = {}
    /\ Question("close_pane", 0, 0)
BeginTerminateSessionPane ==
    /\ PaneOffered("terminate_session")
    /\ \E life \in LiveSelected : Question("terminate_pane", life.generation, 1)

\* The answer is offered at any time; the question is gone even when the request is
\* dropped.
ResolveSessionConfirmation(confirmed) ==
    /\ confirmation # NoConfirmation
    /\ confirmation' = NoConfirmation
    /\ IF confirmed
         THEN Ask(confirmation.kind, confirmation.target, confirmation.generation, TRUE,
                  confirmation.running)
         ELSE UNCHANGED <<provider, kept, revision, given, shown, asked, turns>>
    /\ UNCHANGED <<selection, due>>

RefreshSessions ==
    /\ Ready \/ "refresh" \in due
    /\ Ask("catalog", NoSelection, 0, FALSE, 0)
    /\ due' = due \ {"refresh"}
    /\ UNCHANGED <<selection, confirmation>>
\* Also every 250 ms.
PollSessions ==
    /\ due' = due \ {"poll"}
    /\ IF asked = NoRequest /\ selection.pane # None
         THEN Ask("snapshot", selection, 0, FALSE, 0)
         ELSE "poll" \in due /\ UNCHANGED <<provider, kept, revision, given, shown, asked, turns>>
    /\ UNCHANGED <<selection, confirmation>>
-----------------------------------------------------------------------------
(* The service: handle_controlled_request.                                 *)

Answer(kind) ==
    asked' = [asked EXCEPT !.answer = kind,
                !.snapshot = IF kind \in {"catalog", "changed"}
                             THEN [catalog |-> kept', revision |-> revision'] ELSE @]
FreshPanes == PaneIds \ given.panes
FreshWindows == WindowIds \ given.windows
Give(sessions, windows, panes) ==
    given' = [sessions |-> given.sessions \cup sessions, windows |-> given.windows \cup windows,
              panes |-> given.panes \cup panes]
Bump == revision' = revision + 1
IndexOf(s, w) == {i \in 1..MaxWindows : HasWindow(kept, s, i) /\ kept.sessions[s].windows[i].id = w}

\* Every request that changes the catalog names the revision it was shown.
\* The same, starting panes whatever the revision.
CurrentUnlessStart == asked.body = "start_pane" \/ asked.revision = revision
Current == asked.revision = revision

Creates ==
    LET s == asked.target.session
    IN \/ /\ asked.body = "create"
          /\ \E t \in SessionIds \ given.sessions, w \in FreshWindows, p \in FreshPanes :
               CreateSession(kept, kept', t, w, p) /\ Give({t}, {w}, {p})
       \/ /\ asked.body = "duplicate" /\ HasSession(kept, s)
          /\ \E t \in SessionIds \ given.sessions,
                ids \in Injection(PanesOf(kept.sessions[s]), FreshPanes),
                names \in Injection(DOMAIN kept.sessions[s].windows, FreshWindows) :
               DuplicateSession(kept, kept', s, t, names, ids) /\ Give({t}, Range(names), Range(ids))
       \/ /\ asked.body = "create_window"
          /\ \E w \in FreshWindows, p \in FreshPanes :
               CreateWindow(kept, kept', s, w, p) /\ Give({}, {w}, {p})
       \/ /\ asked.body = "duplicate_window"
          /\ \E i \in IndexOf(s, asked.target.window), w \in FreshWindows :
               \E ids \in Injection(DOMAIN kept.sessions[s].windows[i].panes, FreshPanes) :
                 DuplicateWindow(kept, kept', s, i, w, ids) /\ Give({}, {w}, Range(ids))
       \/ /\ asked.body = "split"
          /\ \E p \in FreshPanes : SplitFocused(kept, kept', s, p) /\ Give({}, {}, {p})

Changes ==
    LET s == asked.target.session
        p == asked.target.pane
    IN \/ asked.body = "rename" /\ RenameSession(kept, kept', s)
       \/ asked.body = "activate" /\ ActivateSession(kept, kept', s)
       \/ asked.body = "focus" /\ FocusPane(kept, kept', s, p)
       \/ asked.body = "remove_session" /\ RemoveSession(kept, kept', s)
       \/ asked.body = "close_pane" /\ ClosePane(kept, kept', s, p)
       \/ \E i \in IndexOf(s, asked.target.window) :
            \/ asked.body = "activate_window" /\ ActivateWindow(kept, kept', s, i)
            \/ asked.body = "close_window" /\ CloseWindow(kept, kept', s, i)
            \/ asked.body = "rename_window" /\ RenameWindow(kept, kept', s, i)

\* begin_terminate, begin_start and their completions: a pane's process ends, a new one
\* runs or cannot be spawned.
Exit(catalog, panes) ==
    SetLifecycle(catalog, [p \in panes |-> [generation |-> PaneOf(catalog, p).generation,
                                            lifecycle |-> "Exited"]])
Start(catalog, panes, started) ==
    LET begun == BeginGeneration(catalog, panes)
    IN SetLifecycle(begun, [p \in panes |->
           [generation |-> PaneOf(begun, p).generation,
            lifecycle |-> IF p \in started THEN "Running" ELSE "Failed"]])
Startable(panes) == \A p \in panes : PaneOf(kept, p).generation < MaxGeneration

\* start_default_pane, terminate_session and restart_session of strukt-sessiond: of a
\* batch each pane fails on its own.
Processes ==
    LET s == asked.target.session
        p == asked.target.pane
        live == IF HasSession(kept, s) THEN LivesIn(kept, PanesOf(kept.sessions[s])) ELSE {}
    IN \/ /\ asked.body = "start_pane" /\ p \in PanesIn(kept) /\ Startable({p})
          /\ \E started \in SUBSET {p} : kept' = Start(kept, {p}, started)
       \/ /\ asked.body = "terminate_pane"
          /\ [pane |-> p, generation |-> asked.generation] \in live
          /\ kept' = Exit(kept, {p})
       \/ /\ asked.body = "terminate_session" /\ HasSession(kept, s)
          /\ \E ended \in SUBSET {life.pane : life \in live} : kept' = Exit(kept, ended)
       \/ /\ asked.body = "restart_session" /\ HasSession(kept, s)
          /\ Startable(PanesOf(kept.sessions[s]))
          /\ \E stuck \in SUBSET {life.pane : life \in live} :
             \E started \in SUBSET (PanesOf(kept.sessions[s]) \ stuck) :
               kept' = Start(kept, PanesOf(kept.sessions[s]) \ stuck, started)

ServiceAnswers ==
    /\ asked # NoRequest /\ asked.answer = "none"
    /\ \/ asked.body = "catalog" /\ UNCHANGED service /\ Answer("catalog")
       \/ asked.body = "snapshot" /\ Answer("screen") /\ UNCHANGED service
       \/ /\ asked.body = "write"
          /\ [pane |-> asked.target.pane, generation |-> asked.generation] \in Lives(kept)
          /\ Answer("done") /\ UNCHANGED service
       \/ /\ Current /\ asked.body = "resize"
          /\ [pane |-> asked.target.pane, generation |-> asked.generation] \in Lives(kept)
          /\ Answer("done") /\ Bump /\ UNCHANGED <<kept, given>>
       \/ Current /\ Creates /\ Bump /\ Answer("created")
       \/ Current /\ Changes /\ Bump /\ UNCHANGED given /\ Answer("changed")
       \/ /\ Current /\ Processes /\ Bump /\ UNCHANGED given
          /\ Answer(IF asked.body = "start_pane" THEN "started" ELSE "batch")
    /\ UNCHANGED <<provider, shown, selection, confirmation, due, turns>>
\* Another revision or generation, an unknown target, a limit, an error of the runtime.
ServiceRefuses ==
    /\ asked # NoRequest /\ asked.answer = "none"
    /\ asked' = [asked EXCEPT !.answer = "refused"]
    /\ UNCHANGED <<provider, kept, revision, given, shown, selection, confirmation, due, turns>>

\* A process ends on its own.
ProcessExits ==
    /\ \E life \in Lives(kept) : kept' = Exit(kept, {life.pane})
    /\ Bump
    /\ UNCHANGED <<provider, given, shown, selection, confirmation, asked, due, turns>>
-----------------------------------------------------------------------------
(* SessionRequestFinished.                                                 *)

SessionRequestFinished ==
    /\ asked.answer # "none"
    /\ asked' = NoRequest
    /\ shown' = IF asked.answer \in {"catalog", "changed"} THEN asked.snapshot ELSE shown
    /\ selection' = IF asked.answer = "refused" THEN selection
                    ELSE SyncSelection(shown'.catalog)
    /\ due' = due \cup CASE asked.answer \in {"created", "screen", "batch"} -> {"refresh"}
                         [] asked.answer = "started" -> {"poll"}
                         [] OTHER -> {}
    /\ UNCHANGED <<provider, kept, revision, given, confirmation, turns>>
-----------------------------------------------------------------------------
\* Connected, with one session of one pane: stopped, or running in tmux.
SurfaceInit ==
    /\ provider \in {"native", "tmux"}
    /\ revision = 1
    /\ \E s \in SessionIds, w \in WindowIds, p \in PaneIds :
         /\ s = Min(SessionIds) /\ w = Min(WindowIds) /\ p = Min(PaneIds)
         /\ LET first == AddSession(EmptyCatalog, s, [windows |-> <<NewWindow(w, p)>>, active |-> w])
            IN kept = IF provider = "tmux" THEN Start(first, {p}, {p}) ELSE first
         /\ given = [sessions |-> {s}, windows |-> {w}, panes |-> {p}]
         /\ selection = [session |-> s, window |-> w, pane |-> p]
    /\ shown = [catalog |-> kept, revision |-> 1]
    /\ confirmation = NoConfirmation
    /\ asked = NoRequest
    /\ due = {}
    /\ turns = 0

SurfaceNext ==
    \/ \E s \in SessionIds : SelectSession(s)
    \/ \E i \in 1..MaxWindows : SelectSessionWindow(i)
    \/ \E p \in PaneIds : SelectSessionPane(p)
    \/ AskCreate \/ AskOfSession \/ AskOfWindow \/ AskSplit \/ AskOfRunning
    \/ StartSessionPane \/ BeginRestartSession \/ BeginTerminateSession \/ BeginRemoveSession
    \/ BeginCloseSessionWindow \/ BeginCloseSessionPane \/ BeginTerminateSessionPane
    \/ \E confirmed \in BOOLEAN : ResolveSessionConfirmation(confirmed)
    \/ RefreshSessions \/ PollSessions
    \/ ServiceAnswers \/ ServiceRefuses \/ ProcessExits
    \/ SessionRequestFinished

SurfaceSpec == SurfaceInit /\ [][SurfaceNext]_surfaceVars
-----------------------------------------------------------------------------
\* Type invariant: both catalogs are valid ones.
SurfaceTypeOK ==
    /\ ValidCatalog(kept) /\ ValidCatalog(shown.catalog)
    /\ shown.revision <= revision
    /\ selection.pane \in PaneIds \cup {None}
    /\ due \subseteq {"refresh", "poll"}

\* What is selected is what the inventory shows: one pane, with its own window and
\* session, of the catalog the desktop has, whatever was closed or removed meanwhile.
SelectionIsShown ==
    IF DOMAIN shown.catalog.sessions = {} THEN selection = NoSelection
    ELSE /\ selection.pane \in PanesIn(shown.catalog)
         /\ selection.session = SessionOf(shown.catalog, selection.pane)
         /\ selection.window = WindowOf(shown.catalog, selection.pane).id

\* The processes the service ends on behalf of the request.
Answers == asked.answer = "none" /\ asked'.answer # "none"
Ended == Lives(kept) \ Lives(kept')

\* A request ends processes only if the user confirmed it, and only processes the desktop
\* showed as running when the request was made: between the answer to a start and the next
\* catalog the desktop believes a running pane stopped, and must not end it unasked.  What the
\* question said is not compared: its count is the one of when it was put (app.rs:2178), and
\* more may run by the time it is confirmed (EndsAreNamed).
EndsAreConfirmed ==
    [][Answers => Ended = {} \/ (asked.confirmed /\ Ended \subseteq asked.live)]_surfaceVars

\* docs/specs/0007-m3-local-persistent-sessions.md:343: "Destructive actions name the exact
\* session/window/pane and running count."  A request ends no more processes than the question
\* named.  (It may: panes start between the question and its confirmation.)
EndsAreNamed == [][Answers => Cardinality(Ended) <= asked.running]_surfaceVars
=============================================================================
