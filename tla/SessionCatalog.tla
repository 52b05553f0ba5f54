--------------------------- MODULE SessionCatalog ---------------------------
(***************************************************************************)
(* The session catalog (crates/strukt-session/src/catalog.rs): sessions    *)
(* made of windows made of panes in a split layout, with the mutations the *)
(* service applies to it.                                                  *)
(*                                                                         *)
(* A catalog is a value, as in the code.  A mutation is a relation between *)
(* a catalog and the next: it holds of no next catalog when the code       *)
(* returns an error, which changes nothing.  Identifiers are               *)
(* numbers, because the code picks the least one as the next focus; names, *)
(* directories, sizes, split axes and ratios are left out.  Every accepted *)
(* mutation also adds one to the catalog's revision, and every one but     *)
(* set_generation_lifecycle refuses a request that names another revision: *)
(* both are left to the modules that use this one.                         *)
(***************************************************************************)
EXTENDS TerminalPane, FiniteSets, SequencesExt

CONSTANTS
    SessionIds, WindowIds, PaneIds,  \* identifiers, drawn at random by the code
    MaxSessions, MaxWindows,         \* MAX_SESSIONS, MAX_WINDOWS_PER_SESSION
    MaxPanes, MaxTotalPanes,         \* MAX_PANES_PER_WINDOW, MAX_TOTAL_PANES
    MaxDepth                         \* MAX_LAYOUT_DEPTH

ASSUME CatalogAssumption ==
    /\ SessionIds \cup WindowIds \cup PaneIds \subseteq Nat \ {0}
    /\ {MaxSessions, MaxWindows, MaxPanes, MaxTotalPanes, MaxDepth} \subseteq Nat \ {0}

None == 0

\* SessionLayoutNode: a split tree, as the panes at its leaves.  A leaf is named
\* by its path from the root, 0 for the first branch of a split and 1 for the
\* second.
Path == Seq({0, 1})
Leaf(pane) == [path \in {<<>>} |-> pane]
PathTo(root, pane) == CHOOSE path \in DOMAIN root : root[path] = pane

\* SessionLayoutNode::split: the focused leaf becomes a split of it and the new
\* pane.
SplitLeaf(root, focused, new) ==
    LET at     == PathTo(root, focused)
        first  == Append(at, 0)
        second == Append(at, 1)
    IN  [path \in (DOMAIN root \ {at}) \cup {first, second} |->
            CASE path = first  -> focused
              [] path = second -> new
              [] OTHER         -> root[path]]

\* A faulty variant: the branches of the sibling change places on the way up.
RemoveLeafMirrored(root, pane) ==
    LET at      == PathTo(root, pane)
        parent  == Front(at)
        sibling == Append(parent, 1 - Last(at))
        rest    == DOMAIN root \ {at}
        Lift(path) == IF IsPrefix(sibling, path)
                      THEN parent \o [i \in 1..(Len(path) - Len(sibling)) |->
                                         1 - path[Len(sibling) + i]]
                      ELSE path
    IN  [path \in {Lift(p) : p \in rest} |->
            root[CHOOSE p \in rest : Lift(p) = path]]

\* SessionLayoutNode::remove: the leaf goes and its sibling takes the place of
\* their parent.
RemoveLeaf(root, pane) ==
    LET at      == PathTo(root, pane)
        parent  == Front(at)
        sibling == Append(parent, 1 - Last(at))
        rest    == DOMAIN root \ {at}
        Lift(path) == IF IsPrefix(sibling, path)
                      THEN parent \o SubSeq(path, Len(sibling) + 1, Len(path))
                      ELSE path
    IN  [path \in {Lift(p) : p \in rest} |->
            root[CHOOSE p \in rest : Lift(p) = path]]

\* SessionLayoutNode::remap.
RemapLeaves(root, ids) == [path \in DOMAIN root |-> ids[root[path]]]

\* SessionLayoutNode::validate: every pane exactly once, and not too deep.
ValidLayout(root, panes) ==
    /\ \A path \in DOMAIN root : Len(path) < MaxDepth
    /\ IsInjective(root)
    /\ Range(root) = panes

StoppedPane == [generation |-> 0, lifecycle |-> "Stopped"]

NewWindow(w, pane) ==
    [id |-> w, root |-> Leaf(pane), focused |-> pane,
     panes |-> [p \in {pane} |-> StoppedPane]]

\* SessionWindow::validate, for what is kept here.
ValidWindow(window) ==
    /\ Cardinality(DOMAIN window.panes) \in 1..MaxPanes
    /\ window.focused \in DOMAIN window.panes
    /\ ValidLayout(window.root, DOMAIN window.panes)

\* A faulty variant: only the focused pane is looked at.
LiveFocus(window) == window.panes[window.focused].lifecycle \in LiveStates

LiveWindow(window) ==
    \E p \in DOMAIN window.panes : window.panes[p].lifecycle \in LiveStates

\* What SessionWindow, Session and SessionCatalog are made of, valid or not.
IsWindow(window) ==
    /\ window = [id |-> window.id, root |-> window.root, focused |-> window.focused,
                 panes |-> window.panes]
    /\ window.panes = [p \in DOMAIN window.panes |-> window.panes[p]]
IsSession(session) ==
    /\ session = [windows |-> session.windows, active |-> session.active]
    /\ session.windows \in Seq(Range(session.windows))
    /\ \A i \in DOMAIN session.windows : IsWindow(session.windows[i])
IsCatalog(catalog) ==
    /\ catalog = [sessions |-> catalog.sessions, active |-> catalog.active]
    /\ catalog.sessions = [s \in DOMAIN catalog.sessions |-> catalog.sessions[s]]
    /\ \A s \in DOMAIN catalog.sessions : IsSession(catalog.sessions[s])

EmptyCatalog == [sessions |-> [s \in {} |-> <<>>], active |-> None]

Windows(catalog) ==
    UNION {Range(catalog.sessions[s].windows) : s \in DOMAIN catalog.sessions}
PanesIn(catalog) == UNION {DOMAIN window.panes : window \in Windows(catalog)}
PanesOf(session) == UNION {DOMAIN window.panes : window \in Range(session.windows)}

\* SessionCatalog::pane.
SessionOf(catalog, pane) ==
    CHOOSE s \in DOMAIN catalog.sessions : pane \in PanesOf(catalog.sessions[s])
WindowOf(catalog, pane) ==
    CHOOSE window \in Windows(catalog) : pane \in DOMAIN window.panes
PaneOf(catalog, pane) == WindowOf(catalog, pane).panes[pane]

\* Session::active_window.
ActiveIndex(session) ==
    CHOOSE i \in DOMAIN session.windows : session.windows[i].id = session.active
ActiveWindow(session) == session.windows[ActiveIndex(session)]

PaneCount(windows) == FoldFunctionOnSet(+, 0,
    [i \in DOMAIN windows |-> Cardinality(DOMAIN windows[i].panes)], DOMAIN windows)
\* SessionCatalog::total_panes.
TotalPanes(catalog) == FoldFunctionOnSet(+, 0,
    [s \in DOMAIN catalog.sessions |-> PaneCount(catalog.sessions[s].windows)],
    DOMAIN catalog.sessions)

\* SessionCatalog::validate.
ValidCatalog(catalog) ==
    /\ Cardinality(DOMAIN catalog.sessions) <= MaxSessions
    /\ IF DOMAIN catalog.sessions = {}
       THEN catalog.active = None
       ELSE catalog.active \in DOMAIN catalog.sessions
    /\ \A s \in DOMAIN catalog.sessions :
         LET session == catalog.sessions[s] IN
         /\ Len(session.windows) \in 1..MaxWindows
         /\ IsInjective([i \in DOMAIN session.windows |-> session.windows[i].id])
         /\ \E i \in DOMAIN session.windows : session.windows[i].id = session.active
         /\ \A i \in DOMAIN session.windows : ValidWindow(session.windows[i])
    /\ TotalPanes(catalog) = Cardinality(PanesIn(catalog))   \* no pane twice
    /\ TotalPanes(catalog) <= MaxTotalPanes

\* A window, a session and a catalog with every pane replaced.
MapWindow(window, New(_, _)) ==
    [window EXCEPT !.panes = [p \in DOMAIN @ |-> New(p, @[p])]]
MapSession(session, New(_, _)) ==
    [session EXCEPT !.windows = [i \in DOMAIN @ |-> MapWindow(@[i], New)]]
MapPanes(catalog, New(_, _)) ==
    [catalog EXCEPT !.sessions = [s \in DOMAIN @ |-> MapSession(@[s], New)]]

\* SessionCatalog::stopped_clone, of a valid catalog.
StoppedClone(catalog) ==
    LET Stop(p, pane) == StoppedPane IN MapPanes(catalog, Stop)

-----------------------------------------------------------------------------
(* The mutations a client can ask for.                                      *)

SetSession(catalog, s, session) == [catalog EXCEPT !.sessions[s] = session]
AddSession(catalog, s, session) ==
    [sessions |-> [t \in DOMAIN catalog.sessions \cup {s} |->
                      IF t = s THEN session ELSE catalog.sessions[t]],
     active |-> s]
\* The new window comes last and is the active one.
AddWindow(catalog, s, window) ==
    SetSession(catalog, s, [windows |-> Append(catalog.sessions[s].windows, window),
                            active  |-> window.id])
SetWindow(catalog, s, i, window) ==
    [catalog EXCEPT !.sessions[s].windows[i] = window]

HasSession(catalog, s) == s \in DOMAIN catalog.sessions
HasWindow(catalog, s, i) == HasSession(catalog, s) /\ i \in DOMAIN catalog.sessions[s].windows
RoomForSession(catalog) == Cardinality(DOMAIN catalog.sessions) < MaxSessions
RoomForWindow(session) == Len(session.windows) < MaxWindows

CreateSession(catalog, next, s, w, pane) ==
    /\ RoomForSession(catalog)
    /\ TotalPanes(catalog) < MaxTotalPanes
    /\ next = AddSession(catalog, s, [windows |-> <<NewWindow(w, pane)>>, active |-> w])

ActivateSession(catalog, next, s) ==
    /\ HasSession(catalog, s)
    /\ next = [catalog EXCEPT !.active = s]

CreateWindow(catalog, next, s, w, pane) ==
    /\ TotalPanes(catalog) < MaxTotalPanes
    /\ HasSession(catalog, s)
    /\ RoomForWindow(catalog.sessions[s])
    /\ next = AddWindow(catalog, s, NewWindow(w, pane))

ActivateWindow(catalog, next, s, i) ==
    /\ HasWindow(catalog, s, i)
    /\ next = [catalog EXCEPT !.sessions[s].active = catalog.sessions[s].windows[i].id]

\* A copy of a window under new identifiers, stopped.
CopyWindow(window, w, ids) ==
    [id      |-> w,
     root    |-> RemapLeaves(window.root, ids),
     focused |-> ids[window.focused],
     panes   |-> [p \in {ids[q] : q \in DOMAIN window.panes} |-> StoppedPane]]

DuplicateWindow(catalog, next, s, i, w, ids) ==
    /\ HasWindow(catalog, s, i)
    /\ RoomForWindow(catalog.sessions[s])
    /\ LET source == catalog.sessions[s].windows[i] IN
       /\ TotalPanes(catalog) + Cardinality(DOMAIN source.panes) <= MaxTotalPanes
       /\ next = AddWindow(catalog, s, CopyWindow(source, w, ids))

\* The windows of a session get the identifiers names, their panes those of ids.
DuplicateSession(catalog, next, source, s, names, ids) ==
    /\ HasSession(catalog, source)
    /\ RoomForSession(catalog)
    /\ LET old == catalog.sessions[source] IN
       /\ TotalPanes(catalog) + PaneCount(old.windows) <= MaxTotalPanes
       /\ next = AddSession(catalog, s,
            [windows |-> [i \in DOMAIN old.windows |->
                             CopyWindow(old.windows[i], names[i], ids)],
             active  |-> names[ActiveIndex(old)]])

\* The window after the closed one becomes active, or the last one.
CloseWindow(catalog, next, s, i) ==
    /\ HasWindow(catalog, s, i)
    /\ LET session == catalog.sessions[s]
           left    == RemoveAt(session.windows, i)
       IN  /\ ~LiveWindow(session.windows[i])
           /\ Len(session.windows) > 1
           /\ next = SetSession(catalog, s,
                [windows |-> left,
                 active  |-> IF session.active # session.windows[i].id
                             THEN session.active
                             ELSE IF i <= Len(left) THEN left[i].id
                             ELSE Last(left).id])

SplitFocused(catalog, next, s, pane) ==
    /\ TotalPanes(catalog) < MaxTotalPanes
    /\ HasSession(catalog, s)
    /\ LET i      == ActiveIndex(catalog.sessions[s])
           window == catalog.sessions[s].windows[i]
           root   == SplitLeaf(window.root, window.focused, pane)
           panes  == [p \in DOMAIN window.panes \cup {pane} |->
                         IF p = pane THEN StoppedPane ELSE window.panes[p]]
       IN  /\ Cardinality(DOMAIN window.panes) < MaxPanes
           /\ ValidLayout(root, DOMAIN panes)
           /\ next = SetWindow(catalog, s, i,
                [window EXCEPT !.root = root, !.panes = panes, !.focused = pane])

FocusPane(catalog, next, s, pane) ==
    /\ HasSession(catalog, s)
    /\ LET i == ActiveIndex(catalog.sessions[s])
           window == catalog.sessions[s].windows[i]
       IN  /\ pane \in DOMAIN window.panes \cap Range(window.root)
           /\ next = SetWindow(catalog, s, i, [window EXCEPT !.focused = pane])

\* A faulty variant: the focus stays with the pane that is gone.
ClosePaneInFocus(catalog, next, s, pane) ==
    /\ HasSession(catalog, s)
    /\ pane \in PanesOf(catalog.sessions[s])
    /\ LET windows == catalog.sessions[s].windows
           i      == SelectInSeq(windows, LAMBDA w : pane \in DOMAIN w.panes)
           rest   == DOMAIN windows[i].panes \ {pane}
       IN  /\ windows[i].panes[pane].lifecycle \notin LiveStates
           /\ rest # {}
           /\ next = SetWindow(catalog, s, i,
                [windows[i] EXCEPT !.root = RemoveLeaf(@, pane),
                                   !.panes = Restrict(@, rest)])

\* The least pane that is left takes the focus of the closed one.
ClosePane(catalog, next, s, pane) ==
    /\ HasSession(catalog, s)
    /\ pane \in PanesOf(catalog.sessions[s])
    /\ LET windows == catalog.sessions[s].windows
           i      == SelectInSeq(windows, LAMBDA w : pane \in DOMAIN w.panes)
           window == windows[i]
           rest   == DOMAIN window.panes \ {pane}
       IN  /\ window.panes[pane].lifecycle \notin LiveStates
           /\ rest # {}
           /\ next = SetWindow(catalog, s, i,
                [window EXCEPT !.root = RemoveLeaf(@, pane),
                               !.panes = Restrict(@, rest),
                               !.focused = IF @ = pane THEN Min(rest) ELSE @])

\* The least session that is left becomes the active one.
RemoveSession(catalog, next, s) ==
    /\ HasSession(catalog, s)
    /\ ~\E window \in Range(catalog.sessions[s].windows) : LiveWindow(window)
    /\ LET rest == DOMAIN catalog.sessions \ {s} IN
       next = [sessions |-> Restrict(catalog.sessions, rest),
               active   |-> IF catalog.active # s THEN catalog.active
                            ELSE IF rest = {} THEN None ELSE Min(rest)]

\* What follows changes only what is left out here, and the revision.
RenameSession(catalog, next, s) == HasSession(catalog, s) /\ next = catalog

RenameWindow(catalog, next, s, i) == HasWindow(catalog, s, i) /\ next = catalog

\* Only a focused pane that has a sibling has a split around it.
ResizeSplit(catalog, next, s) ==
    /\ HasSession(catalog, s)
    /\ LET window == ActiveWindow(catalog.sessions[s])
       IN  PathTo(window.root, window.focused) # <<>>
    /\ next = catalog

SetPaneSize(catalog, next, s, pane) ==
    /\ HasSession(catalog, s)
    /\ pane \in PanesOf(catalog.sessions[s])
    /\ next = catalog

\* SessionService::import_stopped_catalog: only into an empty catalog.
ImportStopped(catalog, next, given) ==
    /\ DOMAIN catalog.sessions = {}
    /\ ValidCatalog(given)
    /\ next = StoppedClone(given)

-----------------------------------------------------------------------------
(* What the service does to panes of the catalog.                           *)

\* begin_pane_generation, of each of the panes.
BeginGeneration(catalog, panes) ==
    LET Begun(p, pane) ==
          IF p \notin panes THEN pane
          ELSE [generation |-> pane.generation + 1, lifecycle |-> "Starting"]
    IN  MapPanes(catalog, Begun)

\* set_generation_lifecycle, of each pane reported on: a report of another
\* generation changes nothing.
SetLifecycle(catalog, reports) ==
    LET Set(p, pane) ==
          IF p \in DOMAIN reports /\ reports[p].generation = pane.generation
          THEN [pane EXCEPT !.lifecycle = reports[p].lifecycle] ELSE pane
    IN  MapPanes(catalog, Set)

-----------------------------------------------------------------------------
(* The terminal tabs of a workspace that never had sessions, as the catalog *)
(* the desktop asks the service to import                                   *)
(* (crates/strukt-persistence/src/session_store.rs).  A tab has a split     *)
(* tree of terminal panes, as a window has; nothing of it is started.       *)
(* Which workspace is migrated, and when, is Migrates in DesktopSessions.   *)

\* migrate_layout and the panes of a tab, which get identifiers of their own: a pane that
\* is not one of the tab's is an invalid layout.
IsTab(tab) == {tab.focused} \cup Range(tab.root) \subseteq tab.panes
StoppedWindow(tab, w, ids) ==
    [id |-> w, root |-> RemapLeaves(tab.root, ids), focused |-> ids[tab.focused],
     panes |-> [p \in {ids[q] : q \in tab.panes} |-> StoppedPane]]

\* import_stopped_session: a session of these windows, the i-th of them active.
CanImportSession(catalog, windows, i) ==
    /\ RoomForSession(catalog)
    /\ Len(windows) \in 1..MaxWindows
    /\ i \in DOMAIN windows
    /\ TotalPanes(catalog) + PaneCount(windows) <= MaxTotalPanes
    /\ \A j \in DOMAIN windows : ValidWindow(windows[j])
    /\ \A j, k \in DOMAIN windows :
         j # k => DOMAIN windows[j].panes \cap DOMAIN windows[k].panes = {}
ImportSession(catalog, s, windows, i) ==
    AddSession(catalog, s, [windows |-> windows, active |-> windows[i].id])

\* plan_session_migration: one session with a window for each tab; the first window is
\* active when the workspace does not say which.  There is no plan without tabs, or when
\* one of them does not fit.
PlannedCatalogs(tabs, active, s, names, ids) ==
    LET windows == [i \in DOMAIN tabs |-> StoppedWindow(tabs[i], names[i], ids)]
        i == IF active \in DOMAIN tabs THEN active ELSE 1
    IN  IF /\ tabs # <<>>
           /\ \A k \in DOMAIN tabs : IsTab(tabs[k])
           /\ CanImportSession(EmptyCatalog, windows, i)
        THEN {ImportSession(EmptyCatalog, s, windows, i)} ELSE {}
=============================================================================
