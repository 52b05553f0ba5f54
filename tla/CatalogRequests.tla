--------------------------- MODULE CatalogRequests ---------------------------
(***************************************************************************)
(* What a client may ask of the session catalog: the mutations of          *)
(* SessionCatalog as strukt-sessiond calls them, with identifiers that     *)
(* nobody had before.                                                      *)
(***************************************************************************)
EXTENDS SessionCatalog

VARIABLES
    catalog,    \* SessionService.catalog
    used        \* history: the identifiers given out so far, by kind

\* SessionId::new, WindowId::new, PaneId::new: identifiers nobody had before.
\* Windows are never compared, so they are simply numbered.
FreshSessions == SessionIds \ used.session
FreshPanes == PaneIds \ used.pane
NextWindows(n) ==
    LET free == WindowIds \ used.window
    IN  IF Cardinality(free) < n THEN {}
        ELSE {SubSeq(SetToSortSeq(free, <), 1, n)}
Use(sessions, windows, panes) ==
    used' = [session |-> used.session \cup sessions,
             window  |-> used.window \cup windows,
             pane    |-> used.pane \cup panes]

Create(s, pane) ==
    \E w \in NextWindows(1) :
        /\ CreateSession(catalog, catalog', s, w[1], pane)
        /\ Use({s}, {w[1]}, {pane})

OpenWindow(s, pane) ==
    \E w \in NextWindows(1) :
        /\ CreateWindow(catalog, catalog', s, w[1], pane)
        /\ Use({}, {w[1]}, {pane})

CloneWindow(s, i) ==
    /\ HasWindow(catalog, s, i)
    /\ \E w \in NextWindows(1),
          ids \in Injection(DOMAIN catalog.sessions[s].windows[i].panes, FreshPanes) :
           /\ DuplicateWindow(catalog, catalog', s, i, w[1], ids)
           /\ Use({}, {w[1]}, Range(ids))

CloneSession(source, s) ==
    /\ HasSession(catalog, source)
    /\ \E names \in NextWindows(Len(catalog.sessions[source].windows)),
          ids \in Injection(PanesOf(catalog.sessions[source]), FreshPanes) :
           /\ DuplicateSession(catalog, catalog', source, s, names, ids)
           /\ Use({s}, Range(names), Range(ids))

Split(s, pane) ==
    /\ SplitFocused(catalog, catalog', s, pane)
    /\ Use({}, {}, {pane})

\* The requests that bring new identifiers, and those that do not.
Enlarge ==
    \/ \E s \in FreshSessions, pane \in FreshPanes : Create(s, pane)
    \/ \E s \in SessionIds, pane \in FreshPanes : OpenWindow(s, pane) \/ Split(s, pane)
    \/ \E s \in SessionIds, i \in 1..MaxWindows : CloneWindow(s, i)
    \/ \E source \in SessionIds, s \in FreshSessions : CloneSession(source, s)

Rearrange ==
    /\ \/ \E s \in SessionIds :
              \/ ActivateSession(catalog, catalog', s)
              \/ RemoveSession(catalog, catalog', s)
              \/ \E i \in 1..MaxWindows :
                    \/ ActivateWindow(catalog, catalog', s, i)
                    \/ CloseWindow(catalog, catalog', s, i)
              \/ \E pane \in PaneIds :
                    \/ FocusPane(catalog, catalog', s, pane)
                    \/ ClosePane(catalog, catalog', s, pane)
    /\ UNCHANGED used

Retouch(s) ==
    /\ \/ RenameSession(catalog, catalog', s)
       \/ ResizeSplit(catalog, catalog', s)
       \/ \E i \in 1..MaxWindows : RenameWindow(catalog, catalog', s, i)
    /\ UNCHANGED used
=============================================================================
