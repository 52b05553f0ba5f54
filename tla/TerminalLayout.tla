--------------------------- MODULE TerminalLayout ---------------------------
(***************************************************************************)
(* The terminal tabs of a workspace: the layout of tabs and split panes    *)
(* (crates/strukt-terminal/src/layout.rs), the surfaces that keep it beside*)
(* the runtime (crates/strukt-app/src/terminal.rs) and the messages that   *)
(* change both (crates/strukt-app/src/app.rs).                             *)
(*                                                                         *)
(* Pane and tab identifiers are counters of the desktop process.  They are *)
(* written into the workspace and read back by a later process, so two     *)
(* workspaces may hold the same ones.  The runtime of a pane is the one of *)
(* TerminalPane; how its jobs end a former process is in TerminalRuntime.  *)
(* Ratios, names and error texts are left out, and so is the copy of the   *)
(* layout in the open workspace's state: request_persistence renews it     *)
(* before it is written.  Whether keys go to the terminal is in Shell.     *)
(***************************************************************************)
EXTENDS TerminalPane, Sequences, SequencesExt, FiniteSets

CONSTANTS
    None,
    Workspaces,
    Budgets       \* bounds: panes ever made, starts, workspaces opened, saves,
                  \* turns of the drain, moves of the focus, and selections,
                  \* scrolls and pastes

VARIABLES
    layout,       \* TerminalSurfaces.workspace: tabs, the active one, pane states
    runtime,      \* TerminalSurfaces.runtime
    holds,        \* the workspace in whose root the process of a pane was started
    selections,   \* panes with a selection
    scrolled,     \* panes whose viewport_offset is not zero
    place,        \* the root of the open workspace
    migrated,     \* terminal_migrated_to_sessions
    stored,       \* the layout in each workspace's record, or None
    nextPane, nextTab,
    starting,     \* StartTerminal messages on their way
    spawns,       \* start jobs and their completions
    clipboard,    \* clipboard reads on their way, with the pane and its workspace
    pendingClose, \* pending_terminal_close
    pendingPaste, \* pending_terminal_paste
    budget, used  \* the bounds of this run, and what it has used of them

layoutVars == <<layout, runtime, holds, selections, scrolled, place, migrated, stored, nextPane,
                nextTab, starting, spawns, clipboard, pendingClose, pendingPaste, budget,
                used>>
surfaces == <<layout, runtime, holds, selections, scrolled>>

-----------------------------------------------------------------------------
(* LayoutNode: a tree whose leaves are panes. How its splits are nested and *)
(* along which axis only decides where the panes are drawn: a node is here  *)
(* the sequence of its leaves, in the order collect_panes has them.         *)

Pane(p) == <<p>>

ContainsPane(root, p) == p \in ToSet(root)

LeafOf(root, p) == SelectInSeq(root, LAMBDA q : q = p)

\* split: the leaf becomes a split of itself and the new pane, which follows it.
SplitNode(root, p, new) == InsertAt(root, LeafOf(root, p) + 1, new)

\* remove: the split that loses a side becomes the other side; nothing is left
\* of a root that was the pane.
RemoveNode(root, p) == RemoveAt(root, LeafOf(root, p))

-----------------------------------------------------------------------------
(* TerminalWorkspace.                                                       *)

NoLayout == [tabs |-> <<>>, active |-> None, panes |-> [p \in {} |-> "Stopped"]]

TabIndex(l, tab) == SelectInSeq(l.tabs, LAMBDA t : t.id = tab)
TabOf(l, p) == SelectInSeq(l.tabs, LAMBDA t : ContainsPane(t.root, p))
ActiveTab(l) == l.tabs[TabIndex(l, l.active)]
FocusedPane(l) == IF l.active = None THEN None ELSE ActiveTab(l).focused
WithPane(l, p, state) ==
    [q \in DOMAIN l.panes \cup {p} |-> IF q = p THEN state ELSE l.panes[q]]

CreateTab(l, tab, p) ==
    [tabs |-> Append(l.tabs, [id |-> tab, root |-> Pane(p), focused |-> p]),
     active |-> tab, panes |-> WithPane(l, p, "Stopped")]

SplitFocused(l, p) ==
    LET i == TabIndex(l, l.active)
        tab == [l.tabs[i] EXCEPT !.root = SplitNode(@, FocusedPane(l), p), !.focused = p]
    IN  [l EXCEPT !.tabs[i] = tab, !.panes = WithPane(l, p, "Stopped")]

\* A faulty variant: the focus stays with the pane that goes.
ClosePaneKeepingFocus(l, p) ==
    LET i == TabOf(l, p)
        root == RemoveNode(l.tabs[i].root, p)
        rest == RemoveAt(l.tabs, i)
    IN  [tabs |-> IF root = <<>> THEN rest ELSE [l.tabs EXCEPT ![i].root = root],
         active |-> IF root = <<>> /\ l.active = l.tabs[i].id
                    THEN IF rest = <<>> THEN None ELSE rest[1].id ELSE l.active,
         panes |-> [q \in DOMAIN l.panes \ {p} |-> l.panes[q]]]

\* close_pane: the tab of the last pane goes too, and the next tab, or the last
\* one, becomes active.
ClosePane(l, p) ==
    LET i == TabOf(l, p)
        tab == l.tabs[i]
        root == RemoveNode(tab.root, p)
        rest == RemoveAt(l.tabs, i)
        panes == [q \in DOMAIN l.panes \ {p} |-> l.panes[q]]
        left == [tab EXCEPT !.root = root, !.focused = IF @ = p THEN Head(root) ELSE @]
    IN  IF root # <<>>
        THEN [l EXCEPT !.tabs[i] = left, !.panes = panes]
        ELSE [tabs |-> rest, panes |-> panes,
              active |-> IF l.active # tab.id THEN l.active
                         ELSE IF rest = <<>> THEN None
                         ELSE IF i <= Len(rest) THEN rest[i].id ELSE Last(rest).id]

FocusPane(l, p) == [l EXCEPT !.tabs[TabIndex(l, l.active)].focused = p]

\* snapshot: the layout without the states of the panes.
Snapshot(l) ==
    [active |-> l.active,
     tabs |-> [i \in DOMAIN l.tabs |->
                  [tab |-> l.tabs[i], panes |-> ToSet(l.tabs[i].root) \cap DOMAIN l.panes]]]

\* validate_snapshot
ValidSnapshot(s) ==
    /\ IF s.tabs = <<>> THEN s.active = None
       ELSE \E i \in DOMAIN s.tabs : s.tabs[i].tab.id = s.active
    /\ \A i, j \in DOMAIN s.tabs :
           i # j => /\ s.tabs[i].tab.id # s.tabs[j].tab.id
                    /\ s.tabs[i].panes \cap s.tabs[j].panes = {}
    /\ \A i \in DOMAIN s.tabs :
           LET root == s.tabs[i].tab.root IN
           /\ IsInjective(root)
           /\ s.tabs[i].tab.focused \in ToSet(root)
           /\ s.tabs[i].panes = ToSet(root)

\* TerminalWorkspace::restore: every pane comes back stopped.
Restore(s) ==
    [tabs |-> [i \in DOMAIN s.tabs |-> s.tabs[i].tab], active |-> s.active,
     panes |-> [p \in UNION {s.tabs[i].panes : i \in DOMAIN s.tabs} |-> "Stopped"]]

\* reserve_after: identifiers made later are above the restored ones.
Reserve(next, ids) == Max({next} \cup {i + 1 : i \in ids})

\* What an earlier process may have left: no record, or the first tab it made.
Left == {None, Snapshot(CreateTab(NoLayout, 1, 1))}

LayoutInit ==
    /\ layout = NoLayout
    /\ runtime = [p \in {} |-> NewPane(1, "Stopped")]
    /\ holds = [p \in {} |-> None]
    /\ selections = {} /\ scrolled = {}
    /\ place = None /\ migrated = FALSE
    /\ stored \in [Workspaces -> Left]
    /\ nextPane = 1 /\ nextTab = 1
    /\ starting = {} /\ spawns = {} /\ clipboard = {}
    /\ pendingClose = None /\ pendingPaste = None
    /\ budget \in Budgets /\ used = [k \in DOMAIN budget |-> 0]

Spend(k) == used[k] < budget[k] /\ used' = [used EXCEPT ![k] = @ + 1] /\ UNCHANGED budget

-----------------------------------------------------------------------------
(* Messages that change the layout.                                         *)

OpenPanes == DOMAIN layout.panes

\* TerminalRuntime::prepare of a new pane.
Prepared(p) ==
    [q \in DOMAIN runtime \cup {p} |-> IF q = p THEN NewPane(1, "Stopped") ELSE runtime[q]]

\* NewTerminal: the new pane is started by a message of its own.
NewTerminal ==
    /\ place # None /\ Spend("pane")
    /\ layout' = CreateTab(layout, nextTab, nextPane)
    /\ runtime' = Prepared(nextPane)
    /\ starting' = starting \cup {nextPane}
    /\ nextPane' = nextPane + 1 /\ nextTab' = nextTab + 1
    /\ UNCHANGED <<holds, selections, scrolled, place, migrated, stored, spawns, clipboard,
                   pendingClose, pendingPaste>>

SplitTerminal ==
    /\ place # None /\ layout.active # None /\ Spend("pane")
    /\ layout' = SplitFocused(layout, nextPane)
    /\ runtime' = Prepared(nextPane)
    /\ starting' = starting \cup {nextPane}
    /\ nextPane' = nextPane + 1
    /\ UNCHANGED <<holds, selections, scrolled, place, migrated, stored, nextTab, spawns,
                   clipboard, pendingClose, pendingPaste>>

Shows(l) ==
    /\ Spend("move")
    /\ layout' = l
    /\ UNCHANGED <<runtime, holds, selections, scrolled, place, migrated, stored, nextPane,
                   nextTab, starting, spawns, clipboard, pendingClose, pendingPaste>>

\* ActivateTerminalTab, for a tab of the strip or the command center.
ActivateTerminalTab(i) == i \in DOMAIN layout.tabs /\ Shows([layout EXCEPT !.active = layout.tabs[i].id])

\* The one before or after, around the ends.
Relative(i, n, reverse) ==
    IF reverse THEN IF i = 1 THEN n ELSE i - 1 ELSE (i % n) + 1

ActivateRelativeTerminalTab(reverse) ==
    /\ layout.active # None
    /\ LET i == Relative(TabIndex(layout, layout.active), Len(layout.tabs), reverse)
       IN  Shows([layout EXCEPT !.active = layout.tabs[i].id])

FocusRelativeTerminalPane(reverse) ==
    /\ layout.active # None
    /\ LET panes == ActiveTab(layout).root
           i == LeafOf(panes, FocusedPane(layout))
       IN  i # 0 /\ Shows(FocusPane(layout, panes[Relative(i, Len(panes), reverse)]))

\* A click in a pane that is shown: TerminalWidget Focus and Mouse.
FocusTerminalPane(p) ==
    /\ layout.active # None
    /\ ContainsPane(ActiveTab(layout).root, p)
    /\ Shows(FocusPane(layout, p))

-----------------------------------------------------------------------------
(* Processes.                                                               *)

\* begin_start: the layout and the runtime both turn to "Starting"; a pane that
\* is starting, or is not there, is refused.
Begins(p) ==
    /\ Spend("start")
    /\ LET generation == runtime[p].generation + 1 IN
       /\ runtime' = [runtime EXCEPT ![p] = NewPane(generation, "Starting")]
       /\ spawns' = spawns \cup
             {[pane |-> p, generation |-> generation, root |-> place, result |-> None]}
    /\ layout' = [layout EXCEPT !.panes[p] = "Starting"]
    /\ holds' = [q \in DOMAIN holds \ {p} |-> holds[q]]
    /\ UNCHANGED <<selections, scrolled, place, migrated, stored, nextPane, nextTab, clipboard,
                   pendingClose, pendingPaste>>

CanStart(p) == p \in OpenPanes /\ layout.panes[p] # "Starting"

StartTerminal(p) ==
    /\ p \in starting
    /\ starting' = starting \ {p}
    /\ IF CanStart(p) THEN Begins(p)
       ELSE UNCHANGED <<surfaces, place, migrated, stored, nextPane, nextTab, spawns, clipboard,
                        pendingClose, pendingPaste, budget, used>>

RestartTerminal(p) == CanStart(p) /\ Begins(p) /\ UNCHANGED starting

\* RuntimeStartJob::run on its thread.
RunSpawn(job) ==
    /\ job.result = None
    /\ \E result \in {"spawned", "failed"} :
           spawns' = (spawns \ {job}) \cup {[job EXCEPT !.result = result]}
    /\ UNCHANGED <<surfaces, place, migrated, stored, nextPane, nextTab, starting, clipboard,
                   pendingClose, pendingPaste, budget, used>>

\* A faulty variant: an error is kept from the layout.
TerminalStartedQuietly(job) ==
    /\ job.result # None
    /\ spawns' = spawns \ {job}
    /\ LET current == /\ job.pane \in DOMAIN runtime
                      /\ runtime[job.pane].generation = job.generation
           spawned == job.result = "spawned"
       IN  /\ runtime' = IF current
                         THEN [runtime EXCEPT ![job.pane].process = @ \/ spawned,
                                              ![job.pane].state = IF spawned THEN "Running"
                                                                  ELSE "Failed"]
                         ELSE runtime
           /\ layout' = IF current /\ spawned THEN [layout EXCEPT !.panes[job.pane] = "Running"]
                        ELSE layout
           /\ holds' = IF current /\ spawned
                       THEN [q \in DOMAIN holds \cup {job.pane} |->
                                IF q = job.pane THEN job.root ELSE holds[q]]
                       ELSE holds
    /\ UNCHANGED <<selections, scrolled, place, migrated, stored, nextPane, nextTab, starting,
                   clipboard, pendingClose, pendingPaste, budget, used>>

\* finish_start: the pane and the generation decide whether it is current.  An
\* error does not touch a process that is held.
TerminalStarted(job) ==
    /\ job.result # None
    /\ spawns' = spawns \ {job}
    /\ LET p == job.pane
           current == p \in DOMAIN runtime /\ runtime[p].generation = job.generation
           spawned == job.result = "spawned"
           state == IF spawned THEN "Running" ELSE "Failed"
       IN  /\ runtime' = IF current
                         THEN [runtime EXCEPT ![p].process = @ \/ spawned, ![p].state = state]
                         ELSE runtime
           /\ layout' = IF current THEN [layout EXCEPT !.panes[p] = state] ELSE layout
           /\ holds' = IF current /\ spawned
                       THEN [q \in DOMAIN holds \cup {p} |->
                                IF q = p THEN job.root ELSE holds[q]]
                       ELSE holds
    /\ UNCHANGED <<selections, scrolled, place, migrated, stored, nextPane, nextTab, starting,
                   clipboard, pendingClose, pendingPaste, budget, used>>

\* PollTerminal, offered while a process is held: one pane's turn of the drain;
\* the layout takes over the state of a pane the drain reports as changed.
PollTerminal(p) ==
    /\ p \in DOMAIN runtime /\ Spend("poll")
    /\ \E q \in DOMAIN runtime : runtime[q].process
    /\ \E turn \in TurnsOf(runtime[p]), aged \in BOOLEAN :
           LET after == AfterTurn(runtime[p], turn, aged) IN
           /\ runtime' = [runtime EXCEPT ![p] = after]
           /\ layout' = IF TurnChanges(runtime[p], turn, aged)
                        THEN [layout EXCEPT !.panes[p] = after.state] ELSE layout
           /\ holds' = [q \in {r \in DOMAIN holds : r # p \/ after.process} |-> holds[q]]
    /\ UNCHANGED <<selections, scrolled, place, migrated, stored, nextPane, nextTab, starting,
                   spawns, clipboard, pendingClose, pendingPaste>>

-----------------------------------------------------------------------------
(* Closing.                                                                 *)

\* TerminalSurfaces::running
RunningPane(p) == p \in OpenPanes /\ layout.panes[p] \in LiveStates

\* close_terminal_task and close_and_take_process; a process that was held is
\* ended in the background.
Closes(p) ==
    /\ IF p \in OpenPanes
       THEN /\ layout' = ClosePane(layout, p)
            /\ runtime' = [q \in DOMAIN runtime \ {p} |-> runtime[q]]
            /\ holds' = [q \in DOMAIN holds \ {p} |-> holds[q]]
            /\ selections' = selections \ {p}
            /\ scrolled' = scrolled \ {p}
       ELSE UNCHANGED surfaces
    /\ UNCHANGED <<place, migrated, stored, nextPane, nextTab, starting, spawns, clipboard,
                   pendingPaste, budget, used>>

RequestCloseTerminal(p) ==
    /\ p \in OpenPanes
    /\ IF RunningPane(p)
       THEN /\ pendingClose' = [pane |-> p, root |-> place]
            /\ UNCHANGED <<surfaces, place, migrated, stored, nextPane, nextTab, starting, spawns,
                           clipboard, pendingPaste, budget, used>>
       ELSE Closes(p) /\ UNCHANGED pendingClose

ResolveCloseTerminal(close) ==
    /\ pendingClose # None
    /\ pendingClose' = None
    /\ IF close THEN Closes(pendingClose.pane)
       ELSE UNCHANGED <<surfaces, place, migrated, stored, nextPane, nextTab, starting, spawns,
                        clipboard, pendingPaste, budget, used>>

-----------------------------------------------------------------------------
(* Input, selection and paste.                                              *)

SelectTerminal(p) ==
    /\ p \in OpenPanes /\ Spend("mark")
    /\ selections' = selections \cup {p}
    /\ UNCHANGED <<layout, runtime, holds, scrolled, place, migrated, stored, nextPane, nextTab,
                   starting, spawns, clipboard, pendingClose, pendingPaste>>

ScrollTerminal(p, back) ==
    /\ p \in OpenPanes /\ Spend("mark")
    /\ scrolled' = IF back THEN scrolled \cup {p} ELSE scrolled \ {p}
    /\ UNCHANGED <<layout, runtime, holds, selections, place, migrated, stored, nextPane, nextTab,
                   starting, spawns, clipboard, pendingClose, pendingPaste>>

\* TerminalInput and TerminalKey: the view returns to the end even if the write
\* is refused for want of a process.
Writes(p) ==
    /\ scrolled' = scrolled \ {p}
    /\ UNCHANGED <<layout, runtime, holds, selections, place, migrated, stored, nextPane, nextTab,
                   starting, spawns, budget, used>>

TerminalInput(p) == p \in scrolled /\ Writes(p) /\ UNCHANGED <<clipboard, pendingClose, pendingPaste>>

RequestTerminalPaste(p) ==
    /\ p \in OpenPanes /\ clipboard = {} /\ Spend("mark")
    /\ clipboard' = {[pane |-> p, root |-> place]}
    /\ UNCHANGED <<surfaces, place, migrated, stored, nextPane, nextTab, starting, spawns,
                   pendingClose, pendingPaste>>

\* prepare_paste sends a text, or asks first when it has several lines.
TerminalClipboardRead(read, asks) ==
    /\ read \in clipboard
    /\ clipboard' = clipboard \ {read}
    /\ IF read.pane \notin OpenPanes
       THEN UNCHANGED <<surfaces, place, migrated, stored, nextPane, nextTab, starting, spawns,
                        pendingPaste, budget, used>>
       ELSE IF asks
       THEN /\ pendingPaste' = read
            /\ UNCHANGED <<surfaces, place, migrated, stored, nextPane, nextTab, starting, spawns,
                           budget, used>>
       ELSE Writes(read.pane) /\ UNCHANGED pendingPaste
    /\ UNCHANGED pendingClose

ResolveTerminalPaste(send) ==
    /\ pendingPaste # None
    /\ pendingPaste' = None
    /\ IF send /\ pendingPaste.pane \in OpenPanes THEN Writes(pendingPaste.pane)
       ELSE UNCHANGED <<surfaces, place, migrated, stored, nextPane, nextTab, starting, spawns,
                        budget, used>>
    /\ UNCHANGED <<clipboard, pendingClose>>

-----------------------------------------------------------------------------
(* Workspaces.                                                              *)

\* request_persistence
PersistLayout ==
    /\ place # None /\ ~migrated /\ Spend("save")
    /\ stored' = [stored EXCEPT ![place] = Snapshot(layout)]
    /\ UNCHANGED <<surfaces, place, migrated, nextPane, nextTab, starting, spawns, clipboard,
                   pendingClose, pendingPaste>>

\* The sessions took the layout over: it is written no more.
MigrationCompleted ==
    /\ place # None /\ ~migrated /\ Spend("save")
    /\ migrated' = TRUE
    /\ UNCHANGED <<surfaces, place, stored, nextPane, nextTab, starting, spawns, clipboard,
                   pendingClose, pendingPaste>>

\* WorkspaceOpened: the surfaces of the former workspace are dropped with their
\* processes; jobs, messages and questions on their way are not.
WorkspaceOpened(w) ==
    /\ Spend("open")
    /\ place' = w
    /\ migrated' = FALSE
    /\ LET l == IF stored[w] # None /\ ValidSnapshot(stored[w]) THEN Restore(stored[w])
                ELSE NoLayout
       IN  /\ layout' = l
           /\ runtime' = [p \in DOMAIN l.panes |-> NewPane(1, "Stopped")]
           /\ nextPane' = Reserve(nextPane, DOMAIN l.panes)
           /\ nextTab' = Reserve(nextTab, {l.tabs[i].id : i \in DOMAIN l.tabs})
    /\ holds' = [p \in {} |-> None]
    /\ selections' = {} /\ scrolled' = {}
    /\ UNCHANGED <<stored, starting, spawns, clipboard, pendingClose, pendingPaste>>

LayoutNext ==
    \/ NewTerminal \/ SplitTerminal
    \/ \E i \in 1..nextPane - 1 : ActivateTerminalTab(i)
    \/ \E b \in BOOLEAN :
          \/ ActivateRelativeTerminalTab(b) \/ FocusRelativeTerminalPane(b)
          \/ ResolveCloseTerminal(b) \/ ResolveTerminalPaste(b)
    \/ \E p \in 1..nextPane - 1 :
          \/ FocusTerminalPane(p) \/ StartTerminal(p) \/ RestartTerminal(p) \/ PollTerminal(p)
          \/ RequestCloseTerminal(p) \/ SelectTerminal(p) \/ TerminalInput(p)
          \/ RequestTerminalPaste(p)
    \/ \E p \in 1..nextPane - 1, back \in BOOLEAN : ScrollTerminal(p, back)
    \/ \E job \in spawns : RunSpawn(job) \/ TerminalStarted(job)
    \/ \E read \in clipboard, asks \in BOOLEAN : TerminalClipboardRead(read, asks)
    \/ PersistLayout \/ MigrationCompleted
    \/ \E w \in Workspaces : WorkspaceOpened(w)

LayoutSpec == LayoutInit /\ [][LayoutNext]_layoutVars

-----------------------------------------------------------------------------
(* Properties.                                                              *)

LayoutTypeOK ==
    /\ DOMAIN runtime = OpenPanes
    /\ \A p \in OpenPanes : p \in 1..nextPane - 1 /\ runtime[p] \in PaneRuntime
    /\ DOMAIN holds = {p \in OpenPanes : runtime[p].process}
    /\ selections \subseteq OpenPanes /\ scrolled \subseteq OpenPanes
    /\ place \in Workspaces \cup {None}
    /\ migrated \in BOOLEAN

\* Whatever tabs are made, split and closed, the layout is one that
\* validate_snapshot accepts, so the next start shows it again and not an error
\* with no terminals.
LayoutIsRestorable ==
    /\ ValidSnapshot(Snapshot(layout))
    /\ Restore(Snapshot(layout)) = [layout EXCEPT !.panes = [p \in OpenPanes |-> "Stopped"]]

\* The state a pane shows is the one of its runtime: running() decides by it
\* whether a close asks first, and begin_start whether a start is refused.
LayoutShowsRuntime == \A p \in OpenPanes : layout.panes[p] = runtime[p].state

\* The process of a pane was started for the workspace the pane is of.
ProcessIsOfWorkspace == \A p \in DOMAIN holds : holds[p] = place
=============================================================================
