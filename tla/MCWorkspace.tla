---------------------------- MODULE MCWorkspace ----------------------------
(***************************************************************************)
(* The local workspace of the desktop: its files and what is shown of      *)
(* them, the operations of the explorer, the content search, the terminal  *)
(* layout, the shell around it, the screen of a terminal, and the drains   *)
(* of its panes. The parts meet only in the message loop, which handles    *)
(* one message at a time and keeps their state apart, so each is checked   *)
(* on behaviours in which it alone acts: the first state chooses the part. *)
(***************************************************************************)
EXTENDS DrainScheduler, Sequences, TLC

CONSTANTS
    None,
    Roots, Queries, EventCapacity, EventsPerPoll, RecentLimit, Scenarios,
    Folders, Paths, Contents, Trees, MaxOperations, MaxOutside, MaxSwitches, MaxFaults,
    Budgets,
    Activities, MaxMessages,
    Sizes, InitialSize, ScrollbackLimit, MaxLinks, Modes, MaxOutput, MaxResizes,
    D, RootEntries, DirEntries, Hidden, Heavy, RootRules, DirRules, MaxEntries, MaxFileBytes,
    MaxResults, TotalBudget, MaxChanges

ASSUME ActivitiesAssumption == "Sessions" \in Activities  \* the activity of a new shell

VARIABLES
    part,
    tree, saved, recentFile, opened, explorer, listing, listingRevision, refresh, failed, watch,
    quick, search, persist, chooser, recents, jobs, limits, used,
    folder, staging, current, listed, selected, dialog, operation, generation, failure, work,
    outside, switches, faults,
    layout, runtime, holds, selections, scrolled, place, migrated, stored, nextPane, nextTab,
    starting, spawns, clipboard, pendingClose, pendingPaste, layoutBudget, layoutUsed,
    shell, keysToTerminal, expanded, hasPane, problems, center, open, savedShell, messages,
    size, primary, alternate, active, scrollback, pen, targets, modes, panicked, output, resizes,
    searched, touched, options, cancelled, todo, entries, truncated, queue, budget, matches,
    incomplete, file, phase, changes

Files == INSTANCE WorkspaceFiles
Explorer == INSTANCE ExplorerOperations
Layout == INSTANCE TerminalLayout
            WITH Workspaces <- Roots, budget <- layoutBudget, used <- layoutUsed
Frame == INSTANCE Shell
Screen == INSTANCE TerminalScreen
Search == INSTANCE ContentSearch WITH tree <- searched

\* No number, folder or record is None, the channel of the watcher and the list of recent
\* workspaces have a capacity, and there are finitely many folders.
ASSUME FilesAssumption ==
    /\ None \notin Nat \cup Roots \cup BOOLEAN
    /\ None \notin [generation : Nat, root : Roots]
    /\ None \notin [root : Roots, hidden : BOOLEAN]
    /\ None \notin [root : Roots, hidden : BOOLEAN, stale : BOOLEAN]
    /\ None \notin [generation : Nat, root : Roots, revision : Nat]
    /\ None \notin [root : Roots, revision : Nat,
                    files : [root : Roots, version : Nat, hidden : BOOLEAN, ignored : BOOLEAN]]
    /\ EventCapacity \in Nat /\ EventsPerPoll \in Nat \ {0} /\ RecentLimit \in Nat \ {0}
    /\ IsFiniteSet(Roots)

\* The listings of the root and of one directory in it, each path once, and the verdicts of
\* the ignore files.
ASSUME SearchAssumption ==
    /\ MaxEntries \in Nat /\ MaxFileBytes \in Nat /\ MaxResults \in Nat /\ TotalBudget \in Nat
    /\ RootEntries \in Seq(Search!TreePaths) /\ DirEntries \in Seq(Search!TreePaths)
    /\ D \in Search!Range(RootEntries) \ Search!Range(DirEntries)
    /\ RootRules \in [Search!TreePaths -> {"none", "ignore", "whitelist"}]
    /\ DirRules \in [Search!TreePaths -> {"none", "ignore", "whitelist"}]
    /\ None \notin Search!TreePaths

-----------------------------------------------------------------------------
\* The instance. The scenarios of the files and the budgets of the layout each leave room for
\* one kind of trouble: events lost at the channel's capacity, a save that fails, a query that
\* overtakes another; layouts that are restored, restarted panes, pastes and closes that wait.
FilesUpTo(change, opens, toggle, quickOpen, query, recent, fail) ==
    [change |-> change, open |-> opens, toggle |-> toggle, quick |-> quickOpen,
     search |-> query, recent |-> recent, failure |-> fail]
MCScenarios ==
    {FilesUpTo(2, 1, 0, 0, 0, 0, 0), FilesUpTo(2, 0, 1, 0, 0, 0, 0),
     FilesUpTo(0, 1, 1, 0, 0, 0, 1), FilesUpTo(0, 0, 1, 0, 0, 1, 1),
     FilesUpTo(1, 1, 0, 1, 0, 0, 0), FilesUpTo(1, 0, 0, 2, 0, 0, 0),
     FilesUpTo(0, 1, 0, 0, 2, 0, 0), FilesUpTo(1, 0, 0, 1, 1, 0, 1)}

LayoutUpTo(pane, start, opens, poll, mark, save, move) ==
    [pane |-> pane, start |-> start, open |-> opens, poll |-> poll, mark |-> mark,
     save |-> save, move |-> move]
MCBudgets ==
    {LayoutUpTo(3, 0, 1, 0, 0, 1, 1), LayoutUpTo(1, 2, 2, 1, 0, 0, 0),
     LayoutUpTo(1, 1, 2, 0, 2, 0, 0)}

MCPaths == {<<"a">>, <<"b">>, <<"a", "c">>, <<"b", "c">>}
MCTrees ==
    {<<"a">> :> "dir" @@ <<"a", "c">> :> "t1", <<"a">> :> "t1" @@ <<"b">> :> "t2"}

MCSizes ==
    {[rows |-> 2, columns |-> 3], [rows |-> 1, columns |-> 2], [rows |-> 2, columns |-> 1]}
MCInitialSize == [rows |-> 2, columns |-> 3]

MCRootEntries == <<"d", "e">>
MCDirEntries == <<"d/a", "d/b">>
MCRootRules == [path \in {"d", "e", "d/a", "d/b"} |->
    CASE path = "d/a" -> "ignore" [] path = "d/b" -> "whitelist" [] OTHER -> "none"]
MCDirRules == [path \in {"d", "e", "d/a", "d/b"} |->
    CASE path = "d/a" -> "whitelist" [] path = "d/b" -> "ignore" [] OTHER -> "none"]

\* What a part that does not act starts with is one of its initial states.
First(values) == CHOOSE v \in values : TRUE
Idle(name, choice, values) == part # name => choice = First(values)

MCInit ==
    /\ part \in {"files", "explorer", "layout", "shell", "screen", "search", "drain"}
    /\ Files!WorkspaceInit
    /\ Idle("files", limits, Scenarios) /\ Idle("files", recentFile, {<<>>})
    /\ Explorer!ExplorerInit
    /\ current = First(Folders) \* the folders are interchangeable
    /\ Idle("explorer", folder, [Folders -> Trees])
    /\ Layout!LayoutInit
    /\ Idle("layout", layoutBudget, Budgets) /\ Idle("layout", stored, [Roots -> Layout!Left])
    /\ Frame!ShellInit
    /\ Screen!ScreenInit
    /\ Search!SearchInit
    /\ part # "search" => \A path \in Search!TreePaths : searched[path].text = "plain"
                                                  /\ searched[path].size = 1
    /\ Init

filesPart ==
    <<tree, saved, recentFile, opened, explorer, listing, listingRevision, refresh, failed,
      watch, quick, search, persist, chooser, recents, jobs, limits, used>>
explorerPart ==
    <<folder, staging, current, listed, selected, dialog, operation, generation, failure, work,
      outside, switches, faults>>
layoutPart ==
    <<layout, runtime, holds, selections, scrolled, place, migrated, stored, nextPane, nextTab,
      starting, spawns, clipboard, pendingClose, pendingPaste, layoutBudget, layoutUsed>>
shellPart ==
    <<shell, keysToTerminal, expanded, hasPane, problems, center, open, savedShell, messages>>
screenPart ==
    <<size, primary, alternate, active, scrollback, pen, targets, modes, panicked, output,
      resizes>>
searchPart ==
    <<searched, touched, options, cancelled, todo, entries, truncated, queue, budget, matches,
      incomplete, file, phase, changes>>

FilesAct ==
    /\ part = "files" /\ Files!WorkspaceNext
    /\ UNCHANGED <<part, explorerPart, layoutPart, shellPart, screenPart, searchPart, vars>>
ExplorerActs ==
    /\ part = "explorer" /\ Explorer!ExplorerNext
    /\ UNCHANGED <<part, filesPart, layoutPart, shellPart, screenPart, searchPart, vars>>
LayoutActs ==
    /\ part = "layout" /\ Layout!LayoutNext
    /\ UNCHANGED <<part, filesPart, explorerPart, shellPart, screenPart, searchPart, vars>>
ShellActs ==
    /\ part = "shell" /\ Frame!ShellNext
    /\ UNCHANGED <<part, filesPart, explorerPart, layoutPart, screenPart, searchPart, vars>>
ScreenActs ==
    /\ part = "screen" /\ Screen!ScreenNext
    /\ UNCHANGED <<part, filesPart, explorerPart, layoutPart, shellPart, searchPart, vars>>
SearchActs ==
    /\ part = "search" /\ Search!SearchNext
    /\ UNCHANGED <<part, filesPart, explorerPart, layoutPart, shellPart, screenPart, vars>>
DrainActs ==
    /\ part = "drain" /\ Next
    /\ UNCHANGED <<part, filesPart, explorerPart, layoutPart, shellPart, screenPart, searchPart>>

MCNext ==
    \/ FilesAct \/ ExplorerActs \/ LayoutActs \/ ShellActs \/ ScreenActs \/ SearchActs
    \/ DrainActs

allVars ==
    <<part, filesPart, explorerPart, layoutPart, shellPart, screenPart, searchPart, vars>>

MCSpec == MCInit /\ [][MCNext]_allVars

-----------------------------------------------------------------------------
(* Properties. Each is a conjunction of properties of the parts' modules,  *)
(* which say there what they are about.                                    *)

\* Once the watcher and the jobs are quiet, the explorer, quick open and the search show the
\* files of the open folder as they are, under the options and the query shown with them: no
\* listing, scan or search that a newer one overtook, and none of a former workspace, is left.
NothingStaleIsShown ==
    part = "files" =>
      /\ Files!WorkspaceTypeOK
      /\ Files!FilesAreCurrent
      /\ Files!QuickOpenIsCurrent
      /\ Files!SearchIsCurrent

\* When no save is due and the last one worked, the store has the state of the open workspace,
\* and an opened workspace is in the list of recent ones or still waits to be recorded,
\* whichever saves failed or were requested while another ran (app.rs, request_persistence).
StoreCatchesUp == part = "files" => Files!SettledIsSaved /\ Files!RecentsAreKept

\* An explorer operation loses nothing but what it was asked to rename or delete and leaves no
\* staging directory behind but one it could not remove; a copy comes in one step with exactly
\* the entries its preflight found, none of them a link, each with contents the source has had
\* since, though another program creates, changes or removes an entry between its steps
\* (strukt-fs, operations.rs).
FilesAreSafe ==
    /\ Explorer!NothingElseIsLost
    /\ Explorer!CopiesAreWhole
    /\ [](part = "explorer" =>
            Explorer!ExplorerTypeOK /\ Explorer!StagingIsRemoved /\ Explorer!DialogIsOperation)

\* The copies the surfaces keep agree: the layout can be restored and shows the state of its
\* runtime, a promoted surface is on the canvas, and a closed command center has no focus.
SurfacesAgree ==
    /\ part = "layout" => Layout!LayoutTypeOK /\ Layout!LayoutIsRestorable /\ Layout!LayoutShowsRuntime
    /\ part = "shell" => Frame!ShellTypeOK /\ Frame!PromotedIsShown /\ Frame!CenterHasFocus

\* The rows of a terminal keep their width through every edit, scroll and resize, erasure and
\* resizing repair halves of wide characters, and a program on the alternate screen leaves the
\* primary screen and its history alone (strukt-terminal, grid.rs).
ScreenKeepsText ==
    /\ Screen!ErasureRepairs
    /\ Screen!AlternateLeavesHistory
    /\ [](part = "screen" => Screen!ScreenTypeOK /\ Screen!RowsAreWhole)

\* A search result that is not marked incomplete has every match, and none that the ignore
\* rules hide (strukt-fs, search.rs).
SearchIsHonest ==
    part = "search" => Search!SearchTypeOK /\ Search!CompleteOrSaysSo /\ Search!IgnoreRulesHold

\* No pane with output waits for more than N - 1 drains, and a drain leaves no budget unused
\* while a pane it could serve waits (TerminalRuntime::drain).
DrainIsFair == WorkConserving /\ [](part = "drain" => TypeOK /\ BoundedWait)
=============================================================================
