------------------------------- MODULE Shell -------------------------------
(***************************************************************************)
(* The shell: which surfaces the canvas, the sidebar and the drawer show,  *)
(* how a drawer surface is promoted to the canvas and demoted              *)
(* (crates/strukt-shell/src/state.rs), the command center, where the keys  *)
(* go (crates/strukt-app/src/app.rs) and what of it is kept in the         *)
(* workspace (crates/strukt-persistence/src/shell_store.rs).               *)
(*                                                                         *)
(* A canvas surface is named after its activity.  Sizes, ratios and the    *)
(* theme are left out.  Of the terminals only whether a pane has the focus *)
(* matters here; TerminalLayout has the rest.  When a save is written is   *)
(* the subject of WorkspaceFiles: here it is written at once.              *)
(***************************************************************************)
EXTENDS Naturals, FiniteSets

CONSTANTS
    None,
    Activities,   \* includes "Sessions" and "Files"
    MaxMessages   \* bound: messages of one run

VARIABLES
    shell,        \* ShellState
    keysToTerminal, \* terminal_input_active
    expanded,     \* terminal_expanded
    hasPane,      \* the terminal layout has a focused pane
    problems,     \* language.problems_visible()
    center,       \* command_center_visible and command_return_focus
    open,         \* a workspace is open
    savedShell,   \* the shell contribution of the workspace, or None
    messages      \* how many messages were handled

shellVars == <<shell, keysToTerminal, expanded, hasPane, problems, center, open, savedShell,
               messages>>

Tools == {"terminal", "editor", "problems"}
Regions == {"Sidebar", "Canvas", "ContextPanel", "Drawer", "CommandCenter"}

Single(surface) == [primary |-> surface, secondary |-> None]
CanvasContains(canvas, surface) == surface \in {canvas.primary, canvas.secondary}

\* ShellState::default.  The two flags of the sidebar and of the context panel are
\* always set together; the two of the drawer are not.
DefaultShell ==
    [activity |-> "Sessions", sidebar |-> TRUE, context |-> FALSE,
     canvas |-> Single("Sessions"), drawerVisible |-> FALSE,
     drawer |-> [surface |-> "editor", visible |-> FALSE],
     focus |-> "Canvas", promotion |-> None]

-----------------------------------------------------------------------------
(* ShellState::apply.                                                       *)

FocusLeaves(s, region, visible) ==
    [s EXCEPT !.focus = IF ~visible /\ @ = region THEN "Canvas" ELSE @]

ContextToggled(s) == FocusLeaves([s EXCEPT !.context = ~@], "ContextPanel", ~s.context)
ExplorerToggled(s) == FocusLeaves([s EXCEPT !.sidebar = ~@], "Sidebar", ~s.sidebar)
DrawerToggled(s) ==
    LET visible == ~s.drawer.visible IN
    FocusLeaves([s EXCEPT !.drawer.visible = visible, !.drawerVisible = visible],
                "Drawer", visible)

DrawerOpened(s, surface) ==
    [s EXCEPT !.drawer = [surface |-> surface, visible |-> TRUE], !.drawerVisible = TRUE]

\* A faulty variant: the promotion outlives its canvas.
ActivitySelectedKeeping(s, activity) ==
    [s EXCEPT !.activity = activity, !.sidebar = TRUE, !.focus = "Canvas",
              !.canvas = Single(activity)]

\* Files beside the session deck leaves the canvas as it is.
ActivitySelected(s, activity) ==
    LET deck == \/ s.canvas.primary = "Sessions"
                \/ s.promotion # None /\ s.promotion.prior.primary = "Sessions"
        shown == [s EXCEPT !.activity = activity, !.sidebar = TRUE, !.focus = "Canvas"]
    IN  IF activity = "Files" /\ deck THEN shown
        ELSE [shown EXCEPT !.canvas = Single(activity), !.promotion = None]

\* promote_drawer, to a split or to the whole canvas.
Promoted(s, split) ==
    IF s.drawer.surface = None \/ s.promotion # None THEN s
    ELSE [s EXCEPT !.canvas = IF split THEN [@ EXCEPT !.secondary = s.drawer.surface]
                              ELSE Single(s.drawer.surface),
                   !.promotion = [prior |-> s.canvas, surface |-> s.drawer.surface],
                   !.drawer.visible = FALSE, !.drawerVisible = FALSE, !.focus = "Canvas"]

Demoted(s) ==
    IF s.promotion = None THEN s
    ELSE [DrawerOpened(s, s.promotion.surface) EXCEPT
             !.canvas = s.promotion.prior, !.promotion = None, !.focus = "Drawer"]

-----------------------------------------------------------------------------
(* What the workspace keeps: the promotion and the focus are not in it.     *)

ShellSnapshot(s) ==
    [activity |-> s.activity, sidebar |-> s.sidebar, context |-> s.context,
     canvas |-> s.canvas, drawer |-> s.drawer]

RestoreCanvas(canvas, activity) ==
    IF canvas.primary = canvas.secondary THEN Single(activity) ELSE canvas

RestoreShell(saved) ==
    [DefaultShell EXCEPT
        !.activity = saved.activity, !.sidebar = saved.sidebar, !.context = saved.context,
        !.canvas = RestoreCanvas(saved.canvas, saved.activity),
        !.drawer = [surface |-> saved.drawer.surface,
                    visible |-> saved.drawer.visible /\ saved.drawer.surface # None],
        !.drawerVisible = saved.drawer.visible /\ saved.drawer.surface # None]

ShellInit ==
    /\ shell = DefaultShell
    /\ keysToTerminal = FALSE /\ expanded = FALSE /\ hasPane = FALSE
    /\ problems = FALSE
    /\ center = [visible |-> FALSE, back |-> "Canvas"]
    /\ open = FALSE
    /\ savedShell = None
    /\ messages = 0

-----------------------------------------------------------------------------
(* Messages.                                                                *)

Saves(s) == savedShell' = IF open THEN ShellSnapshot(s) ELSE savedShell

\* The end of update_shell: keys leave the terminal with the drawer, come to it
\* with the terminal drawer, and a shell that changed is saved.
UpdateShell(s) ==
    LET shows == ~shell.drawerVisible /\ s.drawerVisible /\ s.drawer.surface = "terminal"
        hides == shell.drawerVisible /\ ~s.drawerVisible
        new == IF shows THEN [s EXCEPT !.focus = "Drawer"] ELSE s
    IN  /\ shell' = new
        /\ keysToTerminal' = IF hides THEN FALSE ELSE IF shows THEN hasPane ELSE keysToTerminal
        /\ IF new # shell THEN Saves(new) ELSE UNCHANGED savedShell
        /\ UNCHANGED <<expanded, hasPane, problems, center, open>>

SelectActivity(a) == UpdateShell(ActivitySelected(shell, a))
ToggleContext == UpdateShell(ContextToggled(shell))
ToggleDrawer == UpdateShell(DrawerToggled(shell))
ToggleExplorer == UpdateShell(ExplorerToggled(shell))

\* The terminal's placement; none of these saves.
Placed(s, full, keys) ==
    /\ shell' = s /\ expanded' = full /\ keysToTerminal' = keys
    /\ UNCHANGED <<hasPane, problems, center, open, savedShell>>

ToggleTerminalExpanded ==
    /\ Placed(IF expanded THEN Demoted(shell) ELSE Promoted(shell, FALSE), ~expanded, hasPane)
PromoteTerminalToSplit == Placed(Promoted(shell, TRUE), FALSE, hasPane)
PromoteTerminalToFull == Placed(Promoted(shell, FALSE), TRUE, hasPane)
DemoteTerminalToDrawer == Placed(Demoted(shell), FALSE, hasPane)

\* CloseTerminalPlacement, and the one of the editor, which leaves expanded alone.
ClosePlacement(surface, full) ==
    LET s == IF CanvasContains(shell.canvas, surface) THEN Demoted(shell) ELSE shell
    IN  Placed(IF s.drawerVisible THEN DrawerToggled(s) ELSE s, full, FALSE)
CloseTerminalPlacement == ClosePlacement("terminal", FALSE)
CloseSupportingEditorPlacement == ClosePlacement("editor", expanded)

PromoteSupportingEditorToSplit == Placed(Promoted(shell, TRUE), expanded, FALSE)
PromoteSupportingEditorToFull == Placed(Promoted(shell, FALSE), expanded, FALSE)
DemoteSupportingEditorToDrawer == Placed(Demoted(shell), expanded, FALSE)

\* NewTerminal sets one of the two flags of the drawer, and not its surface.
NewTerminal ==
    /\ open
    /\ shell' = [shell EXCEPT !.drawerVisible = TRUE]
    /\ hasPane' = TRUE
    /\ UNCHANGED <<keysToTerminal, expanded, problems, center, open, savedShell>>

\* A click in a pane, or a step to the next one.
FocusTerminal ==
    /\ hasPane
    /\ keysToTerminal' = TRUE
    /\ UNCHANGED <<shell, expanded, hasPane, problems, center, open, savedShell>>

\* The last pane is closed.
TerminalsClosed ==
    /\ hasPane
    /\ hasPane' = FALSE
    /\ UNCHANGED <<shell, keysToTerminal, expanded, problems, center, open, savedShell>>

\* EditorAction, SelectDocument, TerminalTabNameChanged: keys go elsewhere.
LeaveTerminal ==
    /\ keysToTerminal
    /\ keysToTerminal' = FALSE
    /\ UNCHANGED <<shell, expanded, hasPane, problems, center, open, savedShell>>

\* OpenDocument and its DocumentOpened: beside the session deck the editor comes
\* up in the drawer.
OpenDocument ==
    /\ open
    /\ LET s == IF shell.canvas.primary = "Sessions" THEN DrawerOpened(shell, "editor") ELSE shell
       IN  shell' = s /\ Saves(s)
    /\ keysToTerminal' = FALSE
    /\ UNCHANGED <<expanded, hasPane, problems, center, open>>

ShowsDrawer(surface, show) ==
    LET s == [DrawerOpened(shell, surface) EXCEPT !.focus = "Drawer"] IN
    /\ shell' = s /\ Saves(s)
    /\ problems' = show
    /\ UNCHANGED <<keysToTerminal, expanded, hasPane, center, open>>
ShowTerminalDrawer == ShowsDrawer("terminal", FALSE)
ShowProblemsDrawer == ShowsDrawer("problems", TRUE)

ToggleProblems ==
    /\ problems' = ~problems
    /\ LET shown == shell.drawer = [surface |-> "problems", visible |-> TRUE]
           s == IF ~problems THEN DrawerOpened(shell, "problems")
                ELSE IF shown THEN DrawerToggled(shell) ELSE shell
       IN  shell' = s /\ Saves(s)
    /\ UNCHANGED <<keysToTerminal, expanded, hasPane, center, open>>

\* WorkspaceOpened: the shell of the workspace, or the default one.
WorkspaceOpened ==
    /\ open' = TRUE
    /\ LET s == IF savedShell = None THEN [DefaultShell EXCEPT !.sidebar = shell.sidebar]
                ELSE RestoreShell(savedShell)
       IN  shell' = IF problems THEN DrawerOpened(s, "problems") ELSE s
    /\ hasPane' \in BOOLEAN
    /\ keysToTerminal' = FALSE
    /\ UNCHANGED <<expanded, problems, center, savedShell>>

-----------------------------------------------------------------------------
(* The command center and the keyboard.                                     *)

\* A faulty variant: the focus is not given back.
CenterClosedFocused(s) == s

\* close_command_center
CenterClosed(s) == [s EXCEPT !.focus = IF center.visible THEN center.back ELSE @]

ToggleCommandCenter ==
    /\ IF center.visible
       THEN /\ shell' = CenterClosed(shell)
            /\ center' = [center EXCEPT !.visible = FALSE]
            /\ UNCHANGED <<keysToTerminal>>
       ELSE /\ shell' = [shell EXCEPT !.focus = "CommandCenter"]
            /\ center' = [visible |-> TRUE, back |-> shell.focus]
            /\ keysToTerminal' = FALSE
    /\ UNCHANGED <<expanded, hasPane, problems, open, savedShell>>

\* command_catalog: what the shell's commands need to be enabled.
InterfaceCommands == {"toggle-explorer", "toggle-context", "toggle-drawer"} \cup Activities
TerminalCommands == {"toggle-expanded", "focus-pane"}
WorkspaceCommands == {"terminal.new", "problems.toggle"}
EnabledCommand(id) ==
    \/ id \in InterfaceCommands
    \/ id \in TerminalCommands /\ hasPane
    \/ id \in WorkspaceCommands /\ open

\* CommandSelected: the center closes, then the command's message is handled on the
\* shell that is left.  A command that is no longer enabled does nothing more.
CommandSelected(id) ==
    /\ center.visible
    /\ center' = [center EXCEPT !.visible = FALSE]
    /\ LET s == CenterClosed(shell)
           new == CASE ~EnabledCommand(id) -> s
                    [] id \in Activities -> ActivitySelected(s, id)
                    [] id = "toggle-explorer" -> ExplorerToggled(s)
                    [] id = "toggle-context" -> ContextToggled(s)
                    [] id = "toggle-drawer" -> DrawerToggled(s)
                    [] id = "toggle-expanded" -> IF expanded THEN Demoted(s) ELSE Promoted(s, FALSE)
                    [] id = "terminal.new" -> [s EXCEPT !.drawerVisible = TRUE]
                    [] id = "problems.toggle" ->
                          IF ~problems THEN DrawerOpened(s, "problems")
                          ELSE IF s.drawer = [surface |-> "problems", visible |-> TRUE]
                          THEN DrawerToggled(s) ELSE s
                    [] OTHER -> s
           shows == /\ id = "toggle-drawer" /\ ~s.drawerVisible
                    /\ new.drawerVisible /\ new.drawer.surface = "terminal"
           last == IF shows THEN [new EXCEPT !.focus = "Drawer"] ELSE new
       IN  /\ shell' = last
           /\ IF \/ id \in InterfaceCommands /\ last # s
                 \/ id = "problems.toggle" /\ EnabledCommand(id)
              THEN Saves(last) ELSE UNCHANGED savedShell
           /\ keysToTerminal' = \/ shows /\ hasPane
                                \/ id \in TerminalCommands /\ hasPane
    /\ expanded' = IF id = "toggle-expanded" /\ hasPane THEN ~expanded ELSE expanded
    /\ hasPane' = (hasPane \/ (id = "terminal.new" /\ open))
    /\ problems' = IF id = "problems.toggle" /\ open THEN ~problems ELSE problems
    /\ UNCHANGED <<open>>

\* KeyPressed: the center takes all keys, then the terminal, then the shell.
Keyboard(key) ==
    IF center.visible
    THEN key \in {"escape", "k"} /\ ToggleCommandCenter
    ELSE LET terminal == keysToTerminal /\ hasPane IN
         \/ key = "k" /\ ToggleCommandCenter
         \/ key = "b" /\ ToggleExplorer
         \/ key = "backslash" /\ ToggleContext
         \/ key = "j" /\ ShowTerminalDrawer
         \/ key = "t" /\ terminal /\ NewTerminal
         \/ key = "bracket" /\ terminal /\ FocusTerminal
         \/ key = "shift-j" /\ IF terminal THEN ToggleTerminalExpanded ELSE ShowTerminalDrawer

Keys == {"escape", "k", "b", "backslash", "j", "t", "bracket", "shift-j"}

ShellNext ==
    /\ messages < MaxMessages /\ messages' = messages + 1
    /\ \/ \E a \in Activities : SelectActivity(a)
       \/ ToggleContext \/ ToggleDrawer \/ ToggleExplorer
       \/ ToggleTerminalExpanded \/ PromoteTerminalToSplit \/ PromoteTerminalToFull
       \/ DemoteTerminalToDrawer \/ CloseTerminalPlacement
       \/ PromoteSupportingEditorToSplit \/ PromoteSupportingEditorToFull
       \/ DemoteSupportingEditorToDrawer \/ CloseSupportingEditorPlacement
       \/ NewTerminal \/ FocusTerminal \/ TerminalsClosed \/ LeaveTerminal \/ OpenDocument
       \/ ShowTerminalDrawer \/ ShowProblemsDrawer \/ ToggleProblems
       \/ WorkspaceOpened \/ ToggleCommandCenter
       \/ \E id \in InterfaceCommands \cup TerminalCommands \cup WorkspaceCommands : CommandSelected(id)
       \/ \E key \in Keys : Keyboard(key)

ShellSpec == ShellInit /\ [][ShellNext]_shellVars

-----------------------------------------------------------------------------
(* Properties.                                                              *)

ShellTypeOK ==
    /\ shell.activity \in Activities
    /\ shell.focus \in Regions
    /\ shell.drawer.surface \in Tools \cup {None}
    /\ {shell.sidebar, shell.context, shell.drawerVisible, shell.drawer.visible} \subseteq BOOLEAN
    /\ shell.canvas.primary \in Activities \cup Tools
    /\ shell.canvas.secondary \in Tools \cup {None}
    /\ center.back \in Regions

\* A promotion is of a surface the canvas shows, so demoting it is offered and
\* brings back a canvas without it; no activity, drawer or command leaves one behind
\* that would later replace the canvas of another activity.
PromotedIsShown ==
    shell.promotion # None => CanvasContains(shell.canvas, shell.promotion.surface)

\* The command center that is closed has given the focus back: no key goes to a
\* region that is not there.
CenterHasFocus ==
    /\ shell.focus = "CommandCenter" => center.visible
    /\ center.back # "CommandCenter"

\* The terminal is on the canvas or in the drawer (view/terminal.rs, view/shell.rs).
TerminalShown ==
    \/ shell.canvas.primary = "terminal" /\ shell.canvas.secondary = None
    \/ shell.canvas.secondary = "terminal"
    \/ shell.drawerVisible /\ shell.drawer.surface # "editor" /\ ~problems

\* Keys go to the terminal only while it can be seen.
KeysAreSeen == keysToTerminal /\ hasPane => TerminalShown
=============================================================================
