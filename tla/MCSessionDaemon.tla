-------------------------- MODULE MCSessionDaemon --------------------------
(***************************************************************************)
(* A service with up to two panes, in one session or two, each started     *)
(* once, or with one pane that is started at most twice, and two           *)
(* connections that compete for control.                                   *)
(***************************************************************************)
EXTENDS SessionDaemon

CONSTANTS c1, c2
MCClients == {c1, c2}

Given(read, left, waits, blocked) ==
    [read |-> read, left |-> left, waits |-> waits, blocked |-> blocked]

\* A pane is quiet, has output, or its child has exited.
MCTurns == {Given("none", FALSE, "running", FALSE), Given("chunk", FALSE, "running", FALSE),
            Given("none", FALSE, "exited", FALSE)}

\* The panes of a loaded machine: output is left over, the reader is blocked.
MCPressedTurns == MCTurns \cup
    {Given("chunk", TRUE, "running", FALSE), Given("chunk", FALSE, "running", TRUE),
     Given("none", TRUE, "exited", FALSE), Given("error", FALSE, "running", FALSE),
     Given("none", FALSE, "error", FALSE)}

\* The tabs of the workspaces to import: one pane, two in a split, a tab for each, and a
\* tab that shows a pane which is not its own.
Lone(pane) == [root |-> Leaf(pane), focused |-> pane, panes |-> {pane}]
Halved == [root |-> SplitLeaf(Leaf("p1"), "p1", "p2"), focused |-> "p2", panes |-> {"p1", "p2"}]
Broken == [Lone("p1") EXCEPT !.root = Leaf("p2")]
MCPanes == [p1 |-> 2, p2 |-> 1]

MCImports ==
    LET Planned(tabs, active) == PlannedCatalogs(tabs, active, 2, <<2, 1>>, MCPanes)
    IN  Planned(<<Lone("p1")>>, 0) \cup Planned(<<Halved>>, 1)
          \cup Planned(<<Lone("p1"), Lone("p2")>>, 2) \cup Planned(<<Broken>>, 1)
          \cup Planned(<<>>, 0)
NoImports == {}

\* The service accepts what the desktop plans, and nothing else comes of it.
ASSUME PlansAreValid ==
    /\ Cardinality(MCImports) = 3
    /\ \A given \in MCImports : ValidCatalog(given)
=============================================================================
