------------------------- MODULE MCTerminalRuntime -------------------------
(***************************************************************************)
(* One pane through four generations with three jobs in flight: enough for *)
(* a restart of a restart whose start job still runs, a close in between,  *)
(* and completions in every order.  Panes share nothing but the bound on   *)
(* the jobs, and each handle names its pane.                               *)
(***************************************************************************)
EXTENDS TerminalRuntime

CONSTANTS p1

MCPanes == {p1}
=============================================================================
