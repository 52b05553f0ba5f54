---------------------------- MODULE TerminalPane ----------------------------
(***************************************************************************)
(* One pane of the terminal runtime (PaneRuntime in                        *)
(* crates/strukt-terminal/src/runtime.rs): its value and what one drain    *)
(* turn makes of it.  The live TerminalRuntime and the session service are *)
(* built from these operators.                                             *)
(*                                                                         *)
(* Output is abstracted to whether some is pending and for how long: the   *)
(* two clocks the code compares with 250 ms (pending_since and             *)
(* transport_pressure_since) are "none", "fresh" or "old".  The parsed     *)
(* screen, the byte counts and the error texts are left out.               *)
(***************************************************************************)
EXTENDS Naturals

States == {"Stopped", "Starting", "Running", "Exited", "Failed", "Backpressured"}
Clock == {"none", "fresh", "old"}

\* PaneLifecycle::is_live, and pane_is_live of strukt-sessiond.
LiveStates == {"Starting", "Running", "Backpressured"}

PaneRuntime == [
    generation : Nat,
    state      : States,
    process    : BOOLEAN,   \* the process handle of this generation is held
    pending    : Clock,     \* pending_since
    pressure   : Clock      \* transport_pressure_since
]

\* PaneRuntime::new, with the state its caller gives it.
NewPane(generation, state) ==
    [generation |-> generation, state |-> state, process |-> FALSE,
     pending |-> "none", pressure |-> "none"]

\* What the environment gives one pane in one drain turn.
\*   read     what try_read returns: nothing, output, or the reader's failure
\*   left     output is still pending when the byte budget of the turn is spent
\*   waits    what try_wait returns: the child runs, has exited, or an error
\*   blocked  output_backpressured()
Turn == [read : {"none", "chunk", "error"}, left : BOOLEAN,
         waits : {"running", "exited", "error"}, blocked : BOOLEAN]

\* The turns a pane can have.  Without a process poll_one_output, poll_exit and
\* the transport probe return their neutral answers; output can only be left if
\* there was some.
TurnsOf(pane) ==
    {turn \in Turn :
        /\ ~pane.process => /\ turn.read = "none"
                            /\ turn.waits = "running"
                            /\ ~turn.blocked
        /\ turn.left => pane.pending # "none" \/ turn.read = "chunk"}

\* 250 ms may have passed on a clock that was already running.
Tick(clock, aged) ==
    IF clock = "none" THEN "fresh" ELSE IF aged THEN "old" ELSE clock

\* PaneRuntime::fail.
Fail(pane) == [pane EXCEPT !.state = "Failed", !.process = FALSE]

\* poll_one_output and drain_bytes: output is parsed up to the byte budget; once
\* nothing is pending a backpressured pane counts as running again.
DrainBytes(pane, turn, aged) ==
    LET polled  == IF turn.read = "error" THEN Fail(pane) ELSE pane
        pending == IF turn.left THEN Tick(pane.pending, aged) ELSE "none"
    IN  [polled EXCEPT
            !.pending = pending,
            !.state = IF pending = "none" /\ @ = "Backpressured"
                      THEN "Running" ELSE @]

\* A faulty variant: the process stays held after its exit.
PollExitKeeping(pane, turn) ==
    IF pane.process /\ turn.waits # "running"
    THEN [pane EXCEPT !.state = IF turn.waits = "exited" THEN "Exited" ELSE "Failed"]
    ELSE pane

\* poll_exit: an observed exit drops the process, with whatever it still queues.
PollExit(pane, turn) ==
    IF ~pane.process THEN pane
    ELSE CASE turn.waits = "running" -> pane
           [] turn.waits = "exited"  -> [pane EXCEPT !.state = "Exited",
                                                     !.process = FALSE]
           [] turn.waits = "error"   -> Fail(pane)

\* update_pressure_state: it looks at the clocks only, whatever the state is.
UpdatePressure(pane, turn, aged) ==
    LET pressure  == IF pane.process /\ turn.blocked
                     THEN Tick(pane.pressure, aged) ELSE "none"
        pressured == pane.pending = "old" \/ pressure = "old"
    IN  [pane EXCEPT
            !.pressure = pressure,
            !.state = IF pressured THEN "Backpressured"
                      ELSE IF @ = "Backpressured" THEN "Running" ELSE @]

\* One pane's turn in TerminalRuntime::drain.
AfterTurn(pane, turn, aged) ==
    UpdatePressure(PollExit(DrainBytes(pane, turn, aged), turn), turn, aged)

\* A faulty variant: a change of the state alone is no change.
TurnPrints(pane, turn, aged) == turn.read = "chunk" \/ pane.pending # "none"

\* drain reports a pane as changed when it consumed output, saw the child end,
\* or the state is not what it was.
TurnChanges(pane, turn, aged) ==
    \/ turn.read = "chunk"
    \/ pane.pending # "none"
    \/ pane.process # AfterTurn(pane, turn, aged).process
    \/ pane.state # AfterTurn(pane, turn, aged).state
=============================================================================
