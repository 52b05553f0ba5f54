--------------------------- MODULE DrainScheduler ---------------------------
(***************************************************************************)
(* How TerminalRuntime::drain shares its byte budget between the panes     *)
(* (crates/strukt-terminal/src/runtime.rs).                                *)
(*                                                                         *)
(* A drain starts at round_robin_cursor, gives each pane in key order at   *)
(* most PaneBudget units while AggregateBudget lasts, and moves the cursor *)
(* by ONE pane, whatever the number of panes it served.  Bytes are counted *)
(* in units; the code's budgets are one quantum per pane (256 KiB) and four*)
(* in all (1 MiB).  The panes are those of one workspace, none being opened*)
(* or closed, so their order is their number.                              *)
(***************************************************************************)
EXTENDS Integers, FiniteSets

CONSTANTS
    N,               \* how many panes there are
    PaneBudget,      \* DrainBudget.per_pane_bytes
    AggregateBudget, \* DrainBudget.aggregate_bytes
    MaxBacklog       \* bound: output a pane can have waiting, in units

ASSUME SchedulerAssumption ==
    /\ N \in Nat \ {0}
    /\ PaneBudget \in Nat \ {0}
    /\ AggregateBudget \in Nat \ {0}
    /\ MaxBacklog \in Nat

VARIABLES
    cursor,   \* round_robin_cursor
    backlog,  \* the output waiting in each pane, queued or still in its channel
    served,   \* history: the panes the last drain gave a quantum
    waited    \* history: drains each ready pane has gone without a quantum

vars == <<cursor, backlog, served, waited>>

Pane == 0..(N - 1)

Least(x, y) == IF x < y THEN x ELSE y

Init ==
    /\ cursor = 0
    /\ backlog = [p \in Pane |-> 0]
    /\ served = {}
    /\ waited = [p \in Pane |-> 0]

\* The position of a pane in the next drain.
Turn(p) == (p - cursor) % N
At(turn) == (cursor + turn) % N

\* What is left of the aggregate budget before each turn.
Remaining[turn \in 0..N] ==
    IF turn = 0 THEN AggregateBudget
    ELSE Remaining[turn - 1]
           - Least(backlog[At(turn - 1)], Least(PaneBudget, Remaining[turn - 1]))

\* A faulty variant: the turns do not wrap round.
QuantumNoWrap(p) == IF p < cursor THEN 0
                    ELSE Least(backlog[p], Least(PaneBudget, Remaining[Turn(p)]))

\* What the drain takes from a pane.
Quantum(p) == Least(backlog[p], Least(PaneBudget, Remaining[Turn(p)]))

Ready == {p \in Pane : backlog[p] > 0}

\* A faulty variant: the cursor does not move.
NextNotMoved == cursor

\* Where the next drain starts: one pane further, whoever was served.
NextCursor == (cursor + 1) % N

\* TerminalRuntime::drain.  The history variables record who was served and
\* who had to wait.
Drain ==
    /\ backlog' = [p \in Pane |-> backlog[p] - Quantum(p)]
    /\ cursor' = NextCursor
    /\ served' = {p \in Pane : Quantum(p) > 0}
    /\ waited' = [p \in Pane |-> IF p \in Ready /\ Quantum(p) = 0
                                 THEN waited[p] + 1 ELSE 0]

\* A child writes.
Produce(p) ==
    /\ backlog[p] < MaxBacklog
    /\ backlog' = [backlog EXCEPT ![p] = @ + 1]
    /\ UNCHANGED <<cursor, served, waited>>

Next == Drain \/ \E p \in Pane : Produce(p)

\* The poll subscription and the service loop drain again and again.
Spec == Init /\ [][Next]_vars /\ WF_vars(Drain)

-----------------------------------------------------------------------------
(* Properties.                                                              *)

TypeOK ==
    /\ cursor \in Pane
    /\ backlog \in [Pane -> 0..MaxBacklog]
    /\ served \subseteq Pane
    /\ waited \in [Pane -> 0..N]

\* No noisy pane starves another: a pane with output goes without a quantum for
\* at most N - 1 drains in a row, because the cursor reaches it by then.
BoundedWait == \A p \in Pane : waited[p] < N

\* A drain leaves no budget unused while a pane it could serve still waits.
WorkConserving ==
    [][(cursor' # cursor /\ \E p \in Ready : p \notin served')
         => Remaining[N] = 0]_vars

=============================================================================
