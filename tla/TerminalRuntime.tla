-------------------------- MODULE TerminalRuntime --------------------------
(***************************************************************************)
(* The terminal runtime of the desktop (crates/strukt-terminal/src/        *)
(* runtime.rs, driven by crates/strukt-app/src/terminal.rs): panes with    *)
(* generations, processes started and ended by background jobs, and the    *)
(* drain that polls them.                                                  *)
(*                                                                         *)
(* A start job and a close job run on worker threads while the reducer goes*)
(* on, so a restart, a close and a drain may come between a job's steps;   *)
(* the completion then meets a pane of another generation, or none.  Child *)
(* processes belong to the operating system: each is named by the pane and *)
(* the generation it was spawned for and lives until it exits or its handle*)
(* is dropped (PortableProcess::drop kills it).                            *)
(*                                                                         *)
(* A drain visits the panes one after the other and a turn touches only its*)
(* own pane, so a drain is modelled as the turns it is made of; children   *)
(* and worker threads really run between them.  Which panes the byte budget*)
(* reaches is the subject of DrainScheduler.                               *)
(***************************************************************************)
EXTENDS TerminalPane, FiniteSets

CONSTANTS
    Panes,         \* the identifiers panes may get; they are never used twice
    MaxGeneration, \* bound: no pane is restarted beyond this generation
    MaxJobs        \* bound: start and close jobs in flight

ASSUME RuntimeAssumption == MaxGeneration \in Nat \ {0} /\ MaxJobs \in Nat

VARIABLES
    panes,    \* TerminalRuntime.panes
    retired,  \* history: the identifiers of closed panes
    starts,   \* start jobs and their completions
    stops,    \* processes handed to a worker for termination
    alive     \* the child processes the operating system runs

vars == <<panes, retired, starts, stops, alive>>

NoProcess == 0
Process == Panes \X (1..MaxGeneration)

\* RuntimeStartJob: it ends the prior process, spawns, and its result waits for
\* finish_restart.
StartJob == [pane : Panes, generation : 1..MaxGeneration,
             prior : 0..MaxGeneration, step : {"prior", "spawn", "spawned", "failed"}]

Init ==
    /\ panes = [p \in {} |-> NewPane(1, "Stopped")]
    /\ retired = {}
    /\ starts = {}
    /\ stops = {}
    /\ alive = {}

Open == DOMAIN panes
Jobs == Cardinality(starts) + Cardinality(stops)
Without(p) == [q \in Open \ {p} |-> panes[q]]

\* TerminalRuntime::prepare, for a pane that was just created or restored.
Prepare(p) ==
    /\ p \notin Open \cup retired
    /\ panes' = [q \in Open \cup {p} |->
                    IF q = p THEN NewPane(1, "Stopped") ELSE panes[q]]
    /\ UNCHANGED <<retired, starts, stops, alive>>

\* TerminalRuntime::begin_restart: the next generation takes the pane over and
\* the job takes the process of the one before.
BeginRestart(p) ==
    /\ p \in Open
    /\ panes[p].generation < MaxGeneration
    /\ Jobs < MaxJobs
    /\ LET generation == panes[p].generation + 1
           prior == IF panes[p].process THEN panes[p].generation ELSE NoProcess
       IN  /\ panes' = [panes EXCEPT ![p] = NewPane(generation, "Starting")]
           /\ starts' = starts \cup
                {[pane |-> p, generation |-> generation, prior |-> prior,
                  step |-> IF prior = NoProcess THEN "spawn" ELSE "prior"]}
    /\ UNCHANGED <<retired, stops, alive>>

Step(job, step, prior) ==
    (starts \ {job}) \cup {[job EXCEPT !.step = step, !.prior = prior]}

\* RuntimeStartJob::run, first half: the prior process is ended.  When that
\* fails or times out the job fails and drops the handle, which kills it too.
EndPrior(job) ==
    /\ job.step = "prior"
    /\ alive' = alive \ {<<job.pane, job.prior>>}
    /\ \E step \in {"spawn", "failed"} : starts' = Step(job, step, NoProcess)
    /\ UNCHANGED <<panes, retired, stops>>

\* A faulty variant: the child is recorded under the prior's generation.
SpawnAsPrior(job) ==
    /\ job.step = "spawn"
    /\ starts' = Step(job, "spawned", NoProcess)
    /\ alive' = alive \cup {<<job.pane, job.prior>>}
    /\ UNCHANGED <<panes, retired, stops>>

\* RuntimeStartJob::run, second half: the spawn succeeds or reports an error.
Spawn(job) ==
    /\ job.step = "spawn"
    /\ \/ /\ starts' = Step(job, "spawned", NoProcess)
          /\ alive' = alive \cup {<<job.pane, job.generation>>}
       \/ /\ starts' = Step(job, "failed", NoProcess)
          /\ UNCHANGED alive
    /\ UNCHANGED <<panes, retired, stops>>

IsCurrent(job) == job.pane \in Open /\ panes[job.pane].generation = job.generation

\* Faulty variants: the process of a stale completion is leaked, a completion may
\* be applied again, or an error is not shown.
FinishLeaking(job) ==
    /\ job.step \in {"spawned", "failed"}
    /\ starts' = starts \ {job}
    /\ panes' = IF IsCurrent(job) /\ job.step = "spawned"
                THEN [panes EXCEPT ![job.pane].process = TRUE,
                                   ![job.pane].state = "Running"]
                ELSE panes
    /\ UNCHANGED <<retired, stops, alive>>
FinishTwice(job) ==
    /\ job.step = "spawned"
    /\ IsCurrent(job)
    /\ panes' = [panes EXCEPT ![job.pane].process = TRUE, ![job.pane].state = "Running"]
    /\ UNCHANGED <<starts, retired, stops, alive>>
FinishSilently(job) ==
    /\ job.step \in {"spawned", "failed"}
    /\ starts' = starts \ {job}
    /\ panes' = IF IsCurrent(job) /\ job.step = "spawned"
                THEN [panes EXCEPT ![job.pane].process = TRUE,
                                   ![job.pane].state = "Running"]
                ELSE panes
    /\ alive' = IF IsCurrent(job) THEN alive ELSE alive \ {<<job.pane, job.generation>>}
    /\ UNCHANGED <<retired, stops>>

\* TerminalRuntime::finish_restart: a completion of another generation is
\* dropped, and its process with it.
FinishRestart(job) ==
    /\ job.step \in {"spawned", "failed"}
    /\ starts' = starts \ {job}
    /\ IF ~IsCurrent(job)
       THEN /\ alive' = alive \ {<<job.pane, job.generation>>}
            /\ UNCHANGED panes
       ELSE /\ panes' = [panes EXCEPT ![job.pane] =
                            IF job.step = "spawned"
                            THEN [@ EXCEPT !.process = TRUE, !.state = "Running"]
                            ELSE [@ EXCEPT !.state = "Failed"]]
            /\ UNCHANGED alive
    /\ UNCHANGED <<retired, stops>>

\* TerminalSurfaces::close_and_take_process: the pane goes, and a process it
\* held is ended in the background.
Close(p) ==
    /\ p \in Open
    /\ panes[p].process => Jobs < MaxJobs
    /\ panes' = Without(p)
    /\ retired' = retired \cup {p}
    /\ stops' = IF panes[p].process
                THEN stops \cup {<<p, panes[p].generation>>} ELSE stops
    /\ UNCHANGED <<starts, alive>>

\* A faulty variant: the handle is forgotten instead of dropped.
ForgetStop(process) ==
    /\ process \in stops
    /\ stops' = stops \ {process}
    /\ UNCHANGED <<panes, retired, starts, alive>>

\* The close job: terminate, then the handle is dropped whatever the outcome.
RunStop(process) ==
    /\ process \in stops
    /\ stops' = stops \ {process}
    /\ alive' = alive \ {process}
    /\ UNCHANGED <<panes, retired, starts>>

\* What one pane may be given: try_wait answers by the child, or fails.
TurnsNow(p) ==
    LET runs == <<p, panes[p].generation>> \in alive
    IN  {turn \in TurnsOf(panes[p]) :
            /\ (turn.waits = "running" /\ panes[p].process) => runs
            /\ turn.waits = "exited" => ~runs}

\* One pane's turn in TerminalRuntime::drain.  A handle that the turn drops
\* takes its child along.
DrainTurn(p) ==
    /\ p \in Open
    /\ \E turn \in TurnsNow(p), aged \in BOOLEAN :
           panes' = [panes EXCEPT ![p] = AfterTurn(@, turn, aged)]
    /\ alive' = IF panes[p].process /\ ~panes'[p].process
                THEN alive \ {<<p, panes[p].generation>>} ELSE alive
    /\ UNCHANGED <<retired, starts, stops>>

\* A child exits by itself.
ChildExits(process) ==
    /\ process \in alive
    /\ alive' = alive \ {process}
    /\ UNCHANGED <<panes, retired, starts, stops>>

Next ==
    \/ \E p \in Panes : Prepare(p) \/ BeginRestart(p) \/ Close(p)
    \/ \E job \in starts : EndPrior(job) \/ Spawn(job) \/ FinishRestart(job)
    \/ \E process \in stops : RunStop(process)
    \/ \E process \in alive : ChildExits(process)
    \/ \E p \in Panes : DrainTurn(p)

\* Worker threads run the jobs they were given and their completions reach the
\* reducer; the poll subscription drains every 16 ms while a process is held,
\* and DrainScheduler shows that every pane then gets its turns.
Polled(p) == DrainTurn(p) /\ \E q \in Open : panes[q].process

StartStep(p, g) ==
    \E job \in starts : /\ job.pane = p /\ job.generation = g
                        /\ EndPrior(job) \/ Spawn(job) \/ FinishRestart(job)
Fairness ==
    /\ \A p \in Panes, g \in 1..MaxGeneration :
           WF_vars(StartStep(p, g)) /\ WF_vars(RunStop(<<p, g>>))
    /\ \A p \in Panes : WF_vars(Polled(p))

Spec == Init /\ [][Next]_vars /\ Fairness

-----------------------------------------------------------------------------
(* Properties.                                                              *)

TypeOK ==
    /\ Open \subseteq Panes
    /\ \A p \in Open : panes[p] \in PaneRuntime /\ panes[p].generation \in 1..MaxGeneration
    /\ retired \subseteq Panes
    /\ starts \subseteq StartJob
    /\ stops \subseteq Process
    /\ alive \subseteq Process

\* The processes somebody can still end: installed in a pane, carried by a start
\* job as its prior or as its result, or handed to a close job.
Installed == {<<p, panes[p].generation>> : p \in {q \in Open : panes[q].process}}
Priors == {<<job.pane, job.prior>> : job \in {j \in starts : j.step = "prior"}}
Spawned == {<<job.pane, job.generation>> : job \in {j \in starts : j.step = "spawned"}}

\* No child is ever lost: whatever the order in which restarts, closes, drains
\* and job completions come, every running child has a holder that will end it
\* (finish_restart drops stale results, begin_restart and close move the handle).
NoLostProcess == alive \subseteq Installed \cup Priors \cup Spawned \cup stops

\* And no child has two: a handle is moved, never shared, so a stale completion
\* cannot end the process of a newer generation.
OneHolder ==
    /\ Installed \cap (Priors \cup Spawned \cup stops) = {}
    /\ Priors \cap (Spawned \cup stops) = {}
    /\ Spawned \cap stops = {}

\* A pane that holds a process shows it as running or backpressured: the UI
\* never offers Restart or Close-without-terminate on a live shell.
HeldIsShownLive ==
    \A p \in Open : panes[p].process => panes[p].state \in {"Running", "Backpressured"}

\* A started pane leaves Starting: its job answers, or the pane is restarted
\* into its last generation or closed.
StartSettles ==
    \A p \in Panes :
        (p \in Open /\ panes[p].state = "Starting")
            ~> (p \in Open => panes[p].state # "Starting")

\* The child of an abandoned generation does not live on: once the pane has
\* moved on or is closed, it is ended.
AbandonedChildEnds ==
    \A p \in Panes, g \in 1..MaxGeneration :
        (<<p, g>> \in alive /\ (p \in retired \/ (p \in Open /\ panes[p].generation > g)))
            ~> <<p, g>> \notin alive

\* "An exited pane retains its exit status and current scrollback until closed
\* or restarted" (docs/specs/0005-m2-local-terminal.md).
ExitedIsRetained ==
    [][\A p \in Open \cap DOMAIN panes' :
          (panes[p].state = "Exited" /\ panes'[p].generation = panes[p].generation)
              => panes'[p].state = "Exited"]_vars
=============================================================================
