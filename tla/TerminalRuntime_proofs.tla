----------------------- MODULE TerminalRuntime_proofs -----------------------
(***************************************************************************)
(* Proofs about TerminalRuntime, for any number of panes, generations and  *)
(* jobs: the types, that no child process is ever lost, that none has two  *)
(* holders, and that a held process is shown as live.                      *)
(***************************************************************************)
EXTENDS TerminalRuntime, TLAPS

-----------------------------------------------------------------------------
(* What one drain turn can make of a pane.                                  *)

\* The states that a pane with a process can have.
HeldStates == {"Running", "Backpressured"}

\* A pane as prepare and begin_restart make it.
LEMMA NewPaneType ==
    ASSUME NEW g \in Nat, NEW s \in States
    PROVE  /\ NewPane(g, s) \in PaneRuntime
           /\ NewPane(g, s).generation = g
           /\ NewPane(g, s).state = s
           /\ NewPane(g, s).process = FALSE
BY DEF NewPane, PaneRuntime, Clock

\* A turn's first half keeps the generation, can only drop the process, and
\* leaves a pane that still holds one in a held state.
LEMMA DrainBytesKeeps ==
    ASSUME NEW pane \in PaneRuntime, NEW turn \in Turn, NEW aged \in BOOLEAN
    PROVE  LET after == DrainBytes(pane, turn, aged)
           IN  /\ after \in PaneRuntime
               /\ after.generation = pane.generation
               /\ after.process => pane.process
               /\ after.process /\ pane.state \in HeldStates => after.state \in HeldStates
<1>1. Tick(pane.pending, aged) \in Clock
  BY DEF PaneRuntime, Clock, Tick
<1>2. CASE turn.read = "error"
  BY <1>1, <1>2 DEF DrainBytes, Fail, PaneRuntime, States, Clock, HeldStates
<1>3. CASE turn.read # "error"
  BY <1>1, <1>3 DEF DrainBytes, PaneRuntime, States, Clock, HeldStates
<1> QED BY <1>2, <1>3

\* The same of the poll for the child's exit.
LEMMA PollExitKeeps ==
    ASSUME NEW pane \in PaneRuntime, NEW turn \in Turn
    PROVE  LET after == PollExit(pane, turn)
           IN  /\ after \in PaneRuntime
               /\ after.generation = pane.generation
               /\ after.process => pane.process
               /\ after.process => after.state = pane.state
<1>1. turn.waits \in {"running", "exited", "error"}
  BY DEF Turn
<1> QED BY <1>1 DEF PollExit, Fail, PaneRuntime, States

\* The pressure check touches the clock and the state alone.
LEMMA UpdatePressureKeeps ==
    ASSUME NEW pane \in PaneRuntime, NEW turn \in Turn, NEW aged \in BOOLEAN
    PROVE  LET after == UpdatePressure(pane, turn, aged)
           IN  /\ after \in PaneRuntime
               /\ after.generation = pane.generation
               /\ after.process = pane.process
               /\ pane.state \in HeldStates => after.state \in HeldStates
<1>1. Tick(pane.pressure, aged) \in Clock
  BY DEF PaneRuntime, Clock, Tick
<1> DEFINE pressure == IF pane.process /\ turn.blocked
                       THEN Tick(pane.pressure, aged) ELSE "none"
<1>2. pressure \in Clock
  BY <1>1 DEF Clock
<1> DEFINE pressured == pane.pending = "old" \/ pressure = "old"
           state == IF pressured THEN "Backpressured"
                    ELSE IF pane.state = "Backpressured" THEN "Running" ELSE pane.state
<1>3. state \in States /\ (pane.state \in HeldStates => state \in HeldStates)
  BY DEF PaneRuntime, States, HeldStates
<1>4. UpdatePressure(pane, turn, aged)
        = [pane EXCEPT !.pressure = pressure, !.state = state]
  BY DEF UpdatePressure, PaneRuntime
<1> HIDE DEF pressure, state
<1> QED BY <1>2, <1>3, <1>4 DEF PaneRuntime

\* The three together are a pane's turn in a drain.
LEMMA AfterTurnKeeps ==
    ASSUME NEW pane \in PaneRuntime, NEW turn \in Turn, NEW aged \in BOOLEAN
    PROVE  LET after == AfterTurn(pane, turn, aged)
           IN  /\ after \in PaneRuntime
               /\ after.generation = pane.generation
               /\ after.process => pane.process
               /\ after.process /\ pane.state \in HeldStates => after.state \in HeldStates
<1> DEFINE drained == DrainBytes(pane, turn, aged)
           polled == PollExit(drained, turn)
<1>1. /\ drained \in PaneRuntime
      /\ drained.generation = pane.generation
      /\ drained.process => pane.process
      /\ drained.process /\ pane.state \in HeldStates => drained.state \in HeldStates
  BY DrainBytesKeeps
<1>2. /\ polled \in PaneRuntime
      /\ polled.generation = drained.generation
      /\ polled.process => drained.process
      /\ polled.process => polled.state = drained.state
  BY <1>1, PollExitKeeps
<1> HIDE DEF drained
<1>3. AfterTurn(pane, turn, aged) = UpdatePressure(polled, turn, aged)
  BY DEF AfterTurn, drained
<1> HIDE DEF polled
<1>4. /\ UpdatePressure(polled, turn, aged) \in PaneRuntime
      /\ UpdatePressure(polled, turn, aged).generation = polled.generation
      /\ UpdatePressure(polled, turn, aged).process = polled.process
      /\ polled.state \in HeldStates => UpdatePressure(polled, turn, aged).state \in HeldStates
  BY <1>2, UpdatePressureKeeps
<1> QED BY <1>1, <1>2, <1>3, <1>4

-----------------------------------------------------------------------------
(* What one drain turn makes of the panes.                                  *)

\* A drain turn of an open pane, as the lemma above describes it.
LEMMA DrainTurnKeeps ==
    ASSUME TypeOK, NEW p \in Panes, DrainTurn(p)
    PROVE  /\ p \in Open
           /\ DOMAIN panes' = Open
           /\ \A q \in Open : q # p => panes'[q] = panes[q]
           /\ panes'[p] \in PaneRuntime
           /\ panes'[p].generation = panes[p].generation
           /\ panes'[p].process => panes[p].process
           /\ panes'[p].process /\ panes[p].state \in HeldStates => panes'[p].state \in HeldStates
<1>1. p \in Open /\ panes[p] \in PaneRuntime
  BY DEF DrainTurn, TypeOK
<1>2. PICK turn \in TurnsNow(p), aged \in BOOLEAN :
          panes' = [panes EXCEPT ![p] = AfterTurn(panes[p], turn, aged)]
  BY DEF DrainTurn
<1>3. turn \in Turn
  BY DEF TurnsNow, TurnsOf
<1>4. panes'[p] = AfterTurn(panes[p], turn, aged)
  BY <1>1, <1>2 DEF Open
<1>5. DOMAIN panes' = Open /\ \A q \in Open : q # p => panes'[q] = panes[q]
  BY <1>2 DEF Open
<1>6. LET after == AfterTurn(panes[p], turn, aged)
      IN  /\ after \in PaneRuntime
          /\ after.generation = panes[p].generation
          /\ after.process => panes[p].process
          /\ after.process /\ panes[p].state \in HeldStates => after.state \in HeldStates
  BY <1>1, <1>3, AfterTurnKeeps
<1> QED BY <1>1, <1>4, <1>5, <1>6

-----------------------------------------------------------------------------
(* Types.                                                                   *)

\* A start job that has moved on is the same job.
LEMMA StepType ==
    ASSUME starts \subseteq StartJob, NEW job \in starts,
           NEW step \in {"spawned", "spawn", "failed"}
    PROVE  Step(job, step, NoProcess) \subseteq StartJob
<1> DEFINE moved == [job EXCEPT !.step = step, !.prior = NoProcess]
<1>1. moved \in StartJob
  <2>1. NoProcess \in 0..MaxGeneration
    BY RuntimeAssumption DEF NoProcess
  <2>2. [job EXCEPT !.step = step] \in StartJob
    BY DEF StartJob
  <2> QED BY <2>1, <2>2 DEF StartJob
<1>2. Step(job, step, NoProcess) = (starts \ {job}) \cup {moved}
  BY DEF Step
<1> HIDE DEF moved
<1> QED BY <1>1, <1>2

\* What finish_restart does to the pane its completion belongs to.
LEMMA FinishRestartKeeps ==
    ASSUME TypeOK, NEW job \in starts, FinishRestart(job), IsCurrent(job)
    PROVE  /\ job.pane \in Open
           /\ DOMAIN panes' = Open
           /\ \A q \in Open : q # job.pane => panes'[q] = panes[q]
           /\ panes'[job.pane] \in PaneRuntime
           /\ panes'[job.pane].generation = panes[job.pane].generation
           /\ job.step = "spawned" => /\ panes'[job.pane].process
                                      /\ panes'[job.pane].state = "Running"
           /\ job.step = "failed" =>
                 panes'[job.pane].process = panes[job.pane].process
<1>1. job.pane \in Open /\ panes[job.pane] \in PaneRuntime
  BY DEF IsCurrent, TypeOK
<1> DEFINE pane == panes[job.pane]
           next == IF job.step = "spawned"
                   THEN [pane EXCEPT !.process = TRUE, !.state = "Running"]
                   ELSE [pane EXCEPT !.state = "Failed"]
<1>2. panes' = [panes EXCEPT ![job.pane] = next]
  BY DEF FinishRestart
<1>3. /\ next \in PaneRuntime
      /\ next.generation = pane.generation
      /\ job.step = "spawned" => next.process /\ next.state = "Running"
      /\ job.step = "failed" => next.process = pane.process
  BY <1>1 DEF PaneRuntime, States
<1> HIDE DEF next
<1>4. panes'[job.pane] = next
  BY <1>1, <1>2 DEF Open
<1>5. DOMAIN panes' = Open /\ \A q \in Open : q # job.pane => panes'[q] = panes[q]
  BY <1>2 DEF Open
<1> QED BY <1>1, <1>3, <1>4, <1>5

\* Every action keeps the types and the bound on generations.
LEMMA TypeStep == TypeOK /\ [Next]_vars => TypeOK'
<1> SUFFICES ASSUME TypeOK, [Next]_vars PROVE TypeOK'
  OBVIOUS
<1> USE RuntimeAssumption
<1>1. ASSUME NEW p \in Panes, Prepare(p) PROVE TypeOK'
  <2>1. NewPane(1, "Stopped") \in PaneRuntime /\ NewPane(1, "Stopped").generation = 1
    BY NewPaneType DEF States
  <2> HIDE DEF NewPane
  <2> QED BY <1>1, <2>1 DEF Prepare, TypeOK, Open
<1>2. ASSUME NEW p \in Panes, BeginRestart(p) PROVE TypeOK'
  <2> DEFINE generation == panes[p].generation + 1
             prior == IF panes[p].process THEN panes[p].generation ELSE NoProcess
             job == [pane |-> p, generation |-> generation, prior |-> prior,
                     step |-> IF prior = NoProcess THEN "spawn" ELSE "prior"]
  <2>1. p \in Open /\ panes[p] \in PaneRuntime /\ panes[p].generation \in 1..MaxGeneration
    BY <1>2 DEF BeginRestart, TypeOK
  <2>2. generation \in 1..MaxGeneration /\ prior \in 0..MaxGeneration
    BY <1>2, <2>1 DEF BeginRestart, NoProcess
  <2>3. /\ NewPane(generation, "Starting") \in PaneRuntime
        /\ NewPane(generation, "Starting").generation = generation
    <3>1. generation \in Nat
      BY <2>1 DEF PaneRuntime
    <3> HIDE DEF generation
    <3> QED BY <3>1, NewPaneType DEF States
  <2>4. /\ panes' = [panes EXCEPT ![p] = NewPane(generation, "Starting")]
        /\ starts' = starts \cup {job}
        /\ UNCHANGED <<retired, stops, alive>>
    BY <1>2 DEF BeginRestart
  <2>5. job \in StartJob
    BY <2>2 DEF StartJob
  <2> HIDE DEF generation, job
  <2> QED BY <2>1, <2>2, <2>3, <2>4, <2>5 DEF TypeOK, Open, generation
<1>3. ASSUME NEW job \in starts, EndPrior(job) PROVE TypeOK'
  <2>1. starts' \subseteq StartJob
    BY <1>3, StepType DEF EndPrior, TypeOK
  <2> QED BY <1>3, <2>1 DEF EndPrior, TypeOK, Open
<1>4. ASSUME NEW job \in starts, Spawn(job) PROVE TypeOK'
  <2>1. starts' \subseteq StartJob
    BY <1>4, StepType DEF Spawn, TypeOK
  <2>2. <<job.pane, job.generation>> \in Process
    BY DEF TypeOK, StartJob, Process
  <2> QED BY <1>4, <2>1, <2>2 DEF Spawn, TypeOK, Open
<1>5. ASSUME NEW job \in starts, FinishRestart(job) PROVE TypeOK'
  <2>1. CASE ~IsCurrent(job)
    BY <1>5, <2>1 DEF FinishRestart, TypeOK, Open
  <2>2. CASE IsCurrent(job)
    <3>1. starts' \subseteq starts /\ UNCHANGED <<retired, stops, alive>>
      BY <1>5, <2>2 DEF FinishRestart
    <3> QED BY <1>5, <2>2, <3>1, FinishRestartKeeps DEF TypeOK, Open
  <2> QED BY <2>1, <2>2
<1>6. ASSUME NEW p \in Panes, Close(p) PROVE TypeOK'
  BY <1>6 DEF Close, TypeOK, Open, Without, Process
<1>7. ASSUME NEW process \in stops, RunStop(process) PROVE TypeOK'
  BY <1>7 DEF RunStop, TypeOK, Open
<1>8. ASSUME NEW process \in alive, ChildExits(process) PROVE TypeOK'
  BY <1>8 DEF ChildExits, TypeOK, Open
<1>9. ASSUME NEW p \in Panes, DrainTurn(p) PROVE TypeOK'
  <2>1. alive' \subseteq alive /\ UNCHANGED <<retired, starts, stops>>
    BY <1>9 DEF DrainTurn
  <2> QED BY <1>9, <2>1, DrainTurnKeeps DEF TypeOK, Open
<1>10. CASE UNCHANGED vars
  BY <1>10 DEF vars, TypeOK, Open
<1> QED BY <1>1, <1>2, <1>3, <1>4, <1>5, <1>6, <1>7, <1>8, <1>9, <1>10 DEF Next

\* Every reachable state of the runtime is well typed, and no pane's generation
\* leaves 1..MaxGeneration (PaneRuntime, RuntimeStartJob).
THEOREM TypeCorrect == Spec => []TypeOK
<1>1. Init => TypeOK
  BY DEF Init, TypeOK, Open
<1> QED BY <1>1, TypeStep, PTL DEF Spec

-----------------------------------------------------------------------------
(* Custody of the children: the inductive invariant.                        *)

\* A start job belongs to a pane that was opened; it is never ahead of the pane,
\* and a pane whose generation still has its job holds no process yet.
JobsBehindPanes ==
    \A job \in starts :
        /\ job.pane \in Open \cup retired
        /\ job.pane \in Open =>
              /\ job.generation <= panes[job.pane].generation
              /\ job.generation = panes[job.pane].generation => ~panes[job.pane].process

\* A generation is started by one job.
OneJob ==
    \A job, other \in starts :
        job.pane = other.pane /\ job.generation = other.generation => job = other

\* The prior process a job carries is of an earlier generation, whose own job is
\* long done.
PriorsAreOld ==
    \A job \in starts :
        job.step = "prior" =>
            /\ job.prior < job.generation
            /\ \A other \in starts :
                  other.pane = job.pane => other.generation # job.prior

\* A process handed to a close job is of a closed pane, and no start job has it.
StopsAreRetired ==
    \A process \in stops :
        /\ process[1] \in retired
        /\ \A job \in starts : job.pane = process[1] =>
              /\ job.generation # process[2]
              /\ job.step = "prior" => job.prior # process[2]

Custody ==
    /\ TypeOK
    /\ retired \cap Open = {}
    /\ JobsBehindPanes
    /\ OneJob
    /\ PriorsAreOld
    /\ StopsAreRetired
    /\ HeldIsShownLive
    /\ NoLostProcess

\* A job that moves to another step than "prior" keeps its pane and generation,
\* and no other job changes.
LEMMA StepKeeps ==
    ASSUME TypeOK, OneJob, NEW job \in starts,
           NEW step \in {"spawned", "spawn", "failed"},
           starts' = Step(job, step, NoProcess)
    PROVE  /\ OneJob'
           /\ \A now \in starts' : \E old \in starts :
                 /\ now.pane = old.pane
                 /\ now.generation = old.generation
                 /\ now.step = "prior" => now = old
                 /\ now.step = "spawned" => now = old \/ step = "spawned"
           /\ \A old \in starts : old = job \/ old \in starts'
           /\ \E now \in starts' : /\ now.pane = job.pane
                                   /\ now.generation = job.generation
                                   /\ now.step = step
<1> DEFINE moved == [job EXCEPT !.step = step, !.prior = NoProcess]
<1>1. /\ moved.pane = job.pane
      /\ moved.generation = job.generation
      /\ moved.step = step
  BY DEF TypeOK, StartJob
<1>2. starts' = (starts \ {job}) \cup {moved}
  BY DEF Step
<1> HIDE DEF moved
<1> QED BY <1>1, <1>2 DEF OneJob

\* So it keeps everything the invariant says of jobs.
LEMMA StepKeepsJobs ==
    ASSUME Custody, NEW job \in starts, NEW step \in {"spawned", "spawn", "failed"},
           starts' = Step(job, step, NoProcess), UNCHANGED <<panes, retired, stops>>
    PROVE  /\ JobsBehindPanes'
           /\ OneJob'
           /\ PriorsAreOld'
           /\ StopsAreRetired'
<1>1. /\ OneJob'
      /\ \A now \in starts' : \E old \in starts :
            /\ now.pane = old.pane
            /\ now.generation = old.generation
            /\ now.step = "prior" => now = old
  BY StepKeeps DEF Custody
<1>2. JobsBehindPanes'
  BY <1>1 DEF Custody, JobsBehindPanes, Open
<1>3. PriorsAreOld'
  <2> SUFFICES ASSUME NEW now \in starts', now.step = "prior",
                      NEW other \in starts'
               PROVE  /\ now.prior < now.generation
                      /\ other.pane = now.pane => other.generation # now.prior
    BY DEF PriorsAreOld
  <2>1. now \in starts
    BY <1>1
  <2>2. PICK old \in starts : old.pane = other.pane /\ old.generation = other.generation
    BY <1>1
  <2> QED BY <2>1, <2>2 DEF Custody, PriorsAreOld
<1>4. StopsAreRetired'
  BY <1>1 DEF Custody, StopsAreRetired
<1> QED BY <1>1, <1>2, <1>3, <1>4

\* A new pane disturbs nothing: no job and no process has its name.
LEMMA PrepareKeeps ==
    ASSUME Custody, NEW p \in Panes, Prepare(p), TypeOK'
    PROVE  Custody'
<1>1. /\ p \notin Open \cup retired
      /\ Open' = Open \cup {p}
      /\ \A q \in Open : panes'[q] = panes[q]
      /\ ~panes'[p].process
      /\ UNCHANGED <<retired, starts, stops, alive>>
  BY DEF Prepare, Open, NewPane
<1>2. (retired \cap Open = {})'
  BY <1>1 DEF Custody
<1>3. JobsBehindPanes'
  BY <1>1 DEF Custody, JobsBehindPanes
<1>4. OneJob' /\ PriorsAreOld' /\ StopsAreRetired'
  BY <1>1 DEF Custody, OneJob, PriorsAreOld, StopsAreRetired
<1>5. HeldIsShownLive'
  BY <1>1 DEF Custody, HeldIsShownLive
<1>6. NoLostProcess'
  BY <1>1 DEF Custody, NoLostProcess, Installed, Priors, Spawned
<1> QED BY <1>2, <1>3, <1>4, <1>5, <1>6 DEF Custody

\* begin_restart moves the process of the pane into the new job.
LEMMA BeginRestartKeeps ==
    ASSUME Custody, NEW p \in Panes, BeginRestart(p), TypeOK'
    PROVE  Custody'
<1> DEFINE old == panes[p].generation
           prior == IF panes[p].process THEN old ELSE NoProcess
           job == [pane |-> p, generation |-> old + 1, prior |-> prior,
                   step |-> IF prior = NoProcess THEN "spawn" ELSE "prior"]
<1>1. /\ p \in Open
      /\ old \in 1..MaxGeneration
      /\ panes[p].process \in BOOLEAN
  BY DEF BeginRestart, Custody, TypeOK, PaneRuntime
<1>2. /\ Open' = Open
      /\ \A q \in Open : q # p => panes'[q] = panes[q]
      /\ panes'[p].generation = old + 1
      /\ ~panes'[p].process
      /\ starts' = starts \cup {job}
      /\ UNCHANGED <<retired, stops, alive>>
  BY <1>1 DEF BeginRestart, Open, NewPane
<1>3. /\ job.pane = p
      /\ job.generation = old + 1
      /\ job.prior = prior
      /\ job.step = "prior" <=> prior # NoProcess
      /\ job.step # "spawned"
  OBVIOUS
<1>4. \A other \in starts : /\ other.generation \in 1..MaxGeneration
                            /\ other.prior \in 0..MaxGeneration
  BY DEF Custody, TypeOK, StartJob
<1> HIDE DEF job
<1>5. (retired \cap Open = {})'
  BY <1>2 DEF Custody
<1>6. JobsBehindPanes'
  BY <1>1, <1>2, <1>3, <1>4 DEF Custody, JobsBehindPanes
<1>7. OneJob'
  BY <1>1, <1>2, <1>3, <1>4 DEF Custody, JobsBehindPanes, OneJob
<1>8. PriorsAreOld'
  <2>1. prior < old + 1
    BY <1>1 DEF NoProcess
  <2>2. ASSUME NEW other \in starts, other.pane = p, prior # NoProcess
        PROVE  other.generation # prior
    BY <1>1, <2>2 DEF Custody, JobsBehindPanes
  <2>3. ASSUME NEW other \in starts, other.pane = p, other.step = "prior"
        PROVE  other.prior # old + 1
    BY <1>1, <1>4, <2>3 DEF Custody, JobsBehindPanes, PriorsAreOld
  <2>4. prior # NoProcess => old + 1 # prior
    BY <1>1 DEF NoProcess
  <2> QED BY <1>2, <1>3, <2>1, <2>2, <2>3, <2>4 DEF Custody, PriorsAreOld
<1>9. StopsAreRetired'
  BY <1>1, <1>2, <1>3 DEF Custody, StopsAreRetired
<1>10. HeldIsShownLive'
  BY <1>2 DEF Custody, HeldIsShownLive
<1>11. NoLostProcess'
  <2>1. Spawned \subseteq Spawned' /\ Priors \subseteq Priors'
    BY <1>2 DEF Spawned, Priors
  <2>2. ASSUME NEW q \in Open, panes[q].process
        PROVE  <<q, panes[q].generation>> \in Installed' \cup Priors'
    <3>1. CASE q # p
      BY <1>2, <2>2, <3>1 DEF Installed
    <3>2. CASE q = p
      BY <1>1, <1>2, <1>3, <2>2, <3>2 DEF Priors, NoProcess
    <3> QED BY <3>1, <3>2
  <2>3. Installed \subseteq Installed' \cup Priors'
    BY <2>2 DEF Installed
  <2> QED BY <1>2, <2>1, <2>3 DEF Custody, NoLostProcess
<1> QED BY <1>5, <1>6, <1>7, <1>8, <1>9, <1>10, <1>11 DEF Custody

\* RuntimeStartJob::run ends the prior process, or spawns the next.
LEMMA RunKeeps ==
    ASSUME Custody, NEW job \in starts, EndPrior(job) \/ Spawn(job), TypeOK'
    PROVE  Custody'
<1>1. UNCHANGED <<panes, retired, stops>>
  BY DEF EndPrior, Spawn
<1>2. PICK step \in {"spawned", "spawn", "failed"} :
          starts' = Step(job, step, NoProcess)
  BY DEF EndPrior, Spawn
<1>3. JobsBehindPanes' /\ OneJob' /\ PriorsAreOld' /\ StopsAreRetired'
  BY <1>1, <1>2, StepKeepsJobs
<1>4. (retired \cap Open = {})' /\ HeldIsShownLive'
  BY <1>1 DEF Custody, HeldIsShownLive, Open
<1>5. /\ \A old \in starts : old = job \/ old \in starts'
      /\ \E now \in starts' : /\ now.pane = job.pane
                              /\ now.generation = job.generation
                              /\ now.step = step
  BY <1>2, StepKeeps DEF Custody
<1>6. Installed' = Installed /\ stops' = stops
  BY <1>1 DEF Installed, Open
<1>7. job.step # "spawned"
  BY DEF EndPrior, Spawn
<1>8. Spawned \subseteq Spawned'
  BY <1>5, <1>7 DEF Spawned
<1>9. CASE EndPrior(job)
  <2>1. \A process \in Priors : process = <<job.pane, job.prior>> \/ process \in Priors'
    BY <1>5 DEF Priors
  <2>2. NoLostProcess'
    BY <1>6, <1>8, <1>9, <2>1 DEF EndPrior, Custody, NoLostProcess
  <2> QED BY <1>3, <1>4, <2>2 DEF Custody
<1>10. CASE Spawn(job)
  <2>1. Priors \subseteq Priors'
    BY <1>5, <1>10 DEF Priors, Spawn
  <2>2. alive' = alive \/ /\ starts' = Step(job, "spawned", NoProcess)
                          /\ alive' = alive \cup {<<job.pane, job.generation>>}
    BY <1>10 DEF Spawn
  <2>3. starts' = Step(job, "spawned", NoProcess) =>
           <<job.pane, job.generation>> \in Spawned'
    BY StepKeeps DEF Custody, Spawned
  <2>4. NoLostProcess'
    BY <1>6, <1>8, <2>1, <2>2, <2>3 DEF Custody, NoLostProcess
  <2> QED BY <1>3, <1>4, <2>4 DEF Custody
<1> QED BY <1>9, <1>10

\* finish_restart installs the process in its pane or ends it.
LEMMA FinishKeeps ==
    ASSUME Custody, NEW job \in starts, FinishRestart(job), TypeOK'
    PROVE  Custody'
<1> DEFINE process == <<job.pane, job.generation>>
<1>1. /\ starts' = starts \ {job}
      /\ UNCHANGED <<retired, stops>>
      /\ job.step \in {"spawned", "failed"}
  BY DEF FinishRestart
<1>2. /\ Priors \subseteq Priors'
      /\ \A other \in Spawned : other = process \/ other \in Spawned'
      /\ job.step = "failed" => Spawned \subseteq Spawned'
  BY <1>1 DEF Priors, Spawned
<1>3. OneJob' /\ PriorsAreOld' /\ StopsAreRetired'
  BY <1>1 DEF Custody, OneJob, PriorsAreOld, StopsAreRetired
<1>4. CASE ~IsCurrent(job)
  <2>1. alive' = alive \ {process} /\ UNCHANGED panes
    BY <1>4 DEF FinishRestart
  <2>2. JobsBehindPanes' /\ HeldIsShownLive' /\ (retired \cap Open = {})'
    BY <1>1, <2>1 DEF Custody, JobsBehindPanes, HeldIsShownLive, Open
  <2>3. NoLostProcess'
    BY <1>1, <1>2, <2>1 DEF Custody, NoLostProcess, Installed, Open
  <2> QED BY <1>3, <2>2, <2>3 DEF Custody
<1>5. CASE IsCurrent(job)
  <2>1. /\ job.pane \in Open
        /\ Open' = Open
        /\ \A q \in Open : q # job.pane => panes'[q] = panes[q]
        /\ panes'[job.pane].generation = panes[job.pane].generation
        /\ job.step = "spawned" => /\ panes'[job.pane].process
                                   /\ panes'[job.pane].state = "Running"
        /\ job.step = "failed" => panes'[job.pane].process = panes[job.pane].process
    BY <1>5, FinishRestartKeeps DEF Custody, Open
  <2>2. /\ panes[job.pane].generation = job.generation
        /\ ~panes[job.pane].process
        /\ alive' = alive
    BY <1>5, <2>1 DEF IsCurrent, FinishRestart, Custody, JobsBehindPanes
  <2>3. JobsBehindPanes'
    <3> SUFFICES ASSUME NEW other \in starts'
                 PROVE  /\ other.pane \in Open \cup retired
                        /\ other.pane \in Open =>
                              /\ other.generation <= panes'[other.pane].generation
                              /\ other.generation = panes'[other.pane].generation
                                    => ~panes'[other.pane].process
      BY <1>1, <2>1 DEF JobsBehindPanes
    <3>1. other \in starts /\ other # job
      BY <1>1
    <3>2. CASE other.pane # job.pane
      BY <2>1, <3>1, <3>2 DEF Custody, JobsBehindPanes
    <3>3. CASE other.pane = job.pane
      BY <2>1, <2>2, <3>1, <3>3 DEF Custody, JobsBehindPanes, OneJob
    <3> QED BY <3>2, <3>3
  <2>4. HeldIsShownLive'
    BY <1>1, <2>1, <2>2 DEF Custody, HeldIsShownLive
  <2>5. NoLostProcess'
    <3>1. Installed \subseteq Installed'
      BY <2>1, <2>2 DEF Installed
    <3>2. job.step = "spawned" => process \in Installed'
      BY <2>1, <2>2 DEF Installed
    <3> QED BY <1>1, <1>2, <2>2, <3>1, <3>2 DEF Custody, NoLostProcess
  <2> QED BY <1>1, <1>3, <2>1, <2>3, <2>4, <2>5 DEF Custody
<1> QED BY <1>4, <1>5

\* A close moves the process of the pane to a close job.
LEMMA CloseKeeps ==
    ASSUME Custody, NEW p \in Panes, Close(p), TypeOK'
    PROVE  Custody'
<1>1. /\ p \in Open
      /\ Open' = Open \ {p}
      /\ \A q \in Open' : panes'[q] = panes[q]
      /\ retired' = retired \cup {p}
      /\ UNCHANGED <<starts, alive>>
  BY DEF Close, Open, Without
<1>2. stops' = IF panes[p].process
               THEN stops \cup {<<p, panes[p].generation>>} ELSE stops
  BY DEF Close
<1>3. (retired \cap Open = {})'
  BY <1>1 DEF Custody
<1>4. JobsBehindPanes'
  BY <1>1 DEF Custody, JobsBehindPanes
<1>5. OneJob' /\ PriorsAreOld'
  BY <1>1 DEF Custody, OneJob, PriorsAreOld
<1>6. StopsAreRetired'
  <2>1. ASSUME panes[p].process, NEW job \in starts, job.pane = p
        PROVE  /\ job.generation # panes[p].generation
               /\ job.step = "prior" => job.prior # panes[p].generation
    <3>1. /\ job.generation <= panes[p].generation
          /\ job.generation # panes[p].generation
      BY <1>1, <2>1 DEF Custody, JobsBehindPanes
    <3>2. /\ panes[p].generation \in 1..MaxGeneration
          /\ job.generation \in 1..MaxGeneration
          /\ job.prior \in 0..MaxGeneration
      BY <1>1 DEF Custody, TypeOK, StartJob
    <3>3. job.step = "prior" => job.prior < job.generation
      BY DEF Custody, PriorsAreOld
    <3> QED BY <3>1, <3>2, <3>3
  <2> QED BY <1>1, <1>2, <2>1 DEF Custody, StopsAreRetired
<1>7. HeldIsShownLive'
  BY <1>1 DEF Custody, HeldIsShownLive
<1>8. NoLostProcess'
  <2>1. \A q \in Open : panes[q].process =>
           <<q, panes[q].generation>> \in Installed' \cup stops'
    BY <1>1, <1>2 DEF Installed
  <2>2. Installed \subseteq Installed' \cup stops'
    BY <2>1 DEF Installed
  <2>3. Priors' = Priors /\ Spawned' = Spawned /\ stops \subseteq stops'
    BY <1>1, <1>2 DEF Priors, Spawned
  <2> QED BY <1>1, <2>2, <2>3 DEF Custody, NoLostProcess
<1> QED BY <1>3, <1>4, <1>5, <1>6, <1>7, <1>8 DEF Custody

\* A close job, or a child's own exit, only ends processes.
LEMMA EndKeeps ==
    ASSUME Custody, NEW process,
           \/ process \in stops /\ RunStop(process)
           \/ process \in alive /\ ChildExits(process),
           TypeOK'
    PROVE  Custody'
<1>1. /\ UNCHANGED <<panes, retired, starts>>
      /\ alive' = alive \ {process}
      /\ stops' = stops \/ stops' = stops \ {process}
  BY DEF RunStop, ChildExits
<1>2. (retired \cap Open = {})' /\ JobsBehindPanes' /\ OneJob' /\ PriorsAreOld'
  BY <1>1 DEF Custody, Open, JobsBehindPanes, OneJob, PriorsAreOld
<1>3. StopsAreRetired' /\ HeldIsShownLive'
  BY <1>1 DEF Custody, Open, StopsAreRetired, HeldIsShownLive
<1>4. NoLostProcess'
  BY <1>1 DEF Custody, Open, NoLostProcess, Installed, Priors, Spawned
<1> QED BY <1>2, <1>3, <1>4 DEF Custody

\* A drain turn drops a process only with its child.
LEMMA DrainKeeps ==
    ASSUME Custody, NEW p \in Panes, DrainTurn(p), TypeOK'
    PROVE  Custody'
<1>1. /\ p \in Open
      /\ Open' = Open
      /\ \A q \in Open : q # p => panes'[q] = panes[q]
      /\ panes'[p].generation = panes[p].generation
      /\ panes'[p].process => panes[p].process
      /\ panes'[p].process /\ panes[p].state \in HeldStates => panes'[p].state \in HeldStates
  BY DrainTurnKeeps DEF Custody, Open
<1>2. /\ UNCHANGED <<retired, starts, stops>>
      /\ alive' = IF panes[p].process /\ ~panes'[p].process
                  THEN alive \ {<<p, panes[p].generation>>} ELSE alive
  BY DEF DrainTurn
<1>3. (retired \cap Open = {})' /\ OneJob' /\ PriorsAreOld' /\ StopsAreRetired'
  BY <1>1, <1>2 DEF Custody, OneJob, PriorsAreOld, StopsAreRetired
<1>4. JobsBehindPanes'
  BY <1>1, <1>2 DEF Custody, JobsBehindPanes
<1>5. HeldIsShownLive'
  BY <1>1 DEF Custody, HeldIsShownLive, HeldStates
<1>6. NoLostProcess'
  <2>1. \A q \in Open : panes[q].process =>
           \/ <<q, panes[q].generation>> \in Installed'
           \/ q = p /\ ~panes'[p].process
    BY <1>1 DEF Installed
  <2>2. \A process \in Installed :
           \/ process \in Installed'
           \/ panes[p].process /\ ~panes'[p].process
                 /\ process = <<p, panes[p].generation>>
    BY <2>1 DEF Installed
  <2>3. Priors' = Priors /\ Spawned' = Spawned
    BY <1>2 DEF Priors, Spawned
  <2> QED BY <1>2, <2>2, <2>3 DEF Custody, NoLostProcess
<1> QED BY <1>3, <1>4, <1>5, <1>6 DEF Custody

\* Every action keeps the custody of the children.
LEMMA CustodyStep == Custody /\ [Next]_vars => Custody'
<1> SUFFICES ASSUME Custody, [Next]_vars PROVE Custody'
  OBVIOUS
<1>1. TypeOK'
  BY TypeStep DEF Custody
<1>2. CASE UNCHANGED vars
  BY <1>2 DEF vars, Custody, TypeOK, Open, JobsBehindPanes, OneJob, PriorsAreOld,
              StopsAreRetired, HeldIsShownLive, NoLostProcess, Installed, Priors, Spawned
<1> QED
  BY <1>1, <1>2, PrepareKeeps, BeginRestartKeeps, RunKeeps, FinishKeeps, CloseKeeps,
     EndKeeps, DrainKeeps DEF Next

\* In custody, the four kinds of holder are disjoint.
LEMMA CustodyIsExclusive == Custody => OneHolder
<1> SUFFICES ASSUME Custody PROVE OneHolder
  OBVIOUS
<1>1. \A job \in starts : /\ job.generation \in 1..MaxGeneration
                          /\ job.prior \in 0..MaxGeneration
  BY DEF Custody, TypeOK, StartJob
<1>2. \A p \in Open : panes[p].generation \in 1..MaxGeneration
  BY DEF Custody, TypeOK
<1>3. Installed \cap Priors = {}
  BY <1>1, <1>2 DEF Custody, Installed, Priors, JobsBehindPanes, PriorsAreOld
<1>4. Installed \cap Spawned = {}
  BY DEF Custody, Installed, Spawned, JobsBehindPanes
<1>5. Installed \cap stops = {}
  BY DEF Custody, Installed, StopsAreRetired
<1>6. Priors \cap Spawned = {}
  BY DEF Custody, Priors, Spawned, PriorsAreOld
<1>7. (Priors \cup Spawned) \cap stops = {}
  BY DEF Custody, Priors, Spawned, StopsAreRetired
<1> QED BY <1>3, <1>4, <1>5, <1>6, <1>7 DEF OneHolder

\* Custody is an invariant of the runtime.
THEOREM CustodyHolds == Spec => []Custody
<1>1. Init => Custody
  BY DEF Init, Custody, TypeOK, Open, JobsBehindPanes, OneJob, PriorsAreOld,
         StopsAreRetired, HeldIsShownLive, NoLostProcess
<1> QED BY <1>1, CustodyStep, PTL DEF Spec

-----------------------------------------------------------------------------
(* What it gives.                                                           *)

\* Every running child has a holder that will end it: no interleaving of
\* restarts, closes, drains and completions loses one (begin_restart,
\* finish_restart, close_and_take_process).
THEOREM NoProcessIsLost == Spec => []NoLostProcess
BY CustodyHolds, PTL DEF Custody

\* No child has two holders: a stale completion or a close job never ends the
\* process of a newer generation.
THEOREM ProcessHasOneHolder == Spec => []OneHolder
BY CustodyHolds, CustodyIsExclusive, PTL

\* A pane that holds a process is shown running or backpressured
\* (finish_restart, poll_exit, update_pressure_state).
THEOREM HeldPaneIsShownLive == Spec => []HeldIsShownLive
BY CustodyHolds, PTL DEF Custody
=============================================================================
