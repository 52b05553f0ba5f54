----------------------------- MODULE RemoteTasks ----------------------------
(***************************************************************************)
(* Commands the desktop runs on the remote host: run_task and              *)
(* run_language_diagnostics of RemoteRuntime (strukt-app remote.rs), each  *)
(* a job that asks the helper one request after the other, and the         *)
(* helper's process tables (RemoteProcessManager in process.rs,            *)
(* RemoteLanguageManager in language.rs), whose processes write and exit   *)
(* in between.                                                             *)
(*                                                                         *)
(* One job at a time is an abstraction: operation_in_flight keeps two from *)
(* being started, but finish_install clears it while one may run.  Two     *)
(* jobs share the helper's tables and their capacity, and nothing else.    *)
(*                                                                         *)
(* A byte is its number in what its process wrote; a chunk is what one     *)
(* read of the terminal returns.  Deadlines may pass at any time.          *)
(***************************************************************************)
EXTENDS Naturals, Sequences, FiniteSets, Functions

CONSTANTS None,
          MaxProcesses,   \* MAX_PROCESSES, and MAX_LANGUAGE_PROCESSES: 16
          MaxChunks,      \* chunks of one drain: 64
          MaxDrainBytes,  \* bytes of one drain: 32 KiB
          OutputLimit,    \* bytes a task may print: 1 MiB
          MaxChunkBytes, MaxBytes, MaxJobs  \* bounds: a chunk, a process's output, jobs

VARIABLES procs,   \* RemoteProcessManager.processes: id -> process and pending chunks
          langs,   \* RemoteLanguageManager.processes: ids of running servers
          nextId,
          job,     \* the job of the desktop, or None
          ended,   \* how the last job ended
          jobs

taskVars == <<procs, langs, nextId, job, ended, jobs>>

NewProcess == [wrote |-> 0, read |-> << >>, pending |-> << >>, exited |-> FALSE]

\* The process writes a chunk, or exits.
ProcessRuns ==
    /\ \E id \in DOMAIN procs :
         /\ ~procs[id].exited
         /\ \/ procs' = [procs EXCEPT ![id].exited = TRUE]
            \/ \E bytes \in 1..MaxChunkBytes :
                 /\ procs[id].wrote + bytes <= MaxBytes
                 /\ procs' = [procs EXCEPT
                      ![id].read = Append(@, [n \in 1..bytes |-> procs[id].wrote + n]),
                      ![id].wrote = @ + bytes]
    /\ UNCHANGED <<langs, nextId, job, ended, jobs>>
-----------------------------------------------------------------------------
(* RemoteProcessManager.                                                   *)

\* The next chunk: a remainder first, then the terminal's queue.
\* The same, the terminal's queue first.
TakeNew(at) ==
    IF at.read # << >> THEN [at EXCEPT !.chunk = Head(at.read), !.read = Tail(at.read)]
    ELSE IF at.pending # << >> THEN [at EXCEPT !.chunk = Head(at.pending), !.pending = Tail(at.pending)]
    ELSE [at EXCEPT !.chunk = None]
Take(at) ==
    IF at.pending # << >> THEN [at EXCEPT !.chunk = Head(at.pending), !.pending = Tail(at.pending)]
    ELSE IF at.read # << >> THEN [at EXCEPT !.chunk = Head(at.read), !.read = Tail(at.read)]
    ELSE [at EXCEPT !.chunk = None]

\* What does not fit goes back to the front.
PutBack(pending, rest) == <<rest>> \o pending

\* One turn of drain's loop.
DrainOne(at) ==
    LET next == Take(at)
        room == MaxDrainBytes - Len(at.bytes)
    IN IF at.stop THEN at
       ELSE IF next.chunk = None THEN [at EXCEPT !.stop = TRUE]
       ELSE IF Len(next.chunk) > room
              THEN [next EXCEPT !.bytes = @ \o SubSeq(next.chunk, 1, room),
                                !.pending = PutBack(@, SubSeq(next.chunk, room + 1, Len(next.chunk))),
                                !.stop = TRUE]
       ELSE [next EXCEPT !.bytes = @ \o next.chunk]
\* drain, at most MaxChunks chunks and MaxDrainBytes bytes.
Drain(process) ==
    LET after[turn \in 0..MaxChunks] ==
            IF turn = 0
              THEN [bytes |-> << >>, pending |-> process.pending, read |-> process.read,
                    chunk |-> None, stop |-> FALSE]
              ELSE DrainOne(after[turn - 1])
    IN  after[MaxChunks]
AfterDrain(process, drained) ==
    [process EXCEPT !.pending = drained.pending, !.read = drained.read]

\* terminate.
Without(table, id) == Restrict(table, DOMAIN table \ {id})
-----------------------------------------------------------------------------
(* run_task_inner.                                                         *)

Starts == job = None /\ jobs < MaxJobs /\ jobs' = jobs + 1
Ends(result) == job' = None /\ ended' = result

\* A request that fails, or is answered with an error, ends the job where it is:
\* TerminateProcess is not asked for, and the process stays in the helper's table.
Fails == Ends("failed") /\ UNCHANGED procs

\* Spawn: a full table refuses it, and so do a bad folder or command.
SpawnTask ==
    /\ Starts
    /\ \/ Fails /\ UNCHANGED nextId
       \/ IF Cardinality(DOMAIN procs) >= MaxProcesses
            THEN Ends("capacity") /\ UNCHANGED <<procs, nextId>>
            ELSE /\ procs' = [id \in DOMAIN procs \cup {nextId} |->
                                 IF id = nextId THEN NewProcess ELSE procs[id]]
                 /\ nextId' = nextId + 1
                 /\ job' = [kind |-> "task", at |-> "drain", id |-> nextId, got |-> << >>]
                 /\ UNCHANGED ended
    /\ UNCHANGED langs

\* DrainProcess in the main loop: too much output terminates the process.  (What a failed
\* drain took is lost with the job; nobody reads that process again.)
DrainTask ==
    /\ job # None /\ job.at = "drain"
    /\ \/ Fails
       \/ LET drained == Drain(procs[job.id])
              got == job.got \o drained.bytes
          IN IF Len(got) > OutputLimit
               THEN procs' = Without(procs, job.id) /\ Ends("too_large")
               ELSE /\ procs' = [procs EXCEPT ![job.id] = AfterDrain(@, drained)]
                    /\ job' = [job EXCEPT !.got = got, !.at = "poll"]
                    /\ UNCHANGED ended
    /\ UNCHANGED <<langs, nextId, jobs>>

\* PollProcess: an exit leads to the final drain, the deadline terminates it.
PollTask ==
    /\ job # None /\ job.at = "poll"
    /\ \/ procs[job.id].exited /\ job' = [job EXCEPT !.at = "final"] /\ UNCHANGED <<procs, ended>>
       \/ ~procs[job.id].exited /\ job' = [job EXCEPT !.at = "drain"] /\ UNCHANGED <<procs, ended>>
       \/ ~procs[job.id].exited /\ procs' = Without(procs, job.id) /\ Ends("timed_out")
       \/ Fails
    /\ UNCHANGED <<langs, nextId, jobs>>

\* The final drain ends when no output came for a while, or at its deadline; the process
\* stays in the helper's table.
FinalDrain ==
    /\ job # None /\ job.at = "final"
    /\ \/ Fails
       \/ LET drained == Drain(procs[job.id])
              got == job.got \o drained.bytes
          IN /\ procs' = [procs EXCEPT ![job.id] = AfterDrain(@, drained)]
             /\ \/ Len(got) > OutputLimit /\ Ends("too_large")
                \/ Len(got) <= OutputLimit /\ Ends("exited")
                \/ /\ Len(got) <= OutputLimit
                   /\ job' = [job EXCEPT !.got = got] /\ UNCHANGED ended
    /\ UNCHANGED <<langs, nextId, jobs>>
-----------------------------------------------------------------------------
(* run_language_diagnostics_inner.                                         *)

SpawnLanguage ==
    /\ Starts
    /\ \/ Ends("failed") /\ UNCHANGED <<langs, nextId>>
       \/ IF Cardinality(langs) >= MaxProcesses
            THEN Ends("capacity") /\ UNCHANGED <<langs, nextId>>
            ELSE /\ langs' = langs \cup {nextId}
                 /\ nextId' = nextId + 1
                 /\ job' = [kind |-> "language", at |-> "initialize", id |-> nextId, got |-> << >>]
                 /\ UNCHANGED ended
    /\ UNCHANGED procs

\* exchange_language_diagnostics: messages are read until the response comes; a write or
\* a read may fail and the deadline may pass.
Initialize ==
    /\ job # None /\ job.at = "initialize"
    /\ \/ job' = [job EXCEPT !.at = "diagnostics"]
       \/ job' = [job EXCEPT !.at = "terminate"]
    /\ UNCHANGED <<procs, langs, nextId, ended, jobs>>

\* wait_for_diagnostics.
WaitForDiagnostics ==
    /\ job # None /\ job.at = "diagnostics"
    /\ job' = [job EXCEPT !.at = "terminate"]
    /\ UNCHANGED <<procs, langs, nextId, ended, jobs>>

\* However the exchange went, TerminateLanguage is asked for.
\* The same, only after an exchange that reached the diagnostics.
TerminateAfterExchange ==
    /\ job # None /\ job.at = "terminate"
    /\ langs' \in {langs, langs \ {job.id}}
    /\ Ends("diagnosed")
    /\ UNCHANGED <<procs, nextId, jobs>>
TerminateLanguage ==
    /\ job # None /\ job.at = "terminate"
    /\ langs' = langs \ {job.id}
    /\ Ends("diagnosed")
    /\ UNCHANGED <<procs, nextId, jobs>>
-----------------------------------------------------------------------------
TasksInit ==
    /\ procs = << >>
    /\ langs = {}
    /\ nextId = 1
    /\ job = None
    /\ ended = "none"
    /\ jobs = 0

TasksNext ==
    \/ ProcessRuns
    \/ SpawnTask \/ DrainTask \/ PollTask \/ FinalDrain
    \/ SpawnLanguage \/ Initialize \/ WaitForDiagnostics \/ TerminateLanguage

TasksSpec == TasksInit /\ [][TasksNext]_taskVars
-----------------------------------------------------------------------------
\* Type invariant.
TasksTypeOK ==
    /\ \A id \in DOMAIN procs : procs[id].wrote \in 0..MaxBytes /\ procs[id].exited \in BOOLEAN
    /\ Cardinality(DOMAIN procs) <= MaxProcesses
    /\ langs \subseteq 1..nextId
    /\ job # None => job.at \in {"drain", "poll", "final", "initialize", "diagnostics", "terminate"}
    /\ ended \in {"none", "capacity", "failed", "too_large", "timed_out", "exited", "diagnosed"}

\* The output the desktop has of a task is what the process wrote, from its first byte
\* and without a gap, although drain cuts chunks at its byte bound and keeps remainders.
TaskOutputInOrder ==
    job # None => job.got = [n \in 1..Len(job.got) |-> n]

\* When no diagnosis runs, the helper holds no language server, whichever way the last
\* exchange ended.
ServersAreReleased == job = None \/ job.kind = "task" => langs = {}

\* A command that was run to its end has left the helper's table.  (It has not: only the
\* output limit of the main loop and the deadline terminate it, and a failed request leaves
\* it running, so a helper refuses every command after MAX_PROCESSES of them.)
TasksAreReleased == job = None => procs = << >>
=============================================================================
