----------------------------- MODULE TmuxBridge -----------------------------
(***************************************************************************)
(* The helper's tmux provider (strukt-remote tmux.rs): TmuxSessionBridge,  *)
(* which shows the panes of a tmux server to the desktop under opaque ids, *)
(* and execute_bounded, which runs every tmux command.  The server is      *)
(* external: panes open and close and take the focus on their own.         *)
(*                                                                         *)
(* A request is handled under the bridge's lock, one at a time; the        *)
(* commands it runs are executed one after the other, and between two of   *)
(* them the server may change.  A command's child writes at most           *)
(* MaxOutput + 1 blocks; a reader thread drains it while the loop polls.   *)
(***************************************************************************)
EXTENDS Naturals, Sequences, FiniteSets, Functions

CONSTANTS None,
          Targets,     \* raw tmux pane ids, never used twice by a server
          PaneSizes,
          MaxOutput,   \* the bound on a command's output, in blocks
          MaxChunks,   \* commands one input request is cut into
          MaxIds,      \* bound: ids given out
          MaxTurns     \* bound: requests and changes of the server

VARIABLES server,      \* the open panes of the server: [target -> size, active]
          attached, discovered, projection,  \* TmuxSessionBridge
          nextId,      \* ids are random: never one given before
          shown,       \* what each id ever shown to the desktop stood for
          request,     \* the request under the bridge's lock, or None
          child, reader, answer,             \* execute_bounded
          sent,        \* <<id, target>> of the input that reached a pane
          turns

serverVars == <<server>>
bridgeVars == <<attached, discovered, projection, nextId, shown>>
commandVars == <<child, reader, answer>>
tmuxVars == <<server, attached, discovered, projection, nextId, shown, request,
              child, reader, answer, sent, turns>>

PaneInfo == [size : PaneSizes, active : BOOLEAN]

Idle == request = None
Turn == turns < MaxTurns /\ turns' = turns + 1
-----------------------------------------------------------------------------
(* execute_bounded and drain_bounded.                                      *)

\* spawn: the child has blocks still to write, the pipe is empty.
Spawned(blocks) ==
    /\ child' = [state |-> "running", left |-> blocks, pipe |-> 0, wrote |-> blocks]
    /\ reader' = [kept |-> 0, over |-> FALSE, done |-> FALSE]
    /\ answer' = "pending"
NoCommand ==
    /\ child = None /\ reader = None /\ answer = "none"

\* The child writes a block, and exits when it has written all.
ChildWrites ==
    /\ answer = "pending"
    /\ child.state = "running" /\ child.left > 0
    /\ child' = [child EXCEPT !.left = @ - 1, !.pipe = @ + 1]
    /\ UNCHANGED <<server, request, reader, answer, sent, turns>> /\ UNCHANGED bridgeVars
ChildExits ==
    /\ answer = "pending"
    /\ child.state = "running" /\ child.left = 0
    /\ \E state \in {"exited", "failed"} : child' = [child EXCEPT !.state = state]
    /\ UNCHANGED <<server, request, reader, answer, sent, turns>> /\ UNCHANGED bridgeVars

\* drain_bounded: a read keeps what the bound allows and flags the rest; at the end
\* of the pipe the thread is finished.
Drained(blocks) ==
    [reader EXCEPT !.kept = IF @ + blocks <= MaxOutput THEN @ + blocks ELSE MaxOutput,
                   !.over = @ \/ reader.kept + blocks > MaxOutput]
ReaderReads ==
    /\ answer = "pending"
    /\ ~reader.done
    /\ \E blocks \in 1..child.pipe :
         /\ reader' = Drained(blocks)
         /\ child' = [child EXCEPT !.pipe = @ - blocks]
    /\ UNCHANGED <<server, request, answer, sent, turns>> /\ UNCHANGED bridgeVars
ReaderEnds ==
    /\ answer = "pending"
    /\ ~reader.done
    /\ child.state # "running" /\ child.pipe = 0
    /\ reader' = [reader EXCEPT !.done = TRUE]
    /\ UNCHANGED <<server, request, child, answer, sent, turns>> /\ UNCHANGED bridgeVars

\* The loop: an overflow or the deadline kills the child; otherwise it waits for the
\* exit and the reader, and looks at the overflow once more.
LoopKills ==
    /\ answer = "pending"
    /\ \/ reader.over /\ answer' = "too_large"
       \/ answer' = "timed_out"
    /\ child' = [child EXCEPT !.state = "killed"]
    /\ UNCHANGED <<server, request, reader, sent, turns>> /\ UNCHANGED bridgeVars
\* Without the second look at the overflow.
FinishedUnchecked == IF child.state = "failed" THEN "failed" ELSE "ok"
Finished ==
    CASE reader.over -> "too_large"
      [] ~reader.over /\ child.state = "failed" -> "failed"
      [] OTHER -> "ok"
LoopBreaks ==
    /\ answer = "pending"
    /\ child.state \in {"exited", "failed"} /\ reader.done
    /\ answer' = Finished
    /\ UNCHANGED <<server, request, child, reader, sent, turns>> /\ UNCHANGED bridgeVars
-----------------------------------------------------------------------------
(* The tmux server, outside.                                               *)

ServerChanges ==
    /\ Turn
    /\ \E target \in Targets :
         \/ target \notin DOMAIN server /\ (\A id \in DOMAIN shown : shown[id] # target)
            /\ \E sz \in PaneSizes :
                 server' = [t \in DOMAIN server \cup {target} |->
                               IF t = target THEN [size |-> sz, active |-> FALSE] ELSE server[t]]
         \/ target \in DOMAIN server /\ server' = Restrict(server, DOMAIN server \ {target})
         \/ target \in DOMAIN server
            /\ server' = [t \in DOMAIN server |-> [server[t] EXCEPT !.active = (t = target)]]
    /\ UNCHANGED <<request, sent>> /\ UNCHANGED commandVars /\ UNCHANGED bridgeVars
-----------------------------------------------------------------------------
(* TmuxSessionBridge::handle.                                              *)

\* A request starts its first command; list-panes writes one block for each pane
\* and may write more than the bound allows.
Begin(req, blocks) ==
    /\ Idle /\ Turn
    /\ request' = req
    /\ Spawned(blocks)
    /\ UNCHANGED <<server, sent>> /\ UNCHANGED bridgeVars
BeginCatalog(attaches) ==
    \E blocks \in {Cardinality(DOMAIN server), MaxOutput + 1} :
        Begin([kind |-> IF attaches THEN "Attach" ELSE "Catalog", id |-> None, target |-> None,
               left |-> 1, size |-> None], blocks)

\* require_attached and pane: the id's target as the projection has it now.
BeginWrite(id, chunks) ==
    /\ attached /\ id \in DOMAIN projection
    /\ Begin([kind |-> "WritePane", id |-> id, target |-> projection[id].target,
              left |-> chunks, size |-> None], 0)
BeginResize(id, sz) ==
    /\ attached /\ id \in DOMAIN projection
    /\ Begin([kind |-> "ResizePane", id |-> id, target |-> projection[id].target,
              left |-> 1, size |-> sz], 0)
BeginSnapshot(id) ==
    /\ attached /\ id \in DOMAIN projection
    /\ \E blocks \in {1, MaxOutput + 1} :
         Begin([kind |-> "Snapshot", id |-> id, target |-> projection[id].target,
                left |-> 1, size |-> None], blocks)

\* Detach runs no command.
Detach ==
    /\ Idle /\ Turn
    /\ attached' = FALSE
    /\ UNCHANGED <<server, discovered, projection, nextId, shown, request, sent>>
    /\ UNCHANGED commandVars

Ended == child' = None /\ reader' = None /\ answer' = "none"

\* Ids of a new projection in some order of its panes: fresh for every one of them.
\* The same, counting from 1 each time.
NewIdsFromFirst == 1..Cardinality(DOMAIN server)
NewIds == nextId..(nextId + Cardinality(DOMAIN server) - 1)

\* refresh: an unchanged discovery keeps the projection; any change of it, the size or
\* the focus of a pane included, builds a new one.
Refreshed ==
    IF discovered = server THEN UNCHANGED <<discovered, projection, nextId, shown>>
    ELSE /\ nextId + Cardinality(DOMAIN server) <= MaxIds + 1
         /\ discovered' = server
         /\ \E ids \in [NewIds -> DOMAIN server] :
              /\ IsInjective(ids)
              /\ projection' = [id \in NewIds |-> [target |-> ids[id], size |-> server[ids[id]].size]]
              /\ shown' = [id \in DOMAIN shown \cup NewIds |->
                              IF id \in NewIds THEN ids[id] ELSE shown[id]]
         /\ nextId' = nextId + Cardinality(DOMAIN server)
CompleteCatalog ==
    /\ ~Idle /\ request.kind \in {"Catalog", "Attach"}
    /\ answer \notin {"none", "pending"}
    /\ IF answer = "ok"
         THEN Refreshed /\ attached' = (attached \/ request.kind = "Attach")
         ELSE UNCHANGED bridgeVars
    /\ request' = None
    /\ Ended
    /\ UNCHANGED <<server, sent, turns>>

\* send_input: chunk after chunk, each a command of its own; the first that fails ends
\* the request.  A command naming a pane that is gone fails.
CompleteWrite ==
    /\ ~Idle /\ request.kind = "WritePane"
    /\ answer \notin {"none", "pending"}
    /\ LET reached == answer = "ok" /\ request.target \in DOMAIN server
       IN /\ sent' = IF reached THEN sent \cup {<<request.id, request.target>>} ELSE sent
          /\ IF reached /\ request.left > 1
               THEN request' = [request EXCEPT !.left = @ - 1] /\ Spawned(0)
               ELSE request' = None /\ Ended
    /\ UNCHANGED <<server, turns>> /\ UNCHANGED bridgeVars

\* ResizePane: tmux gives the pane that size or keeps it; the projection takes the size
\* asked for, the discovery stays as it was.
CompleteResize ==
    /\ ~Idle /\ request.kind = "ResizePane"
    /\ answer \notin {"none", "pending"}
    /\ IF answer = "ok" /\ request.target \in DOMAIN server
         THEN /\ \E sz \in {request.size, server[request.target].size} :
                   server' = [server EXCEPT ![request.target].size = sz]
              /\ projection' = IF request.id \in DOMAIN projection
                                 THEN [projection EXCEPT ![request.id].size = request.size]
                                 ELSE projection
         ELSE UNCHANGED <<server, projection>>
    /\ request' = None
    /\ Ended
    /\ UNCHANGED <<attached, discovered, nextId, shown, sent, turns>>

\* Snapshot: capture-pane, parsed into a screen of the projection's size.
CompleteSnapshot ==
    /\ ~Idle /\ request.kind = "Snapshot"
    /\ answer \notin {"none", "pending"}
    /\ request' = None
    /\ Ended
    /\ UNCHANGED <<server, sent, turns>> /\ UNCHANGED bridgeVars
-----------------------------------------------------------------------------
TmuxInit ==
    /\ server = << >>
    /\ attached = FALSE
    /\ discovered = None
    /\ projection = << >>
    /\ nextId = 1
    /\ shown = << >>
    /\ request = None
    /\ NoCommand
    /\ sent = {}
    /\ turns = 0

TmuxNext ==
    \/ ChildWrites \/ ChildExits \/ ReaderReads \/ ReaderEnds \/ LoopKills \/ LoopBreaks
    \/ ServerChanges
    \/ \E attaches \in BOOLEAN : BeginCatalog(attaches)
    \/ \E id \in DOMAIN shown :
         \/ \E chunks \in 1..MaxChunks : BeginWrite(id, chunks)
         \/ \E sz \in PaneSizes : BeginResize(id, sz)
         \/ BeginSnapshot(id)
    \/ Detach
    \/ CompleteCatalog \/ CompleteWrite \/ CompleteResize \/ CompleteSnapshot

TmuxSpec == TmuxInit /\ [][TmuxNext]_tmuxVars
-----------------------------------------------------------------------------
\* Type invariant: the projection's ids were shown, and belong to the discovery it was
\* built from.
TmuxTypeOK ==
    /\ DOMAIN server \subseteq Targets /\ \A t \in DOMAIN server : server[t] \in PaneInfo
    /\ attached \in BOOLEAN
    /\ DOMAIN projection \subseteq DOMAIN shown
    /\ \A id \in DOMAIN shown : shown[id] \in Targets
    /\ projection # << >> => {projection[id].target : id \in DOMAIN projection} = DOMAIN discovered
    /\ answer \in {"none", "pending", "ok", "failed", "too_large", "timed_out"}
    /\ (answer = "none") = Idle

\* Input for a pane of the desktop reaches the tmux pane that was shown under that id,
\* however old the catalog is from which the desktop took the id.
InputGoesToShown == \A pair \in sent : shown[pair[1]] = pair[2]

\* Output that a command's caller accepts is all the child wrote: an overflow noticed
\* by the reader after the loop's last look still refuses it.
AcceptedIsWhole ==
    answer = "ok" => reader.kept = child.wrote

\* Ids are stable while the topology is unchanged.  (They are not: refresh compares sizes
\* and focus too and draws every id anew.)
IdsAreStable ==
    [][\A id \in DOMAIN projection :
         discovered' # None /\ DOMAIN discovered' = DOMAIN discovered => id \in DOMAIN projection']_tmuxVars
=============================================================================
