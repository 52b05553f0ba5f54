--------------------------- MODULE SessionDaemon ---------------------------
(***************************************************************************)
(* strukt-sessiond: the session service (crates/strukt-session/src/        *)
(* service.rs) and the loop that drives it (src/bin/strukt-sessiond.rs).   *)
(*                                                                         *)
(* One thread owns the catalog, the terminal runtime and the controlling   *)
(* client.  Per iteration it takes one event of a connection (or none for  *)
(* a tick), saves what the request changed, answers, drains the panes,     *)
(* saves now and then, and decides whether to end; after a refused request *)
(* it goes round without draining.  Connections have threads of their own, *)
(* so a peer may vanish, with or without a request on its way, while       *)
(* another asks; the service learns of it by an event.  The processes of   *)
(* the panes are held by the service and end with it.  After a crash or an *)
(* end, the next service starts from the record on disk.                   *)
(*                                                                         *)
(* A request waits in its thread until the loop takes it and no thread has *)
(* two, so a connection's next event is chosen when the loop takes it.     *)
(* Starts and terminations run inside their handlers, so their begin, run  *)
(* and finish are one step.  Saving is a step of its own, which is forced, *)
(* because the service may be killed before it.  The branch for diverged   *)
(* generations of begin_start is left out: CatalogShowsRuntime says that   *)
(* nothing reaches it.                                                     *)
(***************************************************************************)
EXTENDS CatalogRequests

CONSTANTS
    Clients,        \* connections
    NoClient,
    NoRecord,
    MaxGeneration,  \* bound: no pane is started more often
    Turns,          \* bound: what a drain can find at a pane
    Imports,        \* catalogs a client may ask to import
    Faults          \* what may go wrong with a save: "screen", "store"

ASSUME DaemonAssumption ==
    /\ NoClient \notin Clients
    /\ MaxGeneration \in Nat
    /\ Turns \subseteq Turn
    /\ Faults \subseteq {"screen", "store"}
    /\ \A given \in Imports : IsCatalog(given)

VARIABLES
    phase,      \* where the loop is, see Phases
    runtime,    \* the panes of terminal_panes, with their PaneRuntime
    historical, \* the panes of SessionService.historical
    large,      \* panes whose screen is beyond the limits of a snapshot
    dirty,      \* SessionService.dirty
    attached,   \* SessionService.attached_clients
    controller, \* controlling_client
    connection, \* the connections, as their threads see them
    disk        \* the record in the session store

service == <<catalog, runtime, historical, large, dirty>>
clients == <<attached, controller, connection>>
vars == <<phase, service, clients, disk, used>>

\* recv: waiting for an event; ok, refused, closing: a request is handled and
\* waits to be saved and answered; tick, last: about to drain; drained: the drain
\* is over; final: the loop is left; ended: the process is gone; killed: likewise, by a crash.
Phases == {"recv", "ok", "refused", "closing", "tick", "last", "drained",
           "final", "ended", "killed"}

\* closed; open; gone: the peer has left, a request may still be on its way;
\* leaving: the Disconnected event is all that is left.
Connections == {"closed", "open", "gone", "leaving"}

Up == phase \notin {"ended", "killed"}
Held == {p \in DOMAIN runtime : runtime[p].process}
NoRuntime == [p \in {} |-> NewPane(1, "Stopped")]

Init ==
    /\ phase = "recv"
    /\ catalog = EmptyCatalog
    /\ runtime = NoRuntime
    /\ historical = {}
    /\ large = {}
    /\ dirty = FALSE
    /\ attached = 0
    /\ controller = NoClient
    /\ connection = [c \in Clients |-> "closed"]
    /\ disk = NoRecord
    /\ used = [session |-> {}, window |-> {}, pane |-> {}]

-----------------------------------------------------------------------------
(* Connections.                                                             *)

Connect(c) ==
    /\ Up
    /\ connection[c] = "closed"
    /\ connection' = [connection EXCEPT ![c] = "open"]
    /\ UNCHANGED <<phase, service, attached, controller, disk, used>>

PeerLeaves(c) ==
    /\ connection[c] = "open"
    /\ connection' = [connection EXCEPT ![c] = "gone"]
    /\ UNCHANGED <<phase, service, attached, controller, disk, used>>

\* The loop takes a request of this connection.  The answer to a peer that has
\* left cannot be written, so its thread then only reports the disconnection.
Takes(c, reply) ==
    /\ phase = "recv"
    /\ connection[c] \in {"open", "gone"}
    /\ phase' = reply
    /\ connection' = [connection EXCEPT ![c] = IF @ = "gone" THEN "leaving" ELSE @]
    /\ UNCHANGED disk

\* require_controller.
Controls(c, reply) == Takes(c, reply) /\ controller = c /\ UNCHANGED <<attached, controller>>

\* Any request may be refused, by a guard of its handler, without any change.
Refuse(c) ==
    /\ Takes(c, "refused")
    /\ UNCHANGED <<service, attached, controller, used>>

\* Attach and Reconnect: one controlling client, which may attach again.
Attach(c) ==
    /\ Takes(c, "ok")
    /\ controller \in {NoClient, c}
    /\ controller = NoClient => attached = 0
    /\ controller' = c
    /\ attached' = 1
    /\ UNCHANGED <<service, used>>

Detach(c) ==
    /\ Takes(c, "ok")
    /\ controller = c
    /\ attached > 0
    /\ controller' = NoClient
    /\ attached' = 0
    /\ UNCHANGED <<service, used>>

\* Faulty variants: only one of the two places forgets the controlling client.
DisconnectedButAttached(c) ==
    /\ phase = "recv"
    /\ connection[c] \in {"gone", "leaving"}
    /\ connection' = [connection EXCEPT ![c] = "closed"]
    /\ controller' = IF controller = c THEN NoClient ELSE controller
    /\ phase' = "tick"
    /\ UNCHANGED <<service, attached, disk, used>>
DisconnectedButInControl(c) ==
    /\ phase = "recv"
    /\ connection[c] \in {"gone", "leaving"}
    /\ connection' = [connection EXCEPT ![c] = "closed"]
    /\ attached' = IF controller = c THEN 0 ELSE attached
    /\ phase' = "tick"
    /\ UNCHANGED <<service, controller, disk, used>>

\* ClientEvent::Disconnected: the controlling client loses control.  No save.
Disconnected(c) ==
    /\ phase = "recv"
    /\ connection[c] \in {"gone", "leaving"}
    /\ connection' = [connection EXCEPT ![c] = "closed"]
    /\ controller' = IF controller = c THEN NoClient ELSE controller
    /\ attached' = IF controller = c THEN 0 ELSE attached
    /\ phase' = "tick"
    /\ UNCHANGED <<service, disk, used>>

-----------------------------------------------------------------------------
(* Requests of the controlling client.                                      *)

\* Catalog, Snapshot and WritePane change nothing that is kept here, except that
\* viewing a pane can clear its unread marks, which makes the service dirty.
Ask(c) ==
    /\ Takes(c, "ok")
    /\ dirty' \in {dirty} \cup (IF controller = c THEN {TRUE} ELSE {})
    /\ UNCHANGED <<catalog, runtime, historical, large, attached, controller, used>>

\* apply_catalog_mutation: what it forgets are the panes that have a runtime.
Forget ==
    LET removed == {p \in DOMAIN runtime : p \notin PanesIn(catalog')}
    IN  /\ runtime' = Restrict(runtime, DOMAIN runtime \ removed)
        /\ historical' = historical \ removed
        /\ large' = large \ removed

\* A faulty variant: the service is not marked as changed.
MutateUnmarked(c) ==
    /\ Controls(c, "ok")
    /\ Enlarge \/ Rearrange
    /\ Forget
    /\ UNCHANGED dirty

Mutate(c) ==
    /\ Controls(c, "ok")
    /\ \/ Enlarge
       \/ Rearrange
       \/ \E s \in SessionIds : Retouch(s)
    /\ Forget
    /\ dirty' = TRUE

Import(c) ==
    /\ Controls(c, "ok")
    /\ \E given \in Imports :
           /\ ImportStopped(catalog, catalog', given)
           /\ used' = [used EXCEPT !.session = @ \cup DOMAIN given.sessions,
                           !.window = @ \cup {w.id : w \in Windows(given)},
                           !.pane = @ \cup PanesIn(given)]
    /\ dirty' = TRUE
    /\ UNCHANGED <<runtime, historical, large>>

\* The generation a runtime would start next, TerminalRuntime::begin_restart.
NextGeneration(p) == IF p \in DOMAIN runtime THEN runtime[p].generation + 1 ELSE 1

\* begin_restart, the start job and finish_restart: whether the prior process
\* cannot be ended or the spawn fails, the pane is left failed.
Started(p, ok) ==
    [NewPane(NextGeneration(p), IF ok THEN "Running" ELSE "Failed") EXCEPT !.process = ok]

\* begin_terminate, the job and finish_terminate.
Terminated(p, ok) ==
    [runtime[p] EXCEPT !.process = FALSE, !.state = IF ok THEN "Exited" ELSE "Failed"]

\* The panes of changed get a new runtime value; those of starting begin a new
\* generation in the catalog, and then every lifecycle is reported to it.
Apply(changed, starting) ==
    /\ runtime' = [p \in DOMAIN runtime \cup DOMAIN changed |->
                      IF p \in DOMAIN changed THEN changed[p] ELSE runtime[p]]
    /\ catalog' = SetLifecycle(BeginGeneration(catalog, starting),
                     [p \in DOMAIN changed |-> [generation |-> changed[p].generation,
                                                lifecycle  |-> changed[p].state]])
    /\ historical' = historical \ starting
    /\ dirty' = (dirty \/ DOMAIN changed # {})
    /\ UNCHANGED used

\* The panes that the service may start again within the bound, and whether the
\* size asked for is beyond a snapshot's limits.
Startable(panes) == \A p \in panes : NextGeneration(p) <= MaxGeneration
Sized(panes) ==
    large' \in {large \ panes} \cup (IF "screen" \in Faults THEN {large \cup panes} ELSE {})

StartPane(c, p) ==
    /\ p \in PanesIn(catalog)
    /\ Startable({p})
    /\ \E ok \in BOOLEAN :
           /\ Controls(c, IF ok THEN "ok" ELSE "refused")
           /\ Apply([q \in {p} |-> Started(p, ok)], {p})
    /\ Sized({p})

TerminatePane(c, p) ==
    /\ p \in PanesIn(catalog) \cap Held
    /\ \E ok \in BOOLEAN :
           /\ Controls(c, IF ok THEN "ok" ELSE "refused")
           /\ Apply([q \in {p} |-> Terminated(p, ok)], {})
    /\ UNCHANGED large

ShownLive(p) == PaneOf(catalog, p).lifecycle \in LiveStates

\* terminate_session: each live pane on its own; one that fails does not stop
\* the others, and one without a process is counted as failed and left alone.
TerminateSession(c, s) ==
    /\ Controls(c, "ok")
    /\ HasSession(catalog, s)
    /\ LET panes == {p \in PanesOf(catalog.sessions[s]) : ShownLive(p)} \cap Held
       IN  \E ok \in [panes -> BOOLEAN] :
               Apply([p \in panes |-> Terminated(p, ok[p])], {})
    /\ UNCHANGED large

\* restart_session: each pane on its own; a live one is terminated first, and is
\* not started when that fails.  Without a shell nothing is started, and what was
\* terminated stays so.
RestartSession(c, s) ==
    /\ Controls(c, "ok")
    /\ HasSession(catalog, s)
    /\ LET all   == PanesOf(catalog.sessions[s])
           panes == {p \in all : ShownLive(p) => p \in Held}
           live  == {p \in panes : ShownLive(p)}
       IN  /\ Startable(panes)
           /\ \E shell \in BOOLEAN, ends \in [live -> BOOLEAN], ok \in [panes -> BOOLEAN] :
                  LET starting == {p \in panes : shell /\ (p \in live => ends[p])}
                  IN  /\ Apply([p \in starting \cup live |->
                                   IF p \in starting THEN Started(p, ok[p])
                                   ELSE Terminated(p, ends[p])], starting)
                      /\ Sized(starting)

\* resize: the process, its model and then the catalog.
ResizePane(c, p) ==
    /\ Controls(c, "ok")
    /\ p \in PanesIn(catalog) \cap Held
    /\ Sized({p})
    /\ SetPaneSize(catalog, catalog', SessionOf(catalog, p), p)
    /\ dirty' = TRUE
    /\ UNCHANGED <<runtime, historical, used>>

\* Shutdown is refused while a process is held.
Shutdown(c) ==
    /\ Controls(c, "closing")
    /\ Held = {}
    /\ UNCHANGED <<service, used>>

-----------------------------------------------------------------------------
(* The loop.                                                                *)

\* recv_timeout passes without an event.
Timeout ==
    /\ phase = "recv"
    /\ phase' = "tick"
    /\ UNCHANGED <<service, clients, disk, used>>

\* take_persistence: the record it makes, and what it needs to make one.
Record == [catalog |-> StoppedClone(catalog),
           histories |-> historical \cup DOMAIN runtime]

CanRecord ==
    /\ ValidCatalog(catalog)
    /\ Record.histories \subseteq PanesIn(catalog)
    /\ large = {}

\* The service is gone, and every process with it.
Gone ==
    /\ catalog' = EmptyCatalog
    /\ runtime' = NoRuntime
    /\ historical' = {}
    /\ large' = {}
    /\ dirty' = FALSE
    /\ attached' = 0
    /\ controller' = NoClient
    /\ connection' = [c \in Clients |-> "closed"]

\* persist_if_dirty: its error ends the loop, and the service.
PersistIfDirty(next) ==
    \/ /\ ~dirty
       /\ phase' = next
       /\ UNCHANGED <<service, clients, disk>>
    \/ /\ dirty
       /\ CanRecord
       /\ phase' = next
       /\ disk' = Record
       /\ dirty' = FALSE
       /\ UNCHANGED <<catalog, runtime, historical, large, clients>>
    \/ /\ dirty
       /\ ~CanRecord \/ "store" \in Faults
       /\ phase' = "ended"
       /\ Gone
       /\ UNCHANGED disk

\* After the handler: save, answer, and go on to drain unless it was refused.
Save ==
    /\ phase \in {"ok", "refused", "closing"}
    /\ PersistIfDirty(CASE phase = "ok"      -> "tick"
                        [] phase = "refused" -> "recv"
                        [] phase = "closing" -> "last")
    /\ UNCHANGED used

\* What a drain can make of a pane: it is out of the budget, or has its turn.
Outcomes(p) ==
    {[pane |-> runtime[p], changed |-> FALSE]} \cup
    {[pane    |-> AfterTurn(runtime[p], turn, aged),
      changed |-> TurnChanges(runtime[p], turn, aged)] :
        turn \in Turns \cap TurnsOf(runtime[p]), aged \in BOOLEAN}

\* tick: the drain, and its report of the changed panes to the catalog.
Drain ==
    /\ phase \in {"tick", "last"}
    /\ \E after \in {f \in [DOMAIN runtime -> UNION {Outcomes(p) : p \in DOMAIN runtime}] :
                        \A p \in DOMAIN runtime : f[p] \in Outcomes(p)} :
           LET changed == {p \in DOMAIN runtime : after[p].changed /\ p \in PanesIn(catalog)}
           IN  /\ runtime' = [p \in DOMAIN runtime |-> after[p].pane]
               /\ catalog' = SetLifecycle(catalog, [p \in changed |->
                                 [generation |-> after[p].pane.generation,
                                  lifecycle  |-> after[p].pane.state]])
               /\ dirty' = (dirty \/ changed # {})
    /\ phase' = IF phase = "last" THEN "final" ELSE "drained"
    /\ UNCHANGED <<historical, large, clients, disk, used>>

\* The end of an iteration: nothing is due, or the periodic save, or the idle
\* time has passed and should_exit holds.
Round ==
    /\ phase = "drained"
    /\ phase' = "recv"
    /\ UNCHANGED <<service, clients, disk, used>>

PeriodicSave ==
    /\ phase = "drained"
    /\ PersistIfDirty("recv")
    /\ UNCHANGED used

GoIdle ==
    /\ phase = "drained"
    /\ attached = 0
    /\ Held = {}
    /\ phase' = "final"
    /\ UNCHANGED <<service, clients, disk, used>>

\* The loop is left: the last save, and the process ends.
Finish ==
    /\ phase = "final"
    /\ phase' = "ended"
    /\ disk' \in (IF dirty /\ CanRecord THEN {Record} ELSE {disk})
                    \cup (IF "store" \in Faults THEN {disk} ELSE {})
    /\ Gone
    /\ UNCHANGED used

\* The process is killed, or the machine goes down.
Crash ==
    /\ Up
    /\ phase' = "killed"
    /\ Gone
    /\ UNCHANGED <<disk, used>>

\* A new service restores the record, everything stopped.
Launch ==
    /\ ~Up
    /\ phase' = "recv"
    /\ catalog' = IF disk = NoRecord THEN EmptyCatalog ELSE StoppedClone(disk.catalog)
    /\ historical' = IF disk = NoRecord THEN {} ELSE disk.histories
    /\ UNCHANGED <<runtime, large, dirty, clients, disk, used>>

Handle(c) ==
    \/ Refuse(c) \/ Attach(c) \/ Detach(c) \/ Ask(c) \/ Mutate(c) \/ Import(c)
    \/ Shutdown(c)
    \/ \E p \in PaneIds : StartPane(c, p) \/ TerminatePane(c, p) \/ ResizePane(c, p)
    \/ \E s \in SessionIds : TerminateSession(c, s) \/ RestartSession(c, s)

Iterate == Save \/ Drain \/ Round \/ Finish \/ Timeout

Next ==
    \/ \E c \in Clients : Connect(c) \/ PeerLeaves(c) \/ Handle(c) \/ Disconnected(c)
    \/ Iterate \/ PeriodicSave \/ GoIdle \/ Crash \/ Launch

\* The loop goes on, and a disconnection is an event in a first-in first-out
\* channel: the loop cannot take other events for ever before it.
Fairness == WF_vars(Iterate) /\ \A c \in Clients : SF_vars(Disconnected(c))

Spec == Init /\ [][Next]_vars /\ Fairness

-----------------------------------------------------------------------------
(* Properties.                                                              *)

TypeOK ==
    /\ phase \in Phases
    /\ ValidCatalog(catalog)
    /\ \A p \in DOMAIN runtime : runtime[p] \in PaneRuntime
    /\ historical \subseteq PaneIds
    /\ large \subseteq DOMAIN runtime
    /\ dirty \in BOOLEAN
    /\ attached \in {0, 1}
    /\ controller \in Clients \cup {NoClient}
    /\ connection \in [Clients -> Connections]
    /\ disk = NoRecord \/ (ValidCatalog(disk.catalog)
                           /\ disk.histories \subseteq PanesIn(disk.catalog))

\* The two places that know who is in control agree, the loop's
\* controlling_client and the service's attached_clients, and whoever is in
\* control has a connection whose end is still to be reported.  If they came
\* apart, nobody could attach any more, or the service would never go idle.
ControlAgrees ==
    /\ controller = NoClient <=> attached = 0
    /\ controller # NoClient => connection[controller] # "closed"

\* The catalog tells the truth about the processes: a pane has a runtime exactly
\* when it was started in this service, both count the same generations, and the
\* lifecycle the catalog shows, which the guards of close and remove look at, is
\* the state of the runtime, which holds the process.
CatalogShowsRuntime ==
    /\ DOMAIN runtime \subseteq PanesIn(catalog)
    /\ \A p \in PanesIn(catalog) :
         PaneOf(catalog, p) =
             IF p \in DOMAIN runtime
             THEN [generation |-> runtime[p].generation, lifecycle |-> runtime[p].state]
             ELSE StoppedPane

\* What a client was told to be done is on disk, so that the next service has it
\* after a crash: outside of a handler and its save the record has the structure
\* of the catalog.
AcknowledgedIsOnDisk ==
    (Up /\ phase # "ok") =>
        StoppedClone(catalog) = IF disk = NoRecord THEN EmptyCatalog ELSE disk.catalog

\* No rearrangement of sessions, windows and panes ever ends a process, although
\* apply_catalog_mutation discards the runtime of what was removed with its
\* process: only requests that say so end one, and they rearrange nothing.
RearrangingKeepsProcesses ==
    [][(Up /\ Up' /\ PanesIn(catalog) # PanesIn(catalog')) => Held \subseteq Held']_vars

\* Control is released when its connection is lost, so that a client that comes
\* back can attach: the disconnection is noticed, or the service is gone.
ControlIsReleased ==
    \A c \in Clients :
        (controller = c /\ connection[c] \in {"gone", "leaving"}) ~> controller # c

\* The service "stays alive while at least one pane is running"
\* (docs/specs/0007-m3-local-persistent-sessions.md): it does not end by itself
\* while it holds a process.
RunningPanesKeepService ==
    [][(phase' = "ended" /\ phase # "ended") => Held = {}]_vars
=============================================================================
