-------------------------- MODULE DesktopSessions --------------------------
(***************************************************************************)
(* The desktop's side of persistent sessions: SessionSurfaces of           *)
(* crates/strukt-app/src/session.rs, the handlers of app.rs that drive it, *)
(* the jobs they start on worker threads, and the services they ask: the   *)
(* local one over its endpoint, the one on a remote host through the       *)
(* helper at the other end of an SSH connection.                           *)
(*                                                                         *)
(* A job keeps the client it was begun by only in the history variable     *)
(* era, because the code keeps it nowhere.  A completion is applied to the *)
(* surfaces there are when it arrives.                                     *)
(*                                                                         *)
(* A catalog is one session: its revision and its panes.  What a request   *)
(* does beyond that is left out, so "act" stands for every request that is *)
(* answered without a catalog (create, duplicate, split, start, restart,   *)
(* terminate, write, resize) and "change" for those that are answered with *)
(* one (rename, activate, focus, close, remove).                           *)
(***************************************************************************)
EXTENDS SessionClient

CONSTANTS
    Panes,
    MaxRevision,    \* bound: catalogs are changed no more often
    MaxInstances,   \* bound: services started
    MaxLinks,       \* bound: SSH connections at the same time
    MaxJobs,        \* bound: jobs that run at the same time
    MaxEras         \* bound: times the client is replaced or cut off

VARIABLES
    surfaces,   \* SessionSurfaces, with its SessionClient
    workspace,  \* the terminal tabs to import, and whether they were imported
    jobs,       \* connect and request jobs, running or completed
    connecting, \* an SSH connection is being made
    runtime,    \* remote_runtime: the SSH connection in use, or None
    links,      \* the SSH connections that are up, each with its helper's client
    services,   \* the services, "local" and "remote"
    started,    \* the services started so far
    era,        \* history: changes whenever the client is replaced or cut off
    misapplied  \* history: a completion of an earlier era was applied

app == <<surfaces, workspace, connecting, runtime>>
vars == <<app, jobs, links, services, started, era, misapplied>>

Places == {"local", "remote"}
Place == IF surfaces.remote THEN "remote" ELSE "local"

\* Faulty variant: a client of a link passes for a local one.
NewSurfacesLocal(backend) ==
    [client |-> NewClient, backend |-> backend, remote |-> FALSE, pending |-> None,
     selected |-> None, plan |-> FALSE]
\* backend: the link the client connects over, None for the local endpoint.
NewSurfaces(backend) ==
    [client |-> NewClient, backend |-> backend, remote |-> backend # None, pending |-> None,
     selected |-> None, plan |-> FALSE]

Init ==
    /\ surfaces = NewSurfaces(None)
    /\ workspace \in [terminal : BOOLEAN, migrated : {FALSE}]
    /\ jobs = {}
    /\ connecting = FALSE
    /\ runtime = None
    /\ links = [l \in {} |-> NewClient]
    /\ services = [p \in Places |->
         [up |-> FALSE, instance |-> 0, revision |-> 0, panes |-> {}, given |-> {},
          controller |-> None]]
    /\ started = 0
    /\ era = 0
    /\ misapplied = FALSE

-----------------------------------------------------------------------------
(* The services.                                                            *)

Snapshot(service) ==
    [instance |-> service.instance, revision |-> service.revision, panes |-> service.panes]

Launch(service) == [service EXCEPT !.up = TRUE, !.instance = started + 1]

\* What the service does with a request over a connection that has control, and what it
\* answers.  A revision other than its own is refused, and so is the screen of a pane that
\* was never started.  A pane gets an identifier no other had (given is history).
Served(service, body, pane, revision) ==
    LET next(panes) == [service EXCEPT !.panes = panes, !.given = @ \cup panes,
                                       !.revision = @ + 1]
        accepts == revision = service.revision /\ service.revision < MaxRevision
        fresh == Panes \ service.given
    IN CASE body = "catalog" -> {<<service, "catalog">>}
         [] body = "detach" -> {<<[service EXCEPT !.controller = None], "detached">>}
         [] body = "snapshot" ->
              {<<service, "refused">>}
                \cup IF pane \in service.panes THEN {<<service, "screen">>} ELSE {}
         [] body = "import" ->
              IF accepts /\ service.panes = {} /\ fresh # {}
              THEN {<<next({p}), "catalog">> : p \in fresh} ELSE {<<service, "refused">>}
         [] body = "act" ->
              {<<service, "done">>}
                \cup IF accepts THEN {<<next(service.panes \cup {p}), "done">> : p \in fresh}
                     ELSE {<<service, "refused">>}
         [] body = "change" ->
              IF accepts /\ service.panes # {}
              THEN {<<next(service.panes), "catalog">>}
                     \cup {<<next(service.panes \ {p}), "catalog">> : p \in service.panes}
              ELSE {<<service, "refused">>}

\* A connection is broken once its service is gone.
Alive(service, connection) == service.up /\ connection.instance = service.instance

\* The connections somebody holds; the service sees the others close.
Held(place) ==
    {c \in {surfaces.client.connection} \cup {j.connection : j \in jobs}
           \cup {links[l].connection : l \in DOMAIN links} : c # None /\ c.place = place}

Disconnected(place) ==
    /\ services[place].controller # None
    /\ \A c \in Held(place) : c.id # services[place].controller
    /\ services' = [services EXCEPT ![place].controller = None]
    /\ UNCHANGED <<app, jobs, links, started, era, misapplied>>

\* A service ends, by a crash or because it is idle.  The next one has its catalog.
ServiceEnds(place) ==
    /\ services[place].up
    /\ started < MaxInstances
    /\ services' = [services EXCEPT ![place].up = FALSE, ![place].controller = None]
    /\ UNCHANGED <<app, jobs, links, started, era, misapplied>>

\* Somebody else, another desktop or a shell, starts the service.
ServiceStarts(place) ==
    /\ ~services[place].up
    /\ started < MaxInstances
    /\ services' = [services EXCEPT ![place] = Launch(@)]
    /\ started' = started + 1
    /\ UNCHANGED <<app, jobs, links, era, misapplied>>

-----------------------------------------------------------------------------
(* Jobs.                                                                    *)

Job(kind, body, connection, pane) ==
    [kind |-> kind, body |-> body, connection |-> connection, pane |-> pane, era |-> era,
     place |-> Place, link |-> surfaces.backend, revision |-> Revision(surfaces.client),
     result |-> "running", catalog |-> None]

Done(job, connection, result, catalog) ==
    (jobs \ {job}) \cup {[job EXCEPT !.connection = connection, !.result = result,
                                     !.catalog = catalog]}

Running(job, kind, place) ==
    /\ job \in jobs
    /\ job.kind = kind
    /\ job.place = place
    /\ job.result = "running"

\* A connection to a service gets a number no other has.
Fresh(numbers) == CHOOSE n \in 1..(Cardinality(numbers) + 1) :
                    n \notin numbers /\ 1..(n - 1) \subseteq numbers

NewConnection(place, link, instance) ==
    [id |-> Fresh({c.id : c \in Held(place)} \cup {services[place].controller}),
     place |-> place, link |-> link, instance |-> instance]

\* What the desktop holds of a link, in place of a connection to the service.
Exchange(link, instance) ==
    [id |-> 0, place |-> "remote", link |-> link, instance |-> instance]

\* A new connection asks for control, which only one may have.
Attaches(service, connection) ==
    IF service.controller = None
    THEN <<[service EXCEPT !.controller = connection.id], "ok">> ELSE <<service, "refused">>

\* ClientConnectJob::run against the local service.  An explicit attempt starts the
\* service once if it is not there; an attempt to reconnect never does.
RunConnect(job) ==
    /\ Running(job, "connect", "local")
    /\ LET service == services["local"]
           starts == ~service.up /\ job.body = "attach" /\ started < MaxInstances
           target == IF starts THEN Launch(service) ELSE service
           connection == NewConnection("local", None, target.instance)
           answer == Attaches(target, connection)
       IN IF target.up
          THEN /\ services' = [services EXCEPT !["local"] = answer[1]]
               /\ started' = IF starts THEN started + 1 ELSE started
               /\ jobs' = IF answer[2] = "ok"
                          THEN Done(job, connection, "ok", Snapshot(target))
                          ELSE Done(job, None, "refused", None)
          ELSE /\ jobs' = Done(job, None, "refused", None)
               /\ UNCHANGED <<services, started>>
    /\ UNCHANGED <<app, links, era, misapplied>>

\* The same through the helper of a link, whose client answers an attachment from its
\* cache if it is ready, and else connects; its answer gives the instance.
RunConnectRemote(job) ==
    /\ Running(job, "connect", "remote")
    /\ IF job.link \notin DOMAIN links
       THEN /\ jobs' = Done(job, None, "refused", None)
            /\ UNCHANGED <<links, services, started>>
       ELSE LET helper == links[job.link]
                cached == job.body = "attach" /\ helper.health = "Ready"
                service == services["remote"]
                starts == ~service.up /\ job.body = "attach" /\ started < MaxInstances
                target == IF starts THEN Launch(service) ELSE service
                inner == NewConnection("remote", job.link, target.instance)
                answer == Attaches(target, inner)
            IN \/ /\ cached
                  /\ jobs' = Done(job, Exchange(job.link, helper.catalog.instance), "ok",
                                  helper.catalog)
                  /\ UNCHANGED <<links, services, started>>
               \/ /\ ~cached
                  /\ target.up
                  /\ answer[2] = "ok"
                  /\ services' = [services EXCEPT !["remote"] = answer[1]]
                  /\ links' = [links EXCEPT ![job.link] =
                                 Connected(@, job.body, inner, Snapshot(target))]
                  /\ started' = IF starts THEN started + 1 ELSE started
                  /\ jobs' = Done(job, Exchange(job.link, target.instance), "ok",
                                  Snapshot(target))
               \/ /\ ~cached
                  /\ ~target.up \/ answer[2] # "ok"
                  /\ links' = [links EXCEPT ![job.link] = ConnectFailed(@)]
                  /\ jobs' = Done(job, None, "refused", None)
                  /\ UNCHANGED <<services, started>>
    /\ UNCHANGED <<app, era, misapplied>>

\* ClientRequestJob::run.
RunRequest(job) ==
    /\ Running(job, "request", "local")
    /\ IF Alive(services["local"], job.connection)
       THEN \E answer \in Served(services["local"], job.body, job.pane, job.revision) :
              /\ services' = [services EXCEPT !["local"] = answer[1]]
              /\ jobs' = Done(job, job.connection, answer[2], Snapshot(answer[1]))
       ELSE /\ jobs' = Done(job, job.connection, "lost", None)
            /\ UNCHANGED services
    /\ UNCHANGED <<app, links, started, era, misapplied>>

\* The helper asks with the revision of its own client.  What it could not ask it
\* answers as an error of the provider.
RunRequestRemote(job) ==
    /\ Running(job, "request", "remote")
    /\ IF job.connection.link \notin DOMAIN links
       THEN jobs' = Done(job, job.connection, "lost", None) /\ UNCHANGED <<links, services>>
       ELSE LET helper == links[job.connection.link]
                service == services["remote"]
            IN \/ /\ ~CanRequest(helper)
                  /\ jobs' = Done(job, job.connection, "refused", None)
                  /\ UNCHANGED <<links, services>>
               \/ /\ CanRequest(helper)
                  /\ ~Alive(service, helper.connection)
                  /\ links' = [links EXCEPT ![job.connection.link] = MarkTransportLost(@)]
                  /\ jobs' = Done(job, job.connection, "refused", None)
                  /\ UNCHANGED services
               \/ /\ CanRequest(helper)
                  /\ Alive(service, helper.connection)
                  /\ \E answer \in Served(service, job.body, job.pane, Revision(helper)) :
                       /\ services' = [services EXCEPT !["remote"] = answer[1]]
                       /\ links' = [links EXCEPT ![job.connection.link] =
                            FinishRequest(@, helper.connection, answer[2], Snapshot(answer[1]))]
                       /\ jobs' = Done(job,
                            IF answer[2] = "catalog"
                            THEN [job.connection EXCEPT !.instance = service.instance]
                            ELSE job.connection,
                            answer[2], Snapshot(answer[1]))
    /\ UNCHANGED <<app, started, era, misapplied>>

-----------------------------------------------------------------------------
(* What the handlers share.                                                 *)

\* begin_tagged_request.
CanAsk(s) == s.pending = None /\ CanRequest(s.client)
Asked(s, tag) == [s EXCEPT !.pending = tag, !.client = BeginRequest(@)]
Request(s, body, pane) == Job("request", body, s.client.connection, pane)

\* sync_selection: the selected pane stays while the catalog has it.
Selections(s) ==
    LET panes == PanesOf(s.client.catalog)
    IN IF s.selected \in panes THEN {s.selected}
       ELSE IF panes = {} THEN {None} ELSE panes
Selected(s, pane) == [s EXCEPT !.selected = pane]

\* begin_next_reconnect_resync: the pane is taken from the queue even if the request is
\* refused.
Resynced(s, others) ==
    LET rest == [s EXCEPT !.client.resync = Tail(@)]
        pane == Head(s.client.resync)
    IN IF CanAsk(rest)
       THEN /\ surfaces' = Asked(rest, "snapshot")
            /\ jobs' = others \cup
                 {[Request(rest, "snapshot", pane) EXCEPT !.revision = Revision(rest.client)]}
       ELSE surfaces' = rest /\ jobs' = others

\* begin_migration: the terminal tabs of a workspace that were never imported, into a
\* service without sessions.
Migrates(s) ==
    /\ ~s.remote
    /\ workspace.terminal
    /\ ~workspace.migrated
    /\ PanesOf(s.client.catalog) = {}
    /\ CanAsk(s)

-----------------------------------------------------------------------------
(* Messages of the user and of the timers.                                  *)

BeginsConnect(intent) ==
    /\ CanConnect(surfaces.client)
    /\ Cardinality(jobs) < MaxJobs
    /\ surfaces' = [surfaces EXCEPT !.client = BeginConnect(@)]
    /\ jobs' = jobs \cup {Job("connect", intent, None, None)}
    /\ UNCHANGED <<workspace, connecting, runtime, links, services, started, era, misapplied>>

\* ConnectSessions: the Attach button or the command, which is offered at any time.
ConnectSessions ==
    /\ surfaces.remote => runtime # None
    /\ BeginsConnect("attach")

\* ReconnectSessions, on a timer while the client is stale.
ReconnectSessions ==
    /\ surfaces.client.health = "Stale"
    /\ surfaces.remote => runtime # None
    /\ BeginsConnect("reconnect")

Ask(body, tag, pane) ==
    /\ CanAsk(surfaces)
    /\ Cardinality(jobs) < MaxJobs
    /\ surfaces' = Asked(surfaces, tag)
    /\ jobs' = jobs \cup {Request(surfaces, body, pane)}
    /\ UNCHANGED <<workspace, connecting, runtime, links, services, started, era, misapplied>>

RefreshSessions == Ask("catalog", "ordinary", None)
DetachSessions == Ask("detach", "detach", None)
Act == Ask("act", "ordinary", None)
Change == Ask("change", "ordinary", None)

\* PollSessions, on a timer while the client is ready.
PollSessions ==
    /\ surfaces.selected # None
    /\ Ask("snapshot", "snapshot", surfaces.selected)

\* SelectSessionPane and the other selections; a native provider is told by a request.
Select(pane) ==
    /\ pane \in PanesOf(surfaces.client.catalog)
    /\ surfaces.selected # pane
    /\ surfaces' = Selected(surfaces, pane)
    /\ UNCHANGED <<workspace, jobs, connecting, runtime, links, services, started, era, misapplied>>

-----------------------------------------------------------------------------
(* Completions.                                                             *)

Overtaken(job) == job.era # era

\* SessionsConnected: after a success the panes to show again, else the migration.
SessionsConnected(job) ==
    /\ job \in jobs
    /\ job.kind = "connect"
    /\ job.result # "running"
    /\ misapplied' = (misapplied \/ Overtaken(job))
    /\ LET others == jobs \ {job}
           done == [surfaces EXCEPT !.client = Connected(@, job.body, job.connection, job.catalog)]
       IN IF job.result # "ok"
          THEN /\ surfaces' = [surfaces EXCEPT !.client = ConnectFailed(@)]
               /\ jobs' = others
          ELSE \E pane \in Selections(done) :
                 LET s == Selected(done, pane) IN
                 \/ s.client.resync # <<>> /\ Resynced(s, others)
                 \/ /\ s.client.resync = <<>>
                    /\ Migrates(s)
                    /\ surfaces' = [Asked(s, "migration") EXCEPT !.plan = TRUE]
                    /\ jobs' = others \cup
                         {[Request(s, "import", None) EXCEPT !.revision = Revision(s.client)]}
                 \/ /\ s.client.resync = <<>>
                    /\ ~Migrates(s)
                    /\ surfaces' = s
                    /\ jobs' = others
    /\ UNCHANGED <<workspace, connecting, runtime, links, services, started, era>>

\* SessionRequestFinished.  A completion nobody waits for is dropped, with its connection.
SessionRequestFinished(job) ==
    /\ job \in jobs
    /\ job.kind = "request"
    /\ job.result # "running"
    /\ LET others == jobs \ {job}
           client == FinishRequest(surfaces.client, job.connection, job.result, job.catalog)
           failed == \/ job.result \in {"lost", "refused"}
                     \/ /\ job.result = "catalog"
                        /\ job.catalog.instance # job.connection.instance
           shown == IF surfaces.pending = "snapshot" /\ job.result = "screen"
                    THEN ApplySnapshot(client, job.pane, job.connection.instance) ELSE client
           imported == surfaces.pending = "migration" /\ job.result = "catalog" /\ surfaces.plan
           done == [surfaces EXCEPT !.pending = None, !.client = shown,
                                    !.plan = @ /\ ~imported]
       IN IF surfaces.pending = None
          THEN jobs' = others /\ UNCHANGED <<surfaces, workspace, misapplied>>
          ELSE /\ misapplied' = (misapplied \/ Overtaken(job))
               /\ workspace' = [workspace EXCEPT !.migrated = (@ \/ (imported /\ ~failed))]
               /\ IF failed
                  THEN surfaces' = [done EXCEPT !.client = client] /\ jobs' = others
                  ELSE \E pane \in Selections(done) :
                         LET s == Selected(done, pane) IN
                         \/ /\ job.result = "screen"
                            /\ s.client.resync # <<>>
                            /\ Resynced(s, others)
                         \/ /\ job.result = "screen" => s.client.resync = <<>>
                            /\ surfaces' = s
                            /\ jobs' = others
    /\ UNCHANGED <<connecting, runtime, links, services, started, era>>

-----------------------------------------------------------------------------
(* The SSH connection.                                                      *)

\* The links something of the desktop refers to.
Referred == {runtime, surfaces.backend} \cup {j.link : j \in jobs}

\* ConnectRemote is refused while a request of a remote session is in flight.
ConnectRemote ==
    /\ ~connecting
    /\ ~(surfaces.remote /\ (surfaces.pending # None \/ surfaces.client.inFlight))
    /\ connecting' = TRUE
    /\ UNCHANGED <<surfaces, workspace, jobs, runtime, links, services, started, era, misapplied>>

RemoteFailed ==
    /\ connecting
    /\ connecting' = FALSE
    /\ runtime' = None
    /\ UNCHANGED <<surfaces, workspace, jobs, links, services, started, era, misapplied>>

\* RemoteConnected: a stale client of the same host keeps its catalog and reconnects over
\* the new link; any other client is replaced.
RemoteConnected ==
    LET link == Fresh(DOMAIN links \cup Referred)
        rebinds == surfaces.remote /\ surfaces.client.health \in {"Stale", "Failed"}
        refused == rebinds /\ surfaces.client.inFlight
    IN /\ connecting
       /\ link <= MaxLinks
       /\ era < MaxEras
       /\ connecting' = FALSE
       /\ runtime' = link
       /\ links' = [l \in DOMAIN links \cup {link} |->
                      IF l = link THEN NewClient ELSE links[l]]
       /\ surfaces' = CASE refused -> surfaces
                        [] rebinds /\ ~refused ->
                             [surfaces EXCEPT !.client = RebindBackend(@), !.backend = link]
                        [] ~rebinds -> NewSurfaces(link)
       /\ era' = IF rebinds THEN era ELSE era + 1
       /\ UNCHANGED <<workspace, jobs, services, started, misapplied>>

\* SelectRemoteSessionProvider: the client is replaced, if none of its work is in flight.
SelectProvider ==
    /\ surfaces.remote
    /\ surfaces.pending = None
    /\ ~surfaces.client.inFlight
    /\ runtime # None
    /\ era < MaxEras
    /\ surfaces' = NewSurfaces(runtime)
    /\ era' = era + 1
    /\ UNCHANGED <<workspace, jobs, connecting, runtime, links, services, started, misapplied>>

\* DisconnectRemote, with mark_remote_disconnected: what is in flight stays so.
DisconnectRemote ==
    /\ runtime # None \/ connecting
    /\ era < MaxEras
    /\ connecting' = FALSE
    /\ runtime' = None
    /\ links' = [l \in DOMAIN links \ {runtime} |-> links[l]]
    /\ surfaces' = IF surfaces.remote
                   THEN [surfaces EXCEPT !.client = MarkTransportLost(@)] ELSE surfaces
    /\ era' = IF surfaces.remote THEN era + 1 ELSE era
    /\ UNCHANGED <<workspace, jobs, services, started, misapplied>>

\* The helper sees the end of its input once nothing refers to the link.
LinkDropped(link) ==
    /\ link \in DOMAIN links
    /\ link \notin Referred
    /\ links' = [l \in DOMAIN links \ {link} |-> links[l]]
    /\ UNCHANGED <<app, jobs, services, started, era, misapplied>>

\* The SSH process dies.
LinkFails(link) ==
    /\ link \in DOMAIN links
    /\ links' = [l \in DOMAIN links \ {link} |-> links[l]]
    /\ UNCHANGED <<app, jobs, services, started, era, misapplied>>

-----------------------------------------------------------------------------
Runs ==
    \E job \in jobs :
      \/ RunConnect(job)
      \/ RunConnectRemote(job)
      \/ RunRequest(job)
      \/ RunRequestRemote(job)

Completes == \E job \in jobs : SessionsConnected(job) \/ SessionRequestFinished(job)

Next ==
    \/ ConnectSessions
    \/ ReconnectSessions
    \/ RefreshSessions
    \/ DetachSessions
    \/ Act
    \/ Change
    \/ PollSessions
    \/ \E pane \in Panes : Select(pane)
    \/ Runs
    \/ Completes
    \/ ConnectRemote
    \/ RemoteFailed
    \/ RemoteConnected
    \/ SelectProvider
    \/ DisconnectRemote
    \/ \E link \in 1..MaxLinks : LinkFails(link) \/ LinkDropped(link)
    \/ \E place \in Places : Disconnected(place) \/ ServiceEnds(place) \/ ServiceStarts(place)

Fairness ==
    /\ WF_vars(Completes)
    /\ WF_vars(Runs)
    /\ WF_vars(ReconnectSessions)
    /\ \A place \in Places : WF_vars(Disconnected(place))

Spec == Init /\ [][Next]_vars /\ Fairness

-----------------------------------------------------------------------------
TypeOK ==
    /\ surfaces.client.health \in Healths
    /\ surfaces.client.inFlight \in BOOLEAN
    /\ surfaces.remote = (surfaces.backend # None)
    /\ surfaces.selected \in Panes \cup {None}
    /\ surfaces.pending \in {None, "ordinary", "snapshot", "detach", "migration"}
    /\ DOMAIN surfaces.client.screens \subseteq Panes
    /\ surfaces.client.resync \in Seq(Panes)
    /\ runtime \in (1..MaxLinks) \cup {None}
    /\ DOMAIN links \subseteq 1..MaxLinks
    /\ started \in 0..MaxInstances
    /\ \A place \in Places : services[place].panes \subseteq Panes

\* What is marked as in flight is answered: there is a job whose completion takes the mark
\* away.  A mark nobody takes away refuses every later request and connection.
InFlightIsAnswered ==
    ~misapplied =>
      /\ surfaces.pending # None => \E job \in jobs : job.kind = "request"
      /\ surfaces.client.inFlight => jobs # {}

\* A client that is ready and waits for nothing holds the connection its next request
\* takes: no path of an answer drops it and leaves the client ready.
ReadyCanAsk ==
    ~misapplied /\ surfaces.client.health = "Ready" /\ ~surfaces.client.inFlight
      => surfaces.client.connection # None

\* The screens a client keeps over reconnections are those of panes the catalog it shows
\* has, and come from the service instance that catalog comes from: over restarts of the
\* services and reconnections, a pane that another service gives the same identity never shows
\* what the first one printed (client.rs, apply_snapshot; session.rs, sync_selection).  The
\* claim ends with the first completion of an earlier client that is applied to a later one:
\* what the client shows then is of whichever came last (StaleIsIgnored is violated).
ScreensAreOfCatalog ==
    LET client == surfaces.client IN
    ~misapplied => \A pane \in DOMAIN client.screens :
      /\ pane \in PanesOf(client.catalog)
      /\ client.screens[pane] = client.catalog.instance

\* docs/specs/0009-m5-remote-persistent-sessions.md:164: "Responses or events from an
\* older generation are ignored."  No completion of a client that was replaced or cut off
\* is applied to its successor.
StaleIsIgnored == ~misapplied

\* docs/specs/0007-m3-local-persistent-sessions.md:191: "Reconnection discovers either the
\* same service instance or a new stopped catalog."  With the local service up for good, no
\* other desktop, and a user who leaves it to the timer, a stale client recovers.
StaleRecovers ==
    <>[](services["local"].up /\ ~surfaces.remote) /\ <>[][~ConnectSessions]_vars
      => []<>(surfaces.client.health \in {"Ready", "Stopped", "Failed"})
=============================================================================
