--------------------------- MODULE SessionClient ---------------------------
(***************************************************************************)
(* SessionClient of crates/strukt-session/src/client.rs as a value: what   *)
(* each of its methods does to the client.  The desktop has one for the    *)
(* provider it shows, and the helper on a remote host has one for the      *)
(* service there (crates/strukt-remote/src/native_session.rs).             *)
(*                                                                         *)
(* A catalog is the instance it came from, its revision and its panes; a   *)
(* screen is represented by the instance it was taken from.  Cursors are   *)
(* left out, as the service ignores them, and so is the comparison of      *)
(* generations in apply_snapshot.                                          *)
(***************************************************************************)
EXTENDS Naturals, Sequences, FiniteSets, SequencesExt

CONSTANTS None

Healths == {"Stopped", "Connecting", "Ready", "Stale", "Failed"}

NoScreens == [p \in {} |-> 0]

NewClient ==
    [health |-> "Stopped", inFlight |-> FALSE, connection |-> None, instance |-> None,
     catalog |-> None, screens |-> NoScreens, resync |-> <<>>]

PanesOf(catalog) == IF catalog = None THEN {} ELSE catalog.panes
Revision(client) == IF client.catalog = None THEN 0 ELSE client.catalog.revision

Retain(screens, panes) == [p \in DOMAIN screens \cap panes |-> screens[p]]

\* A client that knows a catalog goes on showing it.
Unreached(client) == IF client.catalog = None THEN "Failed" ELSE "Stale"

MarkTransportLost(client) ==
    [client EXCEPT !.connection = None, !.inFlight = FALSE, !.health = Unreached(client)]

CanConnect(client) == ~client.inFlight
BeginConnect(client) == [client EXCEPT !.inFlight = TRUE, !.health = "Connecting"]

\* Faulty variant: the mark of the attempt stays.
ConnectFailedInFlight(client) == [client EXCEPT !.health = Unreached(client)]
\* An attempt that fails leaves the connection the client may still have.
ConnectFailed(client) == [client EXCEPT !.inFlight = FALSE, !.health = Unreached(client)]

\* Faulty variant: the screens of another instance stay.
ConnectedKeepingScreens(client, intent, connection, catalog) ==
    [client EXCEPT !.inFlight = FALSE, !.connection = connection, !.catalog = catalog,
                   !.instance = catalog.instance, !.health = "Ready",
                   !.screens = Retain(@, catalog.panes), !.resync = <<>>]
Connected(client, intent, connection, catalog) ==
    LET same == client.instance = catalog.instance
        kept == IF same THEN Retain(client.screens, catalog.panes) ELSE NoScreens
    IN [client EXCEPT !.inFlight = FALSE, !.connection = connection, !.catalog = catalog,
                      !.instance = catalog.instance, !.health = "Ready", !.screens = kept,
                      !.resync = IF intent = "reconnect" /\ same
                                 THEN SetToSeq(DOMAIN kept) ELSE <<>>]

\* begin_request, with the connection moved into the job.
CanRequest(client) == ~client.inFlight /\ client.health = "Ready" /\ client.connection # None
BeginRequest(client) == [client EXCEPT !.inFlight = TRUE, !.connection = None]

\* Faulty variant: the connection is put back only with a catalog.
FinishRequestDropping(client, connection, result, catalog) ==
    CASE result = "lost" -> MarkTransportLost(client)
      [] result = "catalog" ->
           [client EXCEPT !.inFlight = FALSE, !.connection = connection, !.catalog = catalog,
                          !.instance = catalog.instance,
                          !.screens = Retain(@, catalog.panes)]
      [] OTHER -> [client EXCEPT !.inFlight = FALSE]
\* finish_request, by what came back: "lost" for an error of the transport, "refused"
\* for one of the provider, "detached", "catalog" for an answer that carries one, "done".
FinishRequest(client, connection, result, catalog) ==
    CASE result = "lost" -> MarkTransportLost(client)
      [] result = "detached" ->
           [client EXCEPT !.inFlight = FALSE, !.connection = None, !.instance = None,
                          !.health = "Stopped"]
      [] result = "catalog" /\ catalog.instance # connection.instance ->
           MarkTransportLost(client)
      [] result = "catalog" /\ catalog.instance = connection.instance ->
           [client EXCEPT !.inFlight = FALSE, !.connection = connection, !.catalog = catalog,
                          !.instance = catalog.instance,
                          !.screens = Retain(@, catalog.panes)]
      [] OTHER -> [client EXCEPT !.inFlight = FALSE, !.connection = connection]

ApplySnapshot(client, pane, instance) ==
    [client EXCEPT !.screens = [p \in DOMAIN @ \cup {pane} |->
                                  IF p = pane THEN instance ELSE @[p]]]

\* rebind_backend, which is refused while something is in flight.
RebindBackend(client) ==
    [client EXCEPT !.connection = None,
                   !.health = IF client.catalog = None THEN "Stopped" ELSE "Stale"]
=============================================================================
