----------------------------- MODULE MCDesktop -----------------------------
(***************************************************************************)
(* The work of the user that the desktop keeps: the documents of the       *)
(* editor with their recovery records, and the sessions of a service that  *)
(* is reached through a client. They share no state: the first state       *)
(* chooses the part that acts.                                             *)
(***************************************************************************)
EXTENDS EditorDocuments

CONSTANTS
    Panes, MaxCatalogRevision, MaxInstances, MaxLinks, MaxClientJobs, MaxEras

VARIABLES
    part,
    surfaces, workspace, clientJobs, connecting, runtime, links, services, started, era, misapplied

ASSUME SessionsAssumption ==
    /\ IsFiniteSet(Panes)
    /\ {MaxCatalogRevision, MaxInstances, MaxLinks, MaxClientJobs, MaxEras} \subseteq Nat

Sessions == INSTANCE DesktopSessions
              WITH jobs <- clientJobs, MaxRevision <- MaxCatalogRevision, MaxJobs <- MaxClientJobs

sessionsPart ==
    <<surfaces, workspace, clientJobs, connecting, runtime, links, services, started, era,
      misapplied>>

MCInit ==
    /\ part \in {"editor", "sessions"}
    /\ Init /\ (part # "editor" => file = Empty)
    /\ tab # None => file = Missing /\ tab = Cut /\ jobs = {OpenJob(FALSE, TRUE)}
    /\ part # "editor" => tab = None
    /\ Sessions!Init /\ (part # "sessions" => ~workspace.terminal)

EditorActs == part = "editor" /\ Next /\ UNCHANGED <<part, sessionsPart>>
SessionsAct == part = "sessions" /\ Sessions!Next /\ UNCHANGED <<part, vars>>

MCNext == EditorActs \/ SessionsAct

MCSpec == MCInit /\ [][MCNext]_<<part, vars, sessionsPart>>

\* The run does not go on from a state that a misapplied completion made: a connection that
\* is asked for while another one is ready can take its place, with what was in flight.
NotMisapplied == ~misapplied

\* Every part is well typed.
TypesOK == TypeOK /\ Sessions!TypeOK

\* While the surface waits for an answer there is a job that will bring it, and a surface that
\* says it is ready has a connection to ask: no lost, late or refused answer, no failed
\* connection and no disconnected host leaves the user without either (session.rs, client.rs).
SessionsCanAsk == part = "sessions" => Sessions!InFlightIsAnswered /\ Sessions!ReadyCanAsk

\* The screens are of panes of the catalog that is shown and of the instance it comes from,
\* whatever services restarted and connections were lost, until a completion of an earlier
\* client is applied to a later one, which neither client.rs nor session.rs refuses.
ScreensAreOfCatalog == part = "sessions" => Sessions!ScreensAreOfCatalog
=============================================================================
