----------------------------- MODULE MCServices -----------------------------
(***************************************************************************)
(* The parts of the system that run apart from the desktop: the ownership  *)
(* of the session service with its store, and the helper of a remote host. *)
(* They share no state, so what holds of each alone holds of them          *)
(* together: the first state chooses the part that acts.                   *)
(***************************************************************************)
EXTENDS ServiceOwnership

CONSTANTS
    Nothing, Ids, MaxRequests, MaxInFlight

VARIABLES
    part,
    sent, hungUp, input, phase, inputClosed, active, cancellable, cancelled, workers,
    completions, responses

Helper == INSTANCE RemoteHelper

helperPart ==
    <<sent, hungUp, input, phase, inputClosed, active, cancellable, cancelled, workers,
      completions, responses>>

MCInit ==
    /\ part \in {"ownership", "helper"}
    /\ Init
    /\ Helper!HelperInit

OwnershipActs == part = "ownership" /\ Next /\ UNCHANGED <<part, helperPart>>
HelperActs == part = "helper" /\ Helper!HelperNext /\ UNCHANGED <<part, vars>>

MCNext == OwnershipActs \/ HelperActs

\* The fairness of the parts, each for the behaviours in which it acts.
MCSpec ==
    /\ MCInit
    /\ [][MCNext]_<<part, vars, helperPart>>
    /\ \A c \in Clients : WF_vars(part = "ownership" /\ ClientSteps(c))
    /\ WF_helperPart(part = "helper" /\ Helper!Loop)
    /\ \A r \in Helper!Requests : WF_helperPart(part = "helper" /\ Helper!Work(r))

\* The helper's state is well typed and every request is answered at most once
\* (the response writer and the workers of the helper).
AnsweredOnce == Helper!HelperTypeOK /\ Helper!AnsweredOnce

\* After its input ended the helper drains what it has begun and returns.
HelperEnds == Helper!HelperEnds
=============================================================================
