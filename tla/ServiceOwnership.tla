-------------------------- MODULE ServiceOwnership --------------------------
(***************************************************************************)
(* How the session service of an application directory is owned, published *)
(* and found: crates/strukt-session/src/rendezvous.rs, auth.rs and         *)
(* endpoint.rs, the start and the end of src/bin/strukt-sessiond.rs, and   *)
(* connect of LocalClientBackend (client.rs).                              *)
(*                                                                         *)
(* Service processes, clients and discoverers share the lock, the secret   *)
(* and the rendezvous record, files each replaced atomically.  The lock is *)
(* the operating system's and goes with its holder.  A secret is           *)
(* represented by the instance it was generated for, and a proof is        *)
(* accepted by the secret it was made with.                                *)
(***************************************************************************)
EXTENDS Naturals, SessionStore

CONSTANTS
    Services,    \* processes that run strukt-sessiond
    Clients,     \* desktops that connect
    None,
    MaxInstances, \* bound: services started
    MaxDamages   \* bound: times the catalog file is damaged

ASSUME OwnershipAssumption ==
    /\ MaxInstances \in Nat
    /\ MaxDamages \in Nat
    /\ None \notin Services

VARIABLES
    pc,        \* where a service process is
    instance,  \* its service instance
    lock,      \* the holder of session-service.lock
    secret,    \* service.secret
    record,    \* session-rendezvous.json: the instance it names
    client,    \* what a client has read and what it is connected to
    probe,     \* the instance a discoverer found not to answer
    started, damaged

process == <<pc, instance, lock>>
shared == <<secret, record>>
vars == <<process, shared, client, probe, started, damaged, files>>

Idle == [at |-> "idle", record |-> None, secret |-> None, peer |-> None]

Init ==
    /\ pc = [s \in Services |-> "off"]
    /\ instance = [s \in Services |-> None]
    /\ lock = None
    /\ secret = None
    /\ record = None
    /\ client = [c \in Clients |-> Idle]
    /\ probe = None
    /\ started = 0
    /\ damaged = 0
    /\ StoreInit

Goes(s, to) == pc' = [pc EXCEPT ![s] = to]

-----------------------------------------------------------------------------
(* A service process.                                                       *)

\* ServiceLock::acquire, without which the process ends at once.
Acquire(s) ==
    /\ pc[s] = "off"
    /\ started < MaxInstances
    /\ lock = None
    /\ lock' = s
    /\ Goes(s, "locked")
    /\ instance' = [instance EXCEPT ![s] = started + 1]
    /\ started' = started + 1
    /\ UNCHANGED <<shared, client, probe, damaged, files>>

\* ServiceSecret::generate_and_store.
StoreSecret(s) ==
    /\ pc[s] = "locked"
    /\ secret' = instance[s]
    /\ Goes(s, "secret")
    /\ UNCHANGED <<instance, lock, record, client, probe, started, damaged, files>>

\* AuthenticatedListener::bind: from here connections wait to be accepted.
Bind(s) ==
    /\ pc[s] = "secret"
    /\ Goes(s, "bound")
    /\ UNCHANGED <<instance, lock, shared, client, probe, started, damaged, files>>

\* Faulty variant: a record that is there is kept.
PublishOnce(s) ==
    /\ pc[s] = "bound"
    /\ record' = IF record = None THEN instance[s] ELSE record
    /\ Goes(s, "published")
    /\ UNCHANGED <<instance, lock, secret, client, probe, started, damaged, files>>

Publish(s) ==
    /\ pc[s] = "bound"
    /\ record' = instance[s]
    /\ Goes(s, "published")
    /\ UNCHANGED <<instance, lock, secret, client, probe, started, damaged, files>>

\* The process goes, and with it its lock, its listener and its connections.
Released(s) ==
    /\ lock' = None
    /\ instance' = [instance EXCEPT ![s] = None]
    /\ client' = [c \in Clients |->
                    IF client[c].peer = s THEN Idle ELSE client[c]]

\* A catalog that cannot be read ends the service, with its record left behind.
LoadCatalog(s) ==
    /\ pc[s] = "published"
    /\ \/ /\ Load # Damaged
          /\ Goes(s, "serving")
          /\ UNCHANGED <<instance, lock, client>>
       \/ /\ Load = Damaged
          /\ Goes(s, "off")
          /\ Released(s)
    /\ UNCHANGED <<shared, probe, started, damaged, files>>

\* persist_if_dirty, in the two writes of save.
BeginsSave(s) ==
    /\ pc[s] = "serving"
    /\ \/ SaveBackup
       \/ NothingToCopy /\ UNCHANGED files
    /\ Goes(s, "saving")
    /\ UNCHANGED <<instance, lock, shared, client, probe, started, damaged>>

\* The record is written, or the save fails, which leaves the loop.
FinishesSave(s) ==
    /\ pc[s] = "saving"
    /\ \/ \E r \in Records : SaveCurrent(r) /\ Goes(s, "serving")
       \/ UNCHANGED files /\ Goes(s, "ending")
    /\ UNCHANGED <<instance, lock, shared, client, probe, started, damaged>>

\* The loop ends: an idle service, or a request to end it.
EndsLoop(s) ==
    /\ pc[s] = "serving"
    /\ Goes(s, "ending")
    /\ UNCHANGED <<instance, lock, shared, client, probe, started, damaged, files>>

\* Faulty variant: the lock is given up before the record is removed.
ChecksOwnerUnlocked(s) ==
    /\ pc[s] = "ending"
    /\ lock' = None
    /\ Goes(s, IF record = instance[s] THEN "clearing" ELSE "exiting")
    /\ UNCHANGED <<instance, shared, client, probe, started, damaged, files>>

\* clear_if_owner reads the record and then removes the file.
ChecksOwner(s) ==
    /\ pc[s] = "ending"
    /\ Goes(s, IF record = instance[s] THEN "clearing" ELSE "exiting")
    /\ UNCHANGED <<instance, lock, shared, client, probe, started, damaged, files>>

Clears(s) ==
    /\ pc[s] = "clearing"
    /\ record' = None
    /\ Goes(s, "exiting")
    /\ UNCHANGED <<instance, lock, secret, client, probe, started, damaged, files>>

Exits(s) ==
    /\ pc[s] = "exiting"
    /\ Goes(s, "off")
    /\ Released(s)
    /\ UNCHANGED <<shared, probe, started, damaged, files>>

Crashes(s) ==
    /\ pc[s] # "off"
    /\ Goes(s, "off")
    /\ Released(s)
    /\ UNCHANGED <<shared, probe, started, damaged, files>>

-----------------------------------------------------------------------------
(* A client, LocalClientBackend::connect: the record, the secret, the       *)
(* handshake.                                                               *)

ReadsRecord(c) ==
    /\ client[c].at = "idle"
    /\ record # None
    /\ client' = [client EXCEPT ![c] = [Idle EXCEPT !.at = "record", !.record = record]]
    /\ UNCHANGED <<process, shared, probe, started, damaged, files>>

ReadsSecret(c) ==
    /\ client[c].at = "record"
    /\ client' = [client EXCEPT ![c].at = "secret", ![c].secret = secret]
    /\ UNCHANGED <<process, shared, probe, started, damaged, files>>

\* The endpoint has the instance in its name.  The listener accepts a proof made with its
\* own secret for its own instance; it reads the handshake only once the loop runs, for
\* which the client waits, and goes on doing so until the process is gone.
Listening(s) == pc[s] \in {"serving", "saving", "ending", "clearing", "exiting"}

Waiting(s) == pc[s] \in {"bound", "published"}
Accepts(s, r, proof) == Listening(s) /\ instance[s] = r /\ proof = instance[s]

Handshakes(c) ==
    /\ client[c].at = "secret"
    /\ \/ \E s \in Services :
            /\ Accepts(s, client[c].record, client[c].secret)
            /\ client' = [client EXCEPT ![c].at = "connected", ![c].peer = s]
       \/ /\ \A s \in Services :
               /\ ~Accepts(s, client[c].record, client[c].secret)
               /\ ~(Waiting(s) /\ instance[s] = client[c].record)
          /\ client' = [client EXCEPT ![c] = Idle]
    /\ UNCHANGED <<process, shared, probe, started, damaged, files>>

-----------------------------------------------------------------------------
(* discover: a record whose service does not answer is removed under the    *)
(* lock, unless another was published since.                                *)

Probes ==
    /\ probe = None
    /\ record # None
    /\ \A s \in Services : ~(Listening(s) /\ instance[s] = record)
    /\ probe' = record
    /\ UNCHANGED <<process, shared, client, started, damaged, files>>

RemovesStale ==
    /\ probe # None
    /\ probe' = None
    /\ record' = IF lock = None /\ record = probe THEN None ELSE record
    /\ UNCHANGED <<process, secret, client, started, damaged, files>>

DamagesCatalog ==
    /\ damaged < MaxDamages
    /\ damaged' = damaged + 1
    /\ current \in Records
    /\ Damage
    /\ UNCHANGED <<process, shared, client, probe, started>>

-----------------------------------------------------------------------------
ServiceSteps(s) ==
    \/ Acquire(s)
    \/ StoreSecret(s)
    \/ Bind(s)
    \/ Publish(s)
    \/ LoadCatalog(s)
    \/ BeginsSave(s)
    \/ FinishesSave(s)
    \/ EndsLoop(s)
    \/ ChecksOwner(s)
    \/ Clears(s)
    \/ Exits(s)
    \/ Crashes(s)

ClientSteps(c) == ReadsRecord(c) \/ ReadsSecret(c) \/ Handshakes(c)

Next ==
    \/ \E s \in Services : ServiceSteps(s)
    \/ \E c \in Clients : ClientSteps(c)
    \/ Probes
    \/ RemovesStale
    \/ DamagesCatalog

\* A client retries on a timer.
Spec == Init /\ [][Next]_vars /\ \A c \in Clients : WF_vars(ClientSteps(c))

-----------------------------------------------------------------------------
TypeOK ==
    /\ pc \in [Services -> {"off", "locked", "secret", "bound", "published", "serving",
                            "saving", "ending", "clearing", "exiting"}]
    /\ instance \in [Services -> 1..MaxInstances \cup {None}]
    /\ lock \in Services \cup {None}
    /\ secret \in 1..MaxInstances \cup {None}
    /\ record \in 1..MaxInstances \cup {None}
    /\ probe \in 1..MaxInstances \cup {None}
    /\ \A c \in Clients : client[c].peer \in Services \cup {None}
    /\ current \in Records \cup {Absent, Damaged}
    /\ backup \in Records \cup {Absent}

\* A service that serves can be found: the record names it and the secret on disk is its
\* own, whatever a service that ends, one that starts or a discoverer does meanwhile.
ServingIsReachable ==
    \A s \in Services :
      pc[s] \in {"serving", "saving"} => record = instance[s] /\ secret = instance[s]

\* A client that retries reaches the service once one serves for good.
ClientArrives ==
    \A c \in Clients :
      (\E s \in Services : <>[](pc[s] \in {"serving", "saving"}))
        => <>[](client[c].at = "connected")
=============================================================================
