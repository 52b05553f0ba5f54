------------------------- MODULE MCServices_proofs -------------------------
(***************************************************************************)
(* Proofs about the parts that run apart from the desktop. For any         *)
(* services, clients and records, a service that serves can be found, and  *)
(* a save is atomic for every reader of the store. For any identifiers,    *)
(* any number of requests and any limit on what is in flight, a helper     *)
(* answers every request at most once.                                     *)
(***************************************************************************)
EXTENDS MCServices, Integers, Sequences, FiniteSetTheorems, TLAPS

-----------------------------------------------------------------------------
(* The ownership of the service, and its store.                             *)

\* The types the argument needs.
Typed ==
    /\ pc \in [Services -> {"off", "locked", "secret", "bound", "published", "serving",
                            "saving", "ending", "clearing", "exiting"}]
    /\ instance \in [Services -> Nat \cup {None}]
    /\ started \in Nat

\* A process that has gone beyond the lock holds it.
LockIsHeld == \A s \in Services : pc[s] # "off" => lock = s

\* From the step that writes it until the end of its loop, the secret is the service's own,
\* and so is the record.
SecretIsOwn ==
    \A s \in Services :
        pc[s] \in {"secret", "bound", "published", "serving", "saving"} =>
            secret = instance[s]
RecordIsOwn ==
    \A s \in Services : pc[s] \in {"published", "serving", "saving"} => record = instance[s]

\* Between its two writes a save has copied what could be read, unless that was damaged since.
CopyIsMade ==
    \A s \in Services : pc[s] = "saving" /\ current \in Records => backup = current

Ownership == Typed /\ LockIsHeld /\ SecretIsOwn /\ RecordIsOwn /\ CopyIsMade

-----------------------------------------------------------------------------
\* Nobody runs yet and nothing is on disk.
LEMMA InitOwned == Init => Ownership
  BY OwnershipAssumption, StoreAssumption
  DEF Init, StoreInit, Ownership, Typed, LockIsHeld, SecretIsOwn, RecordIsOwn, CopyIsMade

\* Who goes beyond the lock is alone there.
LEMMA AloneBeyondLock ==
    ASSUME Ownership, NEW s \in Services, pc[s] # "off"
    PROVE  \A t \in Services \ {s} : pc[t] = "off"
  BY DEF Ownership, LockIsHeld

\* A process takes the lock, writes the secret, binds and publishes.
LEMMA StartKeeps ==
    ASSUME Ownership, NEW s \in Services,
           Acquire(s) \/ StoreSecret(s) \/ Bind(s) \/ Publish(s)
    PROVE  Ownership'
  <1> USE DEF Ownership, Typed, LockIsHeld, SecretIsOwn, RecordIsOwn, CopyIsMade, Goes, shared,
              files
  <1>1. CASE Acquire(s)
    BY <1>1, OwnershipAssumption DEF Acquire
  <1>2. CASE StoreSecret(s)
    BY <1>2, AloneBeyondLock DEF StoreSecret
  <1>3. CASE Bind(s)
    BY <1>3, AloneBeyondLock DEF Bind
  <1>4. CASE Publish(s)
    BY <1>4, AloneBeyondLock DEF Publish
  <1> QED
    BY <1>1, <1>2, <1>3, <1>4

\* A process serves, saves and ends its loop.
LEMMA ServingKeeps ==
    ASSUME Ownership, NEW s \in Services,
           LoadCatalog(s) \/ BeginsSave(s) \/ FinishesSave(s) \/ EndsLoop(s)
    PROVE  Ownership'
  <1> USE DEF Ownership, Typed, LockIsHeld, SecretIsOwn, RecordIsOwn, CopyIsMade, Goes, shared,
              files
  <1>1. CASE LoadCatalog(s)
    BY <1>1, AloneBeyondLock DEF LoadCatalog, Released
  <1>2. CASE BeginsSave(s)
    BY <1>2, AloneBeyondLock DEF BeginsSave, SaveBackup, NothingToCopy
  <1>3. CASE FinishesSave(s)
    BY <1>3, AloneBeyondLock DEF FinishesSave, SaveCurrent
  <1>4. CASE EndsLoop(s)
    BY <1>4, AloneBeyondLock DEF EndsLoop
  <1> QED
    BY <1>1, <1>2, <1>3, <1>4

\* A process removes its record and goes, or is killed.
LEMMA EndKeeps ==
    ASSUME Ownership, NEW s \in Services,
           ChecksOwner(s) \/ Clears(s) \/ Exits(s) \/ Crashes(s)
    PROVE  Ownership'
  <1> USE DEF Ownership, Typed, LockIsHeld, SecretIsOwn, RecordIsOwn, CopyIsMade, Goes, shared,
              files
  <1>1. CASE ChecksOwner(s)
    BY <1>1, AloneBeyondLock DEF ChecksOwner
  <1>2. CASE Clears(s)
    BY <1>2, AloneBeyondLock DEF Clears
  <1>3. CASE Exits(s)
    BY <1>3, AloneBeyondLock DEF Exits, Released
  <1>4. CASE Crashes(s)
    BY <1>4, AloneBeyondLock DEF Crashes, Released
  <1> QED
    BY <1>1, <1>2, <1>3, <1>4

\* Clients only read; a discoverer removes a record only while nobody holds the lock.
LEMMA OthersKeep ==
    ASSUME Ownership,
           (\E c \in Clients : ClientSteps(c)) \/ Probes \/ RemovesStale \/ DamagesCatalog
    PROVE  Ownership'
  <1> USE DEF Ownership, Typed, LockIsHeld, SecretIsOwn, RecordIsOwn, CopyIsMade, process,
              shared, files
  <1>1. CASE \E c \in Clients : ClientSteps(c)
    BY <1>1 DEF ClientSteps, ReadsRecord, ReadsSecret, Handshakes
  <1>2. CASE Probes
    BY <1>2 DEF Probes
  <1>3. CASE RemovesStale
    BY <1>3, OwnershipAssumption DEF RemovesStale
  <1>4. CASE DamagesCatalog
    BY <1>4, StoreAssumption DEF DamagesCatalog, Damage
  <1> QED
    BY <1>1, <1>2, <1>3, <1>4

\* Every step keeps the invariant.
LEMMA NextKeeps ==
    ASSUME Ownership, [Next]_vars
    PROVE  Ownership'
  <1>1. CASE Next
    BY <1>1, StartKeeps, ServingKeeps, EndKeeps, OthersKeep DEF Next, ServiceSteps
  <1>2. CASE UNCHANGED vars
    BY <1>2 DEF vars, process, shared, files, Ownership, Typed, LockIsHeld, SecretIsOwn,
                RecordIsOwn, CopyIsMade
  <1> QED
    BY <1>1, <1>2

\* The lock, the secret, the record and the copy belong to the one process beyond the lock
\* (rendezvous.rs, auth.rs, store.rs).
THEOREM OwnershipHolds == Spec => []Ownership
  BY InitOwned, NextKeeps, PTL DEF Spec

\* A service that serves can be found, for any number of services, starts and crashes
\* (rendezvous.rs: publish, clear_if_owner, discover).
THEOREM ServingServiceIsReachable == Spec => []ServingIsReachable
  <1>1. Ownership => ServingIsReachable
    BY DEF Ownership, SecretIsOwn, RecordIsOwn, ServingIsReachable
  <1> QED
    BY <1>1, OwnershipHolds, PTL

-----------------------------------------------------------------------------
\* What a reader finds: the file, or the copy, or no record.
LEMMA LoadFinds ==
    /\ current \in Records => Load = current
    /\ current \notin Records /\ backup \in Records => Load = backup
    /\ current \notin Records /\ backup \notin Records => Load \notin Records
  BY StoreAssumption DEF Load

\* An empty store is an atomic record that was never saved.
LEMMA InitRefines == Init => Record!Init
  BY StoreAssumption DEF Init, StoreInit, Record!Init, Load

\* Each write of a save, and damage from outside, is a step of the atomic record.
LEMMA SaveRefines ==
    ASSUME Ownership, NEW s \in Services, BeginsSave(s) \/ FinishesSave(s)
    PROVE  [Record!Next]_<<Load, IF backup \in Records THEN backup ELSE Damaged>>
  <1>1. CASE SaveBackup
    <2>1. Record!Settle
      BY <1>1 DEF SaveBackup, Record!Settle, Load
    <2> QED
      BY <2>1 DEF Record!Next
  <1>2. CASE UNCHANGED files
    BY <1>2 DEF files, Load
  <1>3. ASSUME NEW r \in Records, SaveCurrent(r), pc[s] = "saving"
        PROVE  Record!Save(r)
    <2>1. Load' = r /\ backup' = backup
      BY <1>3 DEF SaveCurrent, Load
    <2>2. Load \in Records => backup = Load
      BY <1>3, LoadFinds DEF Ownership, CopyIsMade
    <2> QED
      BY <2>1, <2>2 DEF Record!Save
  <1> QED
    BY <1>1, <1>2, <1>3 DEF BeginsSave, FinishesSave, Record!Next

\* A damaged file is a damaged record: the reader falls back to the copy.
LEMMA DamageRefines ==
    ASSUME DamagesCatalog
    PROVE  Record!Damage
  BY StoreAssumption DEF DamagesCatalog, Damage, Record!Damage, Load

\* No other step touches a file of the store.
LEMMA NextRefines ==
    ASSUME Ownership, [Next]_vars
    PROVE  [Record!Next]_<<Load, IF backup \in Records THEN backup ELSE Damaged>>
  <1>1. CASE UNCHANGED files
    BY <1>1 DEF files, Load
  <1>2. CASE \E s \in Services : BeginsSave(s) \/ FinishesSave(s)
    BY <1>2, SaveRefines
  <1>3. CASE DamagesCatalog
    BY <1>3, DamageRefines DEF Record!Next
  <1>4. (\E s \in Services : BeginsSave(s) \/ FinishesSave(s)) \/ DamagesCatalog
            \/ UNCHANGED files
    BY DEF Next, vars, ServiceSteps, Acquire, StoreSecret, Bind, Publish, LoadCatalog, EndsLoop,
           ChecksOwner, Clears, Exits, Crashes, ClientSteps, ReadsRecord, ReadsSecret,
           Handshakes, Probes, RemovesStale, files
  <1> QED
    BY <1>1, <1>2, <1>3, <1>4

\* The two files implement one atomic record: whatever interrupts a save, a reader finds the
\* last record saved whole, and the one before it once the file is damaged (store.rs).
THEOREM StoreIsAtomic == Spec => SavesAreAtomic
  BY InitRefines, NextRefines, OwnershipHolds, PTL DEF Spec, SavesAreAtomic, Record!Spec

-----------------------------------------------------------------------------
(* The helper.                                                              *)

\* ProtocolLimits are numbers, and so is what a client asks.
LimitsAreNumbers == MaxRequests \in Nat /\ MaxInFlight \in Nat

-----------------------------------------------------------------------------
(* The inductive invariant.                                                 *)

Ends == [end : {"Closed", "Failed"}]
Answers == [place : 1..MaxRequests, id : Ids, body : {"Answer", "Cancelled"}]
Responses ==
    [place : 1..MaxRequests,
     body : {"Answer", "Cancelled", "NotFound", "Acknowledged", "CapacityReached", "Duplicate"}]

HelperTypes ==
    /\ sent \in 0..MaxRequests
    /\ input \in Seq(Helper!Requests \cup Ends)
    /\ phase \in {"drain", "input", "done", "failed"}
    /\ cancellable \subseteq Helper!Requests
    /\ workers \subseteq cancellable
    /\ completions \in Seq(Answers)
    /\ responses \in Seq(Responses)
    /\ Len(completions) <= MaxInFlight
    /\ IsFiniteSet(cancellable)
    /\ active = Cardinality(cancellable)
    /\ active <= MaxInFlight

\* Requests wait in the order in which they were sent.
InputInv ==
    /\ \A i \in 1..Len(input) : input[i] \in Helper!Requests => input[i].place <= sent
    /\ \A i, j \in 1..Len(input) :
         i < j /\ input[i] \in Helper!Requests /\ input[j] \in Helper!Requests =>
           input[i].place < input[j].place

\* A request the loop has taken comes before all that wait.
Taken(place) ==
    /\ place <= sent
    /\ \A i \in 1..Len(input) : input[i] \in Helper!Requests => place < input[i].place
TakenInv ==
    /\ \A i \in 1..Len(responses) : Taken(responses[i].place)
    /\ \A r \in cancellable : Taken(r.place)

\* A request that was answered has no token, and one that is finished no worker.
OnceInv ==
    /\ \A i, j \in 1..Len(responses) : responses[i].place = responses[j].place => i = j
    /\ \A i, j \in 1..Len(completions) : completions[i].place = completions[j].place => i = j
    /\ \A i \in 1..Len(responses) : \A r \in cancellable : responses[i].place # r.place
    /\ \A i \in 1..Len(completions) : \A r \in workers : completions[i].place # r.place

\* A token is of one request, whose worker is under way or whose answer waits.
TokenInv ==
    /\ \A r, s \in cancellable : r.place = s.place \/ r.id = s.id => r = s
    /\ \A i \in 1..Len(completions) :
         \E r \in cancellable : completions[i].place = r.place /\ completions[i].id = r.id
    /\ \A r \in cancellable :
         r \in workers \/ \E i \in 1..Len(completions) : completions[i].place = r.place

HelperInv == HelperTypes /\ InputInv /\ TakenInv /\ OnceInv /\ TokenInv

-----------------------------------------------------------------------------
(* What waits, and what is answered.                                        *)

\* What is taken from the front is ahead of the rest, and new to the loop.
LEMMA FrontIsNew ==
    ASSUME HelperInv, NEW r, Helper!TakesRequest(r)
    PROVE  /\ r \in Helper!Requests /\ r.place \in 1..MaxRequests
           /\ input' \in Seq(Helper!Requests \cup Ends)
           /\ InputInv'
           /\ Taken(r.place)'
           /\ \A place : Taken(place) => Taken(place)' /\ place # r.place
  <1>1. /\ input \in Seq(Helper!Requests \cup Ends) /\ input # <<>>
        /\ r = input[1] /\ r \in Helper!Requests
        /\ input' = Tail(input) /\ sent' = sent
    BY DEF HelperInv, HelperTypes, Helper!TakesRequest
  <1>2. /\ Tail(input) \in Seq(Helper!Requests \cup Ends) /\ Len(Tail(input)) = Len(input) - 1
        /\ \A i \in 1..Len(Tail(input)) : Tail(input)[i] = input[i + 1] /\ i + 1 \in 1..Len(input)
        /\ 1 \in 1..Len(input)
    BY <1>1
  <1>3. r.place \in 1..MaxRequests /\ r.place <= sent
    BY <1>1, <1>2 DEF HelperInv, InputInv, Helper!Requests
  <1>4. InputInv'
    BY <1>1, <1>2 DEF HelperInv, InputInv
  <1>5. Taken(r.place)'
    BY <1>1, <1>2, <1>3 DEF HelperInv, InputInv, Taken
  <1>6. ASSUME NEW place, Taken(place)
        PROVE  Taken(place)' /\ place # r.place
    <2>1. Taken(place)'
      BY <1>1, <1>2, <1>6 DEF Taken
    <2>2. place < r.place
      BY <1>1, <1>2, <1>6 DEF Taken
    <2> QED
      BY <2>1, <2>2, <1>3
  <1> QED
    BY <1>1, <1>2, <1>3, <1>4, <1>5, <1>6

\* An answer that is written, or not, to a request that is not known any more: the loop goes on
\* or ends.
LEMMA AnswerKeeps ==
    ASSUME HelperInv, NEW place \in 1..MaxRequests, NEW body, [place |-> place, body |-> body] \in Responses,
           Helper!Respond(place, body),
           \A old : Taken(old) => Taken(old)',
           Taken(place)',
           \A i \in 1..Len(responses) : responses[i].place # place,
           \A r \in cancellable' : r \in cancellable /\ r.place # place
    PROVE  /\ phase' \in {"drain", "failed"}
           /\ responses' \in Seq(Responses)
           /\ TakenInv'
           /\ \A i, j \in 1..Len(responses') :
                responses'[i].place = responses'[j].place => i = j
           /\ \A i \in 1..Len(responses') : \A r \in cancellable' :
                responses'[i].place # r.place
  <1> DEFINE new == [place |-> place, body |-> body]
  <1>1. responses \in Seq(Responses)
    BY DEF HelperInv, HelperTypes
  <1>2. CASE responses' = Append(responses, new) /\ phase' = "drain"
    <2>1. /\ responses' \in Seq(Responses)
          /\ Len(responses') = Len(responses) + 1
          /\ \A i \in 1..Len(responses) : responses'[i] = responses[i]
          /\ responses'[Len(responses) + 1].place = place
          /\ Len(responses) \in Nat
      BY <1>1, <1>2
    <2>2. \A i \in 1..Len(responses') : i \in 1..Len(responses) \/ i = Len(responses) + 1
      BY <2>1
    <2>3. TakenInv'
      BY <2>1, <2>2 DEF TakenInv, HelperInv
    <2>4. \A i, j \in 1..Len(responses') : responses'[i].place = responses'[j].place => i = j
      BY <2>1, <2>2 DEF OnceInv, HelperInv
    <2>5. \A i \in 1..Len(responses') : \A r \in cancellable' : responses'[i].place # r.place
      BY <2>1, <2>2 DEF OnceInv, HelperInv
    <2> QED
      BY <1>2, <2>1, <2>3, <2>4, <2>5
  <1>3. CASE phase' = "failed" /\ responses' = responses
    BY <1>1, <1>3 DEF TakenInv, OnceInv, HelperInv
  <1> QED
    BY <1>2, <1>3 DEF Helper!Respond

-----------------------------------------------------------------------------
(* One lemma for each step.                                                 *)

\* A request that is sent comes after all that were, and the end of the stream after it.
LEMMA ReadKeeps == ASSUME HelperInv, LimitsAreNumbers, Helper!ReadRequest PROVE HelperInv'
  <1>1. input \in Seq(Helper!Requests \cup Ends) /\ sent \in Nat
    BY DEF HelperInv, HelperTypes
  <1>2. PICK item \in Helper!Requests \cup Ends :
          /\ input' = Append(input, item)
          /\ \/ item \in Helper!Requests /\ item.place = sent + 1 /\ sent' = sent + 1 /\ sent < MaxRequests
             \/ item \notin Helper!Requests /\ sent' = sent
    <2>1. CASE \E r \in Helper!Requests : /\ r.place = sent + 1 /\ input' = Append(input, r)
                                          /\ sent' = sent + 1 /\ sent < MaxRequests
      BY <2>1
    <2>2. CASE \E end \in {"Closed", "Failed"} :
                  input' = Append(input, [end |-> end]) /\ sent' = sent
      <3>1. PICK end \in {"Closed", "Failed"} :
                  input' = Append(input, [end |-> end]) /\ sent' = sent
        BY <2>2
      <3>2. [end |-> end] \in Ends /\ [end |-> end] \notin Helper!Requests
        BY DEF Ends, Helper!Requests
      <3> QED
        BY <3>1, <3>2
    <2> QED
      BY <2>1, <2>2 DEF Helper!ReadRequest
  <1>3. /\ input' \in Seq(Helper!Requests \cup Ends)
        /\ Len(input') = Len(input) + 1
        /\ Len(input) \in Nat
        /\ \A i \in 1..Len(input) : input'[i] = input[i]
        /\ input'[Len(input) + 1] = item
        /\ \A i \in 1..Len(input') : i \in 1..Len(input) \/ i = Len(input) + 1
    BY <1>1, <1>2
  <1>4. sent' \in 0..MaxRequests /\ sent <= sent'
    BY <1>1, <1>2 DEF LimitsAreNumbers, HelperInv, HelperTypes
  <1>5. \A r \in Helper!Requests : r.place \in Nat
    BY DEF Helper!Requests, LimitsAreNumbers
  <1>6. UNCHANGED <<phase, inputClosed, active, cancellable, cancelled, workers, completions,
                    responses>>
    BY DEF Helper!ReadRequest
  <1>7. HelperTypes'
    BY <1>3, <1>4, <1>6 DEF HelperInv, HelperTypes
  <1>8. InputInv'
    BY <1>1, <1>2, <1>3, <1>4, <1>5 DEF HelperInv, InputInv
  <1>9. ASSUME NEW place \in Nat, Taken(place) PROVE Taken(place)'
    BY <1>1, <1>2, <1>3, <1>4, <1>9 DEF Taken
  <1>10. \A i \in 1..Len(responses) : responses[i].place \in Nat
    <2>1. responses \in Seq(Responses) /\ \A n \in 1..MaxRequests : n \in Nat
      BY DEF HelperInv, HelperTypes, LimitsAreNumbers
    <2>2. \A i \in 1..Len(responses) : responses[i] \in Responses
      BY <2>1
    <2> QED
      BY <2>1, <2>2 DEF Responses
  <1>11. TakenInv'
    BY <1>5, <1>6, <1>9, <1>10 DEF HelperInv, HelperTypes, TakenInv
  <1> QED
    BY <1>6, <1>7, <1>8, <1>11 DEF HelperInv, OnceInv, TokenInv

\* The answer to a worker goes out, and its token with it.
LEMMA CompletionKeeps ==
    ASSUME HelperInv, LimitsAreNumbers, Helper!TakeCompletion PROVE HelperInv'
  <1>0. PICK done \in Answers : done = completions[1]
    <2>1. completions \in Seq(Answers) /\ completions # <<>>
      BY DEF HelperInv, HelperTypes, Helper!TakeCompletion
    <2> QED
      BY <2>1
  <1>1. /\ completions \in Seq(Answers) /\ completions # <<>>
        /\ completions' = Tail(completions)
        /\ Helper!Respond(done.place, done.body)
        /\ cancellable' = {c \in cancellable : c.id # done.id}
        /\ active' = active - 1
        /\ UNCHANGED <<sent, input, workers>>
    BY <1>0 DEF HelperInv, HelperTypes, Helper!TakeCompletion
  <1>2. /\ completions' \in Seq(Answers) /\ Len(completions') = Len(completions) - 1
        /\ \A i \in 1..Len(completions') :
             completions'[i] = completions[i + 1] /\ i + 1 \in 1..Len(completions) /\ i + 1 # 1
        /\ 1 \in 1..Len(completions) /\ done = completions[1]
        /\ Len(completions) \in Nat
        /\ \A i \in 1..Len(completions) : i # 1 => i - 1 \in 1..Len(completions')
        /\ \A i \in 1..Len(completions) : i # 1 => completions'[i - 1] = completions[i]
    BY <1>0, <1>1
  <1>3. PICK token \in cancellable : done.place = token.place /\ done.id = token.id
    BY <1>2 DEF HelperInv, TokenInv
  <1>4. /\ token \notin workers
        /\ \A c \in cancellable : c.id = done.id \/ c.place = done.place <=> c = token
    <2>1. token \notin workers
      BY <1>2, <1>3 DEF HelperInv, OnceInv
    <2>2. \A c \in cancellable : c.id = token.id \/ c.place = token.place => c = token
      BY DEF HelperInv, TokenInv
    <2> QED
      BY <2>1, <2>2, <1>3
  <1>5. cancellable' = cancellable \ {token}
    BY <1>1, <1>4, <1>3
  <1>6. /\ IsFiniteSet(cancellable') /\ active' = Cardinality(cancellable')
        /\ active' <= MaxInFlight
    <2>1. IsFiniteSet(cancellable) /\ active = Cardinality(cancellable) /\ active <= MaxInFlight
      BY DEF HelperInv, HelperTypes
    <2>2. IsFiniteSet(cancellable') /\ Cardinality(cancellable') = Cardinality(cancellable) - 1
      BY <1>3, <1>5, <2>1, FS_RemoveElement
    <2>3. Cardinality(cancellable) \in Nat
      BY <2>1, FS_CardinalityType
    <2> QED
      BY <1>1, <2>1, <2>2, <2>3 DEF LimitsAreNumbers
  <1>7. /\ phase' \in {"drain", "failed"}
        /\ responses' \in Seq(Responses)
        /\ TakenInv'
        /\ \A i, j \in 1..Len(responses') : responses'[i].place = responses'[j].place => i = j
        /\ \A i \in 1..Len(responses') : \A c \in cancellable' :
             responses'[i].place # c.place
    <2>1. done.place \in 1..MaxRequests
      BY DEF Answers
    <2>2. [place |-> done.place, body |-> done.body] \in Responses
      BY DEF Answers, Responses
    <2>3. \A old : Taken(old) => Taken(old)'
      BY <1>1 DEF Taken
    <2>4. Taken(done.place)
      BY <1>3 DEF HelperInv, TakenInv
    <2>5. \A i \in 1..Len(responses) : responses[i].place # done.place
      BY <1>3 DEF HelperInv, OnceInv
    <2>6. \A c \in cancellable' : c \in cancellable /\ c.place # done.place
      BY <1>4, <1>5
    <2>7. Taken(done.place)'
      BY <1>1, <2>4 DEF Taken
    <2> QED
      BY <1>1, <2>1, <2>2, <2>3, <2>5, <2>6, <2>7, AnswerKeeps
  <1>8. workers' \subseteq cancellable'
    BY <1>1, <1>4, <1>5 DEF HelperInv, HelperTypes
  <1>9. HelperTypes'
    BY <1>1, <1>2, <1>5, <1>6, <1>7, <1>8 DEF HelperInv, HelperTypes, LimitsAreNumbers
  <1>10. InputInv'
    BY <1>1 DEF HelperInv, InputInv
  <1>11. OnceInv'
    BY <1>1, <1>2, <1>7 DEF HelperInv, OnceInv
  <1>12. TokenInv'
    <2>1. \A r, s \in cancellable' : r.place = s.place \/ r.id = s.id => r = s
      BY <1>5 DEF HelperInv, TokenInv
    <2>2. \A i \in 1..Len(completions') : \E r \in cancellable' :
             completions'[i].place = r.place /\ completions'[i].id = r.id
      <3> SUFFICES ASSUME NEW i \in 1..Len(completions')
                   PROVE  \E r \in cancellable' :
                            completions'[i].place = r.place /\ completions'[i].id = r.id
        OBVIOUS
      <3>1. PICK r \in cancellable :
              completions[i + 1].place = r.place /\ completions[i + 1].id = r.id
        BY <1>2 DEF HelperInv, TokenInv
      <3>2. completions[i + 1].place # done.place
        BY <1>2 DEF HelperInv, OnceInv
      <3> QED
        BY <1>2, <1>3, <1>5, <3>1, <3>2
    <2>3. ASSUME NEW r \in cancellable'
          PROVE  r \in workers' \/ \E i \in 1..Len(completions') : completions'[i].place = r.place
      <3>1. CASE r \in workers
        BY <1>1, <3>1
      <3>2. CASE \E i \in 1..Len(completions) : completions[i].place = r.place
        <4>1. PICK i \in 1..Len(completions) : completions[i].place = r.place
          BY <3>2
        <4>2. i # 1
          BY <1>2, <1>4, <1>5, <4>1
        <4> QED
          BY <1>2, <4>1, <4>2
      <3> QED
        BY <1>5, <3>1, <3>2 DEF HelperInv, TokenInv
    <2> QED
      BY <2>1, <2>2, <2>3 DEF TokenInv
  <1> QED
    BY <1>7, <1>9, <1>10, <1>11, <1>12 DEF HelperInv

\* The loop looks for requests, waits for one in vain, or sees the stream end.
LEMMA LoopKeeps ==
    ASSUME HelperInv, Helper!Drained \/ Helper!Wait \/ Helper!InputEnds PROVE HelperInv'
  <1>1. CASE Helper!Drained \/ Helper!Wait
    <2>1. /\ phase' \in {"drain", "input", "done"}
          /\ UNCHANGED <<sent, input, active, cancellable, workers, completions, responses>>
      BY <1>1 DEF Helper!Drained, Helper!Wait
    <2>2. HelperTypes'
      BY <2>1 DEF HelperInv, HelperTypes
    <2>3. InputInv' /\ OnceInv' /\ TokenInv'
      BY <2>1 DEF HelperInv, InputInv, OnceInv, TokenInv
    <2>4. \A place : Taken(place) => Taken(place)'
      BY <2>1 DEF Taken
    <2>5. TakenInv'
      BY <2>1, <2>4 DEF HelperInv, TakenInv
    <2> QED
      BY <2>2, <2>3, <2>5 DEF HelperInv
  <1>2. CASE Helper!InputEnds
    <2>1. /\ input \in Seq(Helper!Requests \cup Ends) /\ input # <<>>
          /\ input' = Tail(input) /\ phase' \in {"drain", "failed"}
          /\ UNCHANGED <<sent, active, cancellable, workers, completions, responses>>
      BY <1>2 DEF HelperInv, HelperTypes, Helper!InputEnds
    <2>2. /\ input' \in Seq(Helper!Requests \cup Ends) /\ Len(input') = Len(input) - 1
          /\ \A i \in 1..Len(input') : input'[i] = input[i + 1] /\ i + 1 \in 1..Len(input)
      BY <2>1
    <2>3. HelperTypes'
      BY <2>1, <2>2 DEF HelperInv, HelperTypes
    <2>4. InputInv'
      BY <2>1, <2>2 DEF HelperInv, InputInv
    <2>5. \A place : Taken(place) => Taken(place)'
      BY <2>1, <2>2 DEF Taken
    <2>6. TakenInv'
      BY <2>1, <2>5 DEF HelperInv, TakenInv
    <2> QED
      BY <2>1, <2>3, <2>4, <2>6 DEF HelperInv, OnceInv, TokenInv
  <1> QED
    BY <1>1, <1>2

\* A request that is answered at once, because it cancels another or cannot be begun.
LEMMA RepliesKeep ==
    ASSUME HelperInv, LimitsAreNumbers, NEW r, Helper!CancelRequest(r) \/ Helper!RefuseRequest(r)
    PROVE  HelperInv'
  <1>1. /\ Helper!TakesRequest(r)
        /\ UNCHANGED <<sent, active, cancellable, workers, completions>>
    BY DEF Helper!CancelRequest, Helper!RefuseRequest, Helper!TakesRequest
  <1>2. /\ r.place \in 1..MaxRequests
        /\ input' \in Seq(Helper!Requests \cup Ends) /\ InputInv'
        /\ Taken(r.place)'
        /\ \A place : Taken(place) => Taken(place)' /\ place # r.place
    BY <1>1, FrontIsNew
  <1>3. PICK body \in {"NotFound", "Acknowledged", "CapacityReached", "Duplicate"} :
          Helper!Respond(r.place, body)
    BY DEF Helper!CancelRequest, Helper!RefuseRequest
  <1>4. /\ phase' \in {"drain", "failed"}
        /\ responses' \in Seq(Responses)
        /\ TakenInv'
        /\ \A i, j \in 1..Len(responses') : responses'[i].place = responses'[j].place => i = j
        /\ \A i \in 1..Len(responses') : \A c \in cancellable' :
             responses'[i].place # c.place
    <2>1. [place |-> r.place, body |-> body] \in Responses
      BY <1>2 DEF Responses
    <2>2. \A i \in 1..Len(responses) : responses[i].place # r.place
      BY <1>2 DEF HelperInv, TakenInv
    <2>3. \A c \in cancellable' : c \in cancellable /\ c.place # r.place
      BY <1>1, <1>2 DEF HelperInv, TakenInv
    <2> QED
      BY <1>2, <1>3, <2>1, <2>2, <2>3, AnswerKeeps
  <1>5. HelperTypes'
    BY <1>1, <1>2, <1>4 DEF HelperInv, HelperTypes
  <1> QED
    BY <1>1, <1>2, <1>4, <1>5 DEF HelperInv, OnceInv, TokenInv

\* A request that is begun has a token and a worker, and no other has its identifier.
LEMMA BeginKeeps ==
    ASSUME HelperInv, LimitsAreNumbers, NEW r, Helper!StartRequest(r) PROVE HelperInv'
  <1>1. /\ Helper!TakesRequest(r)
        /\ active < MaxInFlight /\ active' = active + 1
        /\ \A c \in cancellable : c.id # r.id
        /\ cancellable' = cancellable \cup {r} /\ workers' = workers \cup {r}
        /\ phase' = "drain"
        /\ UNCHANGED <<sent, completions, responses>>
    BY DEF Helper!StartRequest, Helper!TakesRequest, Helper!InUse
  <1>2. /\ r \in Helper!Requests
        /\ input' \in Seq(Helper!Requests \cup Ends) /\ InputInv'
        /\ Taken(r.place)'
        /\ \A place : Taken(place) => Taken(place)' /\ place # r.place
    BY <1>1, FrontIsNew
  <1>3. /\ \A c \in cancellable : c.place # r.place
        /\ \A i \in 1..Len(responses) : responses[i].place # r.place
        /\ \A i \in 1..Len(completions) : completions[i].place # r.place
    BY <1>2 DEF HelperInv, TakenInv, TokenInv
  <1>4. /\ IsFiniteSet(cancellable') /\ active' = Cardinality(cancellable')
        /\ active' <= MaxInFlight
    <2>1. IsFiniteSet(cancellable) /\ active = Cardinality(cancellable)
      BY DEF HelperInv, HelperTypes
    <2>2. IsFiniteSet(cancellable') /\ Cardinality(cancellable') = Cardinality(cancellable) + 1
      BY <1>1, <1>3, <2>1, FS_AddElement
    <2>3. Cardinality(cancellable) \in Nat
      BY <2>1, FS_CardinalityType
    <2> QED
      BY <1>1, <2>1, <2>2, <2>3 DEF LimitsAreNumbers
  <1>5. HelperTypes'
    BY <1>1, <1>2, <1>4 DEF HelperInv, HelperTypes
  <1>6. TakenInv'
    BY <1>1, <1>2 DEF HelperInv, TakenInv
  <1>7. OnceInv'
    BY <1>1, <1>3 DEF HelperInv, OnceInv
  <1>8. TokenInv'
    BY <1>1, <1>3 DEF HelperInv, TokenInv
  <1> QED
    BY <1>2, <1>5, <1>6, <1>7, <1>8 DEF HelperInv

\* A worker that is done leaves its answer, and the token until the answer is written.
LEMMA WorkKeeps ==
    ASSUME HelperInv, LimitsAreNumbers, NEW r \in workers, Helper!Work(r) PROVE HelperInv'
  <1>1. PICK body \in {"Answer", "Cancelled"} :
          completions' = Append(completions, [place |-> r.place, id |-> r.id, body |-> body])
    BY DEF Helper!Work
  <1>2. /\ Len(completions) < MaxInFlight /\ workers' = workers \ {r}
        /\ UNCHANGED <<sent, input, phase, active, cancellable, responses>>
    BY DEF Helper!Work
  <1>3. /\ completions \in Seq(Answers) /\ r \in cancellable /\ r \in Helper!Requests
        /\ r.place \in 1..MaxRequests /\ r.id \in Ids
    BY DEF HelperInv, HelperTypes, Helper!Requests
  <1>4. [place |-> r.place, id |-> r.id, body |-> body] \in Answers
    BY <1>3 DEF Answers
  <1>5. /\ completions' \in Seq(Answers)
        /\ Len(completions') = Len(completions) + 1 /\ Len(completions) \in Nat
        /\ \A i \in 1..Len(completions) : completions'[i] = completions[i]
        /\ completions'[Len(completions) + 1].place = r.place
        /\ completions'[Len(completions) + 1].id = r.id
        /\ \A i \in 1..Len(completions) : i \in 1..Len(completions')
        /\ Len(completions) + 1 \in 1..Len(completions')
        /\ \A i \in 1..Len(completions') : i \in 1..Len(completions) \/ i = Len(completions) + 1
    BY <1>1, <1>3, <1>4
  <1>6. /\ \A s \in workers : s.place = r.place => s = r
        /\ \A i \in 1..Len(completions) : completions[i].place # r.place
    BY <1>3 DEF HelperInv, HelperTypes, TokenInv, OnceInv
  <1>7. HelperTypes'
    BY <1>2, <1>5 DEF HelperInv, HelperTypes, LimitsAreNumbers
  <1>8. InputInv' /\ TakenInv'
    BY <1>2 DEF HelperInv, InputInv, TakenInv, Taken
  <1>9. OnceInv'
    <2>1. \A i, j \in 1..Len(completions') : completions'[i].place = completions'[j].place => i = j
      BY <1>5, <1>6 DEF HelperInv, OnceInv
    <2>2. \A i \in 1..Len(completions') : \A s \in workers' : completions'[i].place # s.place
      BY <1>2, <1>5, <1>6 DEF HelperInv, OnceInv
    <2> QED
      BY <1>2, <2>1, <2>2 DEF HelperInv, OnceInv
  <1>10. TokenInv'
    <2>1. \A i \in 1..Len(completions') : \E c \in cancellable' :
             completions'[i].place = c.place /\ completions'[i].id = c.id
      BY <1>2, <1>3, <1>5 DEF HelperInv, TokenInv
    <2>2. \A c \in cancellable' :
             c \in workers' \/ \E i \in 1..Len(completions') : completions'[i].place = c.place
      BY <1>2, <1>5 DEF HelperInv, TokenInv
    <2> QED
      BY <1>2, <2>1, <2>2 DEF HelperInv, TokenInv
  <1> QED
    BY <1>7, <1>8, <1>9, <1>10 DEF HelperInv

-----------------------------------------------------------------------------
(* What holds of the helper.                                                *)

\* At the start nothing is asked, and every step keeps the invariant.
LEMMA HelperHolds ==
    ASSUME LimitsAreNumbers
    PROVE  /\ Helper!HelperInit => HelperInv
           /\ HelperInv /\ [Helper!HelperNext]_(Helper!helperVars) => HelperInv'
  <1>1. ASSUME Helper!HelperInit PROVE HelperInv
    <2>1. IsFiniteSet(cancellable) /\ Cardinality(cancellable) = 0
      BY <1>1, FS_EmptySet DEF Helper!HelperInit
    <2> QED
      BY <1>1, <2>1 DEF Helper!HelperInit, HelperInv, HelperTypes, InputInv, TakenInv, OnceInv,
                        TokenInv, LimitsAreNumbers
  <1>2. ASSUME HelperInv, Helper!HelperNext PROVE HelperInv'
    <2>1. CASE Helper!ReadRequest
      BY <1>2, <2>1, ReadKeeps
    <2>2. CASE Helper!TakeCompletion
      BY <1>2, <2>2, CompletionKeeps
    <2>3. CASE Helper!Drained \/ Helper!Wait \/ Helper!InputEnds
      BY <1>2, <2>3, LoopKeeps
    <2>4. CASE \E r \in Helper!Requests : Helper!CancelRequest(r) \/ Helper!RefuseRequest(r)
      BY <1>2, <2>4, RepliesKeep
    <2>5. CASE \E r \in Helper!Requests : Helper!StartRequest(r)
      BY <1>2, <2>5, BeginKeeps
    <2>6. CASE \E r \in workers : Helper!Work(r)
      BY <1>2, <2>6, WorkKeeps
    <2> QED
      BY <1>2, <2>1, <2>2, <2>3, <2>4, <2>5, <2>6 DEF Helper!HelperNext, Helper!Loop
  <1>3. ASSUME HelperInv, UNCHANGED Helper!helperVars PROVE HelperInv'
    BY <1>3 DEF Helper!helperVars, HelperInv, HelperTypes, InputInv, TakenInv, Taken, OnceInv,
                TokenInv
  <1> QED
    BY <1>1, <1>2, <1>3

\* What the invariant says of a state: the answers, those that wait and those that are worked
\* on are of different requests, and a token is kept for each that is not answered.
LEMMA OnceIs == ASSUME HelperInv, LimitsAreNumbers PROVE AnsweredOnce
  <1> DEFINE answered == [i \in DOMAIN responses |-> responses[i].place]
             finished == [i \in DOMAIN completions |-> completions[i].place]
             working == {r.place : r \in workers}
  <1>1. /\ responses \in Seq(Responses) /\ completions \in Seq(Answers)
        /\ DOMAIN responses = 1..Len(responses) /\ DOMAIN completions = 1..Len(completions)
        /\ Len(responses) \in Nat /\ Len(completions) \in Nat
    BY DEF HelperInv, HelperTypes
  <1>2. /\ answered \in Seq(1..MaxRequests) /\ Len(answered) = Len(responses)
        /\ finished \in Seq(1..MaxRequests) /\ Len(finished) = Len(completions)
    <2>1. /\ \A i \in 1..Len(responses) : responses[i] \in Responses
          /\ \A i \in 1..Len(completions) : completions[i] \in Answers
      BY <1>1
    <2>2. answered \in [1..Len(responses) -> 1..MaxRequests]
      BY <1>1, <2>1 DEF Responses
    <2>3. finished \in [1..Len(completions) -> 1..MaxRequests]
      BY <1>1, <2>1 DEF Answers
    <2> HIDE DEF answered, finished
    <2>4. \A T, s : \A n \in Nat : s \in [1..n -> T] => s \in Seq(T) /\ Len(s) = n
      OBVIOUS
    <2> QED
      BY <1>1, <2>2, <2>3, <2>4
  <1>3. /\ \A i \in 1..Len(responses) : answered[i] = responses[i].place
        /\ \A i \in 1..Len(completions) : finished[i] = completions[i].place
    BY <1>1
  <1>4. \A i \in 1..Len(responses) : \A j \in 1..Len(completions) : answered[i] # finished[j]
    <2> SUFFICES ASSUME NEW i \in 1..Len(responses), NEW j \in 1..Len(completions)
                 PROVE  responses[i].place # completions[j].place
      BY <1>3
    <2>1. PICK r \in cancellable : completions[j].place = r.place
      BY DEF HelperInv, TokenInv
    <2> QED
      BY <2>1 DEF HelperInv, OnceInv
  <1>5. /\ Helper!ToSet(answered) = {responses[i].place : i \in 1..Len(responses)}
        /\ Helper!ToSet(finished) = {completions[i].place : i \in 1..Len(completions)}
    BY <1>1, <1>3 DEF Helper!ToSet
  <1> HIDE DEF answered, finished
  <1>6. Helper!IsInjective(answered \o finished)
    <2> DEFINE all == answered \o finished
    <2>1. /\ DOMAIN all = 1..(Len(responses) + Len(completions))
          /\ \A i \in 1..Len(responses) : all[i] = responses[i].place
          /\ \A i \in DOMAIN all : i \notin 1..Len(responses) =>
               /\ i - Len(responses) \in 1..Len(completions)
               /\ all[i] = completions[i - Len(responses)].place
      <3>1. /\ all \in Seq(1..MaxRequests) /\ Len(all) = Len(answered) + Len(finished)
            /\ DOMAIN all = 1..Len(all)
        BY <1>2
      <3>2. \A i \in 1..Len(all) :
              all[i] = IF i <= Len(answered) THEN answered[i] ELSE finished[i - Len(answered)]
        BY <1>2
      <3> HIDE DEF all
      <3>3. \A i \in 1..Len(all) : i \notin 1..Len(responses) =>
              i - Len(responses) \in 1..Len(completions) /\ ~(i <= Len(responses))
        BY <1>1, <1>2, <3>1
      <3>4. \A i \in 1..Len(responses) : i \in 1..Len(all) /\ i <= Len(responses)
        BY <1>1, <1>2, <3>1
      <3> QED
        BY <1>1, <1>2, <1>3, <3>1, <3>2, <3>3, <3>4
    <2> HIDE DEF all
    <2>2. \A i, j \in 1..Len(responses) : all[i] = all[j] => i = j
      BY <2>1 DEF HelperInv, OnceInv
    <2>3. \A i, j \in DOMAIN all :
            i \notin 1..Len(responses) /\ j \notin 1..Len(responses) /\ all[i] = all[j] => i = j
      <3> SUFFICES ASSUME NEW i \in DOMAIN all, NEW j \in DOMAIN all, i \notin 1..Len(responses),
                          j \notin 1..Len(responses), all[i] = all[j]
                   PROVE  i = j
        OBVIOUS
      <3>1. i - Len(responses) = j - Len(responses)
        BY <2>1 DEF HelperInv, OnceInv
      <3> QED
        BY <1>1, <2>1, <3>1
    <2>4. \A i, j \in DOMAIN all :
            i \in 1..Len(responses) /\ j \notin 1..Len(responses) => all[i] # all[j]
      BY <1>3, <1>4, <2>1
    <2>5. \A i, j \in DOMAIN all : all[i] = all[j] => i = j
      BY <2>2, <2>3, <2>4
    <2> QED
      BY <2>5 DEF Helper!IsInjective, all
  <1>7. (Helper!ToSet(answered) \cup Helper!ToSet(finished)) \cap working = {}
    BY <1>5 DEF HelperInv, HelperTypes, OnceInv
  <1>8. {r.place : r \in cancellable} = Helper!ToSet(finished) \cup working
    BY <1>5 DEF HelperInv, HelperTypes, TokenInv
  <1>9. active = Cardinality(cancellable) /\ Helper!Cardinality(cancellable) = Cardinality(cancellable)
    <2>1. Helper!Cardinality(cancellable) = Cardinality(cancellable)
      BY DEF Cardinality, Helper!Cardinality
    <2> QED
      BY <2>1 DEF HelperInv, HelperTypes
  <1>10. Helper!AnsweredOnce
    BY <1>6, <1>7, <1>8, <1>9 DEF Helper!AnsweredOnce, answered, finished
  <1>11. Helper!HelperTypeOK
    BY <1>9, FS_CardinalityType DEF HelperInv, HelperTypes, Helper!HelperTypeOK, LimitsAreNumbers
  <1> QED
    BY <1>10, <1>11 DEF AnsweredOnce

\* The helper alone: whatever its client sends and cancels, in whatever order its workers
\* finish, it answers a request once, keeps its token while it works on it and no longer, and
\* has no more than max_in_flight under way.
THEOREM HelperAnswersOnce ==
    ASSUME LimitsAreNumbers PROVE Helper!HelperSpec => []AnsweredOnce
  <1>1. Helper!HelperInit => HelperInv
    BY HelperHolds
  <1>2. HelperInv /\ [Helper!HelperNext]_(Helper!helperVars) => HelperInv'
    BY HelperHolds
  <1>3. HelperInv => AnsweredOnce
    BY OnceIs
  <1> QED
    BY <1>1, <1>2, <1>3, PTL DEF Helper!HelperSpec

\* The helper beside the service of a host, as the run of both has it.
THEOREM ServicesAnswerOnce ==
    ASSUME LimitsAreNumbers PROVE MCSpec => []AnsweredOnce
  <1>1. MCInit => HelperInv
    BY HelperHolds DEF MCInit
  <1>2. HelperInv /\ [MCNext]_(<<part, vars, helperPart>>) => HelperInv'
    <2>1. ASSUME [MCNext]_(<<part, vars, helperPart>>)
          PROVE  Helper!HelperNext \/ UNCHANGED Helper!helperVars
      BY <2>1 DEF MCNext, OwnershipActs, HelperActs, helperPart, Helper!helperVars
    <2> QED
      BY <2>1, HelperHolds
  <1>3. HelperInv => AnsweredOnce
    BY OnceIs
  <1> QED
    BY <1>1, <1>2, <1>3, PTL DEF MCSpec
=============================================================================
