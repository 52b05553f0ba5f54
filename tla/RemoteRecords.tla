--------------------------- MODULE RemoteRecords ---------------------------
(***************************************************************************)
(* The saved remote connections: RemoteStore of                            *)
(* crates/strukt-persistence/src/remote_store.rs and the list the desktop  *)
(* shows.  Each change is a job on a thread of its own that loads the      *)
(* document, changes it, copies the file to the backup and replaces the    *)
(* file; nothing makes a job wait for another one.  The desktop may be     *)
(* killed between any two steps, and a file may be damaged from outside.   *)
(* A record is its connection identity.                                    *)
(***************************************************************************)
EXTENDS Naturals, FiniteSets

CONSTANTS
    Connections,
    Unreadable,    \* no file, or bytes that are no valid document
    DocumentLimit, \* how many connections a document may have
    MaxJobs,       \* bound: jobs
    MaxStarts      \* bound: starts of the desktop

VARIABLES
    recordFile,    \* remote-connections.json
    recordBackup,  \* remote-connections.last-valid.json
    listed,        \* what the desktop shows
    loading,       \* the load of the start is on its way
    jobs,          \* the changes on their way
    begun, starts,
    replaced,      \* history: a save has replaced a valid document
    forgotten      \* history: forgotten with success, and not saved again since

recordVars == <<recordFile, recordBackup, listed, loading, jobs, begun, starts, replaced, forgotten>>

Documents == SUBSET Connections
IsValid(document) == document # Unreadable /\ Cardinality(document) <= DocumentLimit

\* RemoteStore::load.
LoadRecords ==
    IF IsValid(recordFile) THEN recordFile
    ELSE IF IsValid(recordBackup) THEN recordBackup ELSE {}

RecordsInit ==
    /\ recordFile = Unreadable /\ recordBackup = Unreadable
    /\ listed = {} /\ loading = TRUE
    /\ jobs = {} /\ begun = 0 /\ starts = 1
    /\ replaced = FALSE /\ forgotten = {}

Begin(op, c) ==
    /\ begun < MaxJobs
    /\ begun' = begun + 1
    /\ jobs' = jobs \cup {[number |-> begun, op |-> op, of |-> c, step |-> "load", document |-> {}]}

\* A connection is made, or the provider of its sessions chosen: remember_record and upsert.
RememberRecord(c) ==
    /\ Begin("upsert", c)
    /\ listed' = listed \cup {c}
    /\ forgotten' = forgotten \ {c}
    /\ UNCHANGED <<recordFile, recordBackup, loading, starts, replaced>>

ForgetRemoteRecord(c) ==
    /\ c \in listed
    /\ Begin("forget", c)
    /\ UNCHANGED <<recordFile, recordBackup, listed, loading, starts, replaced, forgotten>>

RemoteRecordsLoaded ==
    /\ loading
    /\ loading' = FALSE
    /\ listed' = LoadRecords
    /\ UNCHANGED <<recordFile, recordBackup, jobs, begun, starts, replaced, forgotten>>
-----------------------------------------------------------------------------
Step(j, next) == jobs' = (jobs \ {j}) \cup {next}

\* upsert and forget: a connection that is not there is not forgotten.
LoadForChange(j) ==
    /\ j.step = "load"
    /\ LET loaded == LoadRecords
       IN IF j.op = "forget" /\ j.of \notin loaded
            THEN jobs' = jobs \ {j}
            ELSE Step(j, [j EXCEPT !.step = "backup",
                            !.document = IF j.op = "forget" THEN loaded \ {j.of}
                                         ELSE loaded \cup {j.of}])
    /\ UNCHANGED <<recordFile, recordBackup, listed, loading, begun, starts, replaced, forgotten>>

\* The backup is a copy of whatever is there.
WriteBackupUnchecked(j) ==
    /\ j.step = "backup"
    /\ Step(j, [j EXCEPT !.step = "write"])
    /\ recordBackup' = recordFile
    /\ replaced' = (replaced \/ IsValid(recordFile))
    /\ UNCHANGED <<recordFile, listed, loading, begun, starts, forgotten>>
\* write: the file is copied to the backup if it is a valid document, and then replaced.
WriteBackup(j) ==
    /\ j.step = "backup"
    /\ Step(j, [j EXCEPT !.step = "write"])
    /\ recordBackup' = IF IsValid(recordFile) THEN recordFile ELSE recordBackup
    /\ replaced' = (replaced \/ IsValid(recordFile))
    /\ UNCHANGED <<recordFile, listed, loading, begun, starts, forgotten>>

WriteDocument(j) ==
    /\ j.step = "write"
    /\ recordFile' = j.document
    /\ Step(j, [j EXCEPT !.step = "done"])
    /\ UNCHANGED <<recordBackup, listed, loading, begun, starts, replaced, forgotten>>

\* RemoteRecordSaved and RemoteRecordForgotten.
JobDone(j) ==
    /\ j.step = "done"
    /\ jobs' = jobs \ {j}
    /\ listed' = IF j.op = "forget" THEN listed \ {j.of} ELSE listed
    /\ forgotten' = IF j.op = "forget" THEN forgotten \cup {j.of} ELSE forgotten
    /\ UNCHANGED <<recordFile, recordBackup, loading, begun, starts, replaced>>

\* The file is damaged; the desktop is killed and started again.
Damage ==
    /\ recordFile # Unreadable
    /\ recordFile' = Unreadable
    /\ UNCHANGED <<recordBackup, listed, loading, jobs, begun, starts, replaced, forgotten>>
Restart ==
    /\ starts < MaxStarts
    /\ starts' = starts + 1
    /\ listed' = {} /\ loading' = TRUE /\ jobs' = {}
    /\ UNCHANGED <<recordFile, recordBackup, begun, replaced, forgotten>>

RecordsNext ==
    \/ \E c \in Connections : RememberRecord(c) \/ ForgetRemoteRecord(c)
    \/ RemoteRecordsLoaded
    \/ \E j \in jobs : LoadForChange(j) \/ WriteBackup(j) \/ WriteDocument(j) \/ JobDone(j)
    \/ Damage \/ Restart

RecordsSpec == RecordsInit /\ [][RecordsNext]_recordVars
-----------------------------------------------------------------------------
\* Type invariant.
RecordsTypeOK ==
    /\ {recordFile, recordBackup} \ {Unreadable} \subseteq Documents
    /\ listed \in Documents
    /\ \A j \in jobs : j.step \in {"load", "backup", "write", "done"} /\ j.document \in Documents

\* Once a save has replaced a document there is always one to fall back on: damage to the
\* file, a kill between the two writes, two jobs that overtake each other and a document
\* over the limit never leave the store with nothing to load.
BackupIsValid == replaced => IsValid(recordBackup)

\* A connection that was forgotten with success is not loaded again, unless the file was
\* damaged meanwhile.
ForgottenIsGone ==
    [][\A c \in forgotten : c \notin LoadRecords => c \notin LoadRecords' \/ recordFile' = Unreadable
                              \/ c \notin forgotten']_recordVars
=============================================================================
