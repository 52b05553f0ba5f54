------------------------ MODULE MCWorkbench_proofs ------------------------
(***************************************************************************)
(* Proofs about the parts that deal with a remote host: its helper is      *)
(* installed whole and the records of connections can always be loaded, no *)
(* ssh and no language server is left running, and what is shown, asked    *)
(* and read is of the connection, the pane and the command it is shown     *)
(* for, for any installers, connections, panes, tasks and limits.          *)
(***************************************************************************)
EXTENDS MCWorkbench, Integers, FiniteSetTheorems, SequenceTheorems, WellFoundedInduction,
        TLAPS

-----------------------------------------------------------------------------
(* The installation of the helper.                                         *)

\* No file and no result is none of the files and results there are.
AbsentIsNothing ==
    /\ Absent \notin [by : Installers, bytes : Install!Bytes]
    /\ Absent \notin {"installed", "failed"}

\* A desktop that has not begun runs no script. A script has nothing staged before mktemp,
\* the whole helper or, after a hangup, nothing past its checksum test, and a helper in
\* place once it has ended well.
TestedIsWhole ==
    \A i \in Installers :
        /\ desktop[i] = "idle" => script[i] = "none"
        /\ script[i] \in {"test", "mktemp"} => staged[i] = Absent
        /\ script[i] \in {"chmod", "mv"} => staged[i] \in {"whole", Absent}
        /\ script[i] = "exit0" => target # Absent

InstallInv == Install!InstallTypeOK /\ Install!InstalledIsWhole /\ TestedIsWhole

\* The steps of a desktop move neither file; only the start of a script moves a script.
LEMMA DesktopKeeps ==
    ASSUME AbsentIsNothing, InstallInv, NEW i \in Installers,
           \/ Install!Spawn(i) \/ Install!SelectFails(i) \/ Install!WriteAll(i)
           \/ Install!WriteFails(i) \/ Install!GiveUp(i) \/ Install!TryWait(i)
    PROVE  InstallInv'
  <1> USE DEF InstallInv, Install!InstallTypeOK, Install!InstalledIsWhole, TestedIsWhole,
              Install!Ended, Install!Scripts, Install!Bytes
  <1>1. CASE Install!Spawn(i)
    BY <1>1 DEF Install!Spawn
  <1>2. CASE Install!SelectFails(i) \/ Install!WriteFails(i) \/ Install!GiveUp(i)
    BY <1>2 DEF Install!SelectFails, Install!WriteFails, Install!GiveUp, Install!Returns
  <1>3. CASE Install!WriteAll(i)
    BY <1>3 DEF Install!WriteAll
  <1>4. CASE Install!TryWait(i)
    BY <1>4 DEF Install!TryWait, Install!Returns
  <1> QED
    BY <1>1, <1>2, <1>3, <1>4

\* The lines of the script that come before the checksum test, and the test.
LEMMA StagingKeeps ==
    ASSUME AbsentIsNothing, InstallInv, NEW i \in Installers,
           Install!TestAbsent(i) \/ Install!Mktemp(i) \/ Install!Cat(i) \/ Install!Sum(i)
    PROVE  InstallInv'
  <1> USE DEF InstallInv, Install!InstallTypeOK, Install!InstalledIsWhole, TestedIsWhole,
              Install!Ended, Install!Scripts, Install!Bytes
  <1>1. CASE Install!TestAbsent(i)
    BY <1>1 DEF Install!TestAbsent, Install!Line, Install!Goto
  <1>2. CASE Install!Mktemp(i)
    BY <1>2 DEF Install!Mktemp, Install!Line, Install!Goto
  <1>3. CASE Install!Cat(i)
    BY <1>3 DEF Install!Cat, Install!Line, Install!Goto, Install!Exit1
  <1>4. CASE Install!Sum(i)
    BY <1>4 DEF Install!Sum, Install!Line, Install!Goto, Install!Exit1
  <1> QED
    BY <1>1, <1>2, <1>3, <1>4

\* The lines that publish what the test has let pass, and the hangup between any two.
LEMMA PublishingKeeps ==
    ASSUME AbsentIsNothing, InstallInv, NEW i \in Installers,
           Install!Chmod(i) \/ Install!Mv(i) \/ Install!Hangup(i)
    PROVE  InstallInv'
  <1> USE DEF InstallInv, Install!InstallTypeOK, Install!InstalledIsWhole, TestedIsWhole,
              Install!Ended, Install!Scripts, Install!Bytes
  <1>1. CASE Install!Chmod(i)
    BY <1>1 DEF Install!Chmod, Install!Line, Install!Goto, Install!Exit1
  <1>2. CASE Install!Mv(i)
    <2>1. CASE staged[i] = Absent
      BY <1>2, <2>1 DEF Install!Mv, Install!Line, Install!Exit1
    <2>2. CASE staged[i] # Absent
      <3>1. target' = [by |-> i, bytes |-> "whole"]
        BY <1>2, <2>2 DEF Install!Mv, Install!Line
      <3>2. target' \in [by : Installers, bytes : Install!Bytes] /\ target' # Absent
        BY <3>1 DEF AbsentIsNothing
      <3> QED
        BY <1>2, <2>2, <3>1, <3>2 DEF Install!Mv, Install!Line, Install!Goto
    <2> QED
      BY <2>1, <2>2
  <1>3. CASE Install!Hangup(i)
    BY <1>3 DEF Install!Hangup
  <1> QED
    BY <1>1, <1>2, <1>3

\* Nothing runs and nothing is in place at the start, and whoever installs, gives up, is cut
\* off or hangs up, the invariant is kept (install.rs: INSTALL_BOOTSTRAP and
\* execute_helper_install).
LEMMA InstallIsInductive ==
    ASSUME AbsentIsNothing
    PROVE  /\ Install!InstallInit => InstallInv
           /\ InstallInv /\ [Install!InstallNext]_(Install!installVars) => InstallInv'
  <1>1. Install!InstallInit => InstallInv
    BY DEF AbsentIsNothing, Install!InstallInit, InstallInv, Install!InstallTypeOK,
           Install!InstalledIsWhole, TestedIsWhole, Install!Ended, Install!Scripts,
           Install!Bytes
  <1>2. ASSUME InstallInv, Install!InstallNext
        PROVE  InstallInv'
    BY <1>2, DesktopKeeps, StagingKeeps, PublishingKeeps DEF Install!InstallNext
  <1>3. ASSUME InstallInv, UNCHANGED Install!installVars
        PROVE  InstallInv'
    BY <1>3 DEF Install!installVars, InstallInv, Install!InstallTypeOK,
                Install!InstalledIsWhole, TestedIsWhole, Install!Ended
  <1> QED
    BY <1>1, <1>2, <1>3

-----------------------------------------------------------------------------
(* The records of connections.                                             *)

RecordJobs ==
    [number : Nat, op : {"upsert", "forget"}, of : Connections,
     step : {"load", "backup", "write", "done"}, document : Records!Documents]

\* A valid document that a save replaces is the backup by then: that is inductive as it is.
RecordsInv ==
    /\ Records!RecordsTypeOK
    /\ begun \in Nat
    /\ recordJobs \subseteq RecordJobs
    /\ Records!BackupIsValid

\* What a start or a change loads is a document, from whichever file.
LEMMA LoadsDocument ==
    ASSUME RecordsInv PROVE Records!LoadRecords \in Records!Documents
  BY DEF RecordsInv, Records!RecordsTypeOK, Records!LoadRecords, Records!IsValid,
         Records!Documents

\* A change on its way loads, copies the file it finds valid to the backup, writes and is
\* reported; others may come between any two of these steps.
LEMMA ChangeKeeps ==
    ASSUME RecordsInv, NEW j \in recordJobs,
           \/ Records!LoadForChange(j) \/ Records!WriteBackup(j)
           \/ Records!WriteDocument(j) \/ Records!JobDone(j)
    PROVE  RecordsInv'
  <1> USE DEF RecordsInv, Records!RecordsTypeOK, Records!BackupIsValid, Records!Documents
  <1>1. j \in RecordJobs
    OBVIOUS
  <1>2. /\ \A s \in {"load", "backup", "write", "done"} : [j EXCEPT !.step = s] \in RecordJobs
        /\ \A d \in Records!Documents :
             [j EXCEPT !.step = "backup", !.document = d] \in RecordJobs
    BY <1>1 DEF RecordJobs
  <1>3. CASE Records!LoadForChange(j)
    <2>1. j.of \in Connections
      BY <1>1 DEF RecordJobs
    <2>2. PICK loaded \in Records!Documents : loaded = Records!LoadRecords
      BY LoadsDocument
    <2>3. loaded \ {j.of} \in Records!Documents /\ loaded \cup {j.of} \in Records!Documents
      BY <2>1
    <2>4. \/ recordJobs' = recordJobs \ {j}
          \/ \E d \in Records!Documents : recordJobs' =
               (recordJobs \ {j}) \cup {[j EXCEPT !.step = "backup", !.document = d]}
      BY <1>3, <2>2, <2>3 DEF Records!LoadForChange, Records!Step
    <2>5. recordJobs' \subseteq RecordJobs
      BY <1>2, <2>4
    <2> QED
      BY <1>3, <2>5 DEF Records!LoadForChange, RecordJobs, Records!IsValid
  <1>4. CASE Records!WriteBackup(j)
    <2>1. recordJobs' \subseteq RecordJobs
      BY <1>2, <1>4 DEF Records!WriteBackup, Records!Step
    <2> QED
      BY <1>4, <2>1 DEF Records!WriteBackup, RecordJobs, Records!IsValid
  <1>5. CASE Records!WriteDocument(j)
    <2>1. recordJobs' \subseteq RecordJobs
      BY <1>2, <1>5 DEF Records!WriteDocument, Records!Step
    <2> QED
      BY <1>1, <1>5, <2>1 DEF Records!WriteDocument, RecordJobs, Records!IsValid
  <1>6. CASE Records!JobDone(j)
    BY <1>6 DEF Records!JobDone, RecordJobs, Records!IsValid
  <1> QED
    BY <1>3, <1>4, <1>5, <1>6

\* Nothing was saved at the start, and the steps of the desktop, damage and restarts leave
\* the backup alone (remote_store.rs: load, write; app.rs: remember_record).
LEMMA RecordsAreInductive ==
    /\ Records!RecordsInit => RecordsInv
    /\ RecordsInv /\ [Records!RecordsNext]_(Records!recordVars) => RecordsInv'
  <1> USE DEF RecordsInv, Records!RecordsTypeOK, Records!BackupIsValid, Records!Documents
  <1>1. Records!RecordsInit => RecordsInv
    BY DEF Records!RecordsInit
  <1>2. ASSUME RecordsInv, NEW c \in Connections,
               Records!RememberRecord(c) \/ Records!ForgetRemoteRecord(c)
        PROVE  RecordsInv'
    <2>1. PICK op \in {"upsert", "forget"} :
            recordJobs' = recordJobs \cup {[number |-> begun, op |-> op, of |-> c,
                                            step |-> "load", document |-> {}]}
      BY <1>2 DEF Records!RememberRecord, Records!ForgetRemoteRecord, Records!Begin
    <2>2. recordJobs' \subseteq RecordJobs
      BY <2>1, <1>2 DEF RecordJobs
    <2> QED
      BY <1>2, <2>2 DEF Records!RememberRecord, Records!ForgetRemoteRecord, Records!Begin,
                        RecordJobs, Records!IsValid
  <1>3. ASSUME RecordsInv, Records!RemoteRecordsLoaded PROVE RecordsInv'
    BY <1>3, LoadsDocument DEF Records!RemoteRecordsLoaded, Records!IsValid
  <1>4. ASSUME RecordsInv, Records!Damage \/ Records!Restart PROVE RecordsInv'
    BY <1>4 DEF Records!Damage, Records!Restart, Records!IsValid
  <1>5. ASSUME RecordsInv, UNCHANGED Records!recordVars PROVE RecordsInv'
    BY <1>5 DEF Records!recordVars, Records!IsValid
  <1> HIDE DEF RecordsInv
  <1>6. ASSUME RecordsInv, Records!RecordsNext PROVE RecordsInv'
    BY <1>2, <1>3, <1>4, <1>6, ChangeKeeps DEF Records!RecordsNext
  <1> QED
    BY <1>1, <1>5, <1>6

-----------------------------------------------------------------------------
(* The processes of the helper.                                            *)

\* No job is none of the jobs there are.
NothingIsNoJob ==
    \A kind, at, id, got :
        Nothing # [kind |-> kind, at |-> at, id |-> id, got |-> got]

\* A diagnosis holds the server it has started, and no other job holds one.
ServersInv ==
    \/ job = Nothing /\ langs = {}
    \/ /\ job = [kind |-> job.kind, at |-> job.at, id |-> job.id, got |-> job.got]
       /\ \/ job.kind = "task" /\ job.at \in {"drain", "poll", "final"} /\ langs = {}
          \/ /\ job.kind = "language" /\ job.at \in {"initialize", "diagnostics", "terminate"}
             /\ langs = {job.id}

\* A job that goes on stays what it is.
LEMMA JobIsRecord ==
    ASSUME NEW j, j = [kind |-> j.kind, at |-> j.at, id |-> j.id, got |-> j.got],
           NEW at, NEW got
    PROVE  /\ [j EXCEPT !.at = at] =
                [kind |-> j.kind, at |-> at, id |-> j.id, got |-> j.got]
           /\ [j EXCEPT !.got = got] =
                [kind |-> j.kind, at |-> j.at, id |-> j.id, got |-> got]
           /\ [j EXCEPT !.got = got, !.at = at] =
                [kind |-> j.kind, at |-> at, id |-> j.id, got |-> got]
  <1>1. /\ [j EXCEPT !.at = at] =
                [kind |-> j.kind, at |-> at, id |-> j.id, got |-> j.got]
        /\ [j EXCEPT !.got = got] =
                [kind |-> j.kind, at |-> j.at, id |-> j.id, got |-> got]
    OBVIOUS
  <1> DEFINE k == [j EXCEPT !.got = got, !.at = at]
  <1>2. k \in [kind : {j.kind}, at : {at}, id : {j.id}, got : {got}]
    OBVIOUS
  <1> HIDE DEF k
  <1>3. k = [kind |-> j.kind, at |-> at, id |-> j.id, got |-> got]
    BY <1>2
  <1> QED
    BY <1>1, <1>3 DEF k

\* A command leaves the servers alone, whatever it prints and however it ends.
LEMMA CommandKeeps ==
    ASSUME NothingIsNoJob, ServersInv,
           \/ Processes!ProcessRuns \/ Processes!SpawnTask \/ Processes!DrainTask
           \/ Processes!PollTask \/ Processes!FinalDrain
    PROVE  ServersInv'
  <1>1. langs' = langs
    BY DEF Processes!ProcessRuns, Processes!SpawnTask, Processes!DrainTask,
           Processes!PollTask, Processes!FinalDrain
  <1>2. CASE Processes!ProcessRuns
    BY <1>1, <1>2 DEF Processes!ProcessRuns, ServersInv
  <1>3. CASE Processes!SpawnTask
    BY <1>1, <1>3 DEF Processes!SpawnTask, Processes!Starts, Processes!Fails,
                      Processes!Ends, ServersInv, NothingIsNoJob
  <1>4. CASE Processes!DrainTask \/ Processes!PollTask \/ Processes!FinalDrain
    <2>1. /\ job = [kind |-> job.kind, at |-> job.at, id |-> job.id, got |-> job.got]
          /\ job.kind = "task" /\ langs = {} /\ job.at \in {"drain", "poll", "final"}
      BY <1>4 DEF Processes!DrainTask, Processes!PollTask, Processes!FinalDrain, ServersInv
    <2>2. \/ job' = Nothing
          \/ \E at \in {"drain", "poll", "final"} : \E got :
               job' = [kind |-> job.kind, at |-> at, id |-> job.id, got |-> got]
      BY <1>4, <2>1, JobIsRecord
      DEF Processes!DrainTask, Processes!PollTask, Processes!FinalDrain, Processes!Fails,
          Processes!Ends
    <2> QED
      BY <1>1, <2>1, <2>2 DEF ServersInv
  <1> QED
    BY <1>2, <1>3, <1>4

\* A diagnosis ends with its server terminated, however the exchange went.
LEMMA DiagnosisKeeps ==
    ASSUME NothingIsNoJob, ServersInv,
           \/ Processes!SpawnLanguage \/ Processes!Initialize
           \/ Processes!WaitForDiagnostics \/ Processes!TerminateLanguage
    PROVE  ServersInv'
  <1>1. CASE Processes!SpawnLanguage
    BY <1>1 DEF Processes!SpawnLanguage, Processes!Starts, Processes!Ends, ServersInv,
                NothingIsNoJob
  <1>2. CASE Processes!Initialize \/ Processes!WaitForDiagnostics
    <2>1. /\ job = [kind |-> job.kind, at |-> job.at, id |-> job.id, got |-> job.got]
          /\ job.kind = "language" /\ langs = {job.id} /\ langs' = langs
      BY <1>2 DEF Processes!Initialize, Processes!WaitForDiagnostics, ServersInv
    <2>2. \E at \in {"diagnostics", "terminate"} :
               job' = [kind |-> job.kind, at |-> at, id |-> job.id, got |-> job.got]
      BY <1>2, <2>1, JobIsRecord DEF Processes!Initialize, Processes!WaitForDiagnostics
    <2> QED
      BY <2>1, <2>2 DEF ServersInv
  <1>3. CASE Processes!TerminateLanguage
    BY <1>3 DEF Processes!TerminateLanguage, Processes!Ends, ServersInv
  <1> QED
    BY <1>1, <1>2, <1>3

\* No server runs at the start, and every step keeps the invariant (remote.rs:
\* run_task_inner, run_language_diagnostics_inner; language.rs: RemoteLanguageManager).
LEMMA ServersAreInductive ==
    ASSUME NothingIsNoJob
    PROVE  /\ Processes!TasksInit => ServersInv
           /\ ServersInv /\ [Processes!TasksNext]_(Processes!taskVars) => ServersInv'
           /\ ServersInv => Processes!ServersAreReleased
  <1>1. Processes!TasksInit => ServersInv
    BY DEF Processes!TasksInit, ServersInv
  <1>2. ASSUME ServersInv, Processes!TasksNext PROVE ServersInv'
    BY <1>2, CommandKeeps, DiagnosisKeeps DEF Processes!TasksNext
  <1>3. ASSUME ServersInv, UNCHANGED Processes!taskVars PROVE ServersInv'
    BY <1>3 DEF Processes!taskVars, ServersInv
  <1>4. ServersInv => Processes!ServersAreReleased
    BY DEF ServersInv, Processes!ServersAreReleased, NothingIsNoJob
  <1> QED
    BY <1>1, <1>2, <1>3, <1>4

-----------------------------------------------------------------------------
(* Connections to a helper.                                                *)

\* The limits are numbers, and nobody is no task.
LinkNumbers ==
    /\ MaxLinks \in Nat /\ Sizes \subseteq Nat
    /\ ClientLimit \in Nat /\ HelperLimit \in Nat
    /\ Nobody \notin Tasks

Frames == [size : Sizes \cup {0, 1}, id : Nat, generation : Nat]
LinkRecords ==
    [phase : {"none", "hello", "made", "open", "failed", "closing", "closed"},
     child : {"none", "running", "exited", "killed"},
     helper : {"none", "starting", "loop", "ended"},
     stdin : Seq(Frames), stdout : Seq(Frames), asked : SUBSET Nat,
     clientLimit : Nat, helperLimit : Nat, next : Nat,
     owner : Tasks \cup {Nobody}, ending : BOOLEAN]
TaskRecords ==
    [step : {"idle", "wants", "locked", "reading", "finished"}, link : 0..MaxLinks, id : Nat]
LinkTypes ==
    /\ link \in [Link!Links -> LinkRecords]
    /\ task \in [Tasks -> TaskRecords]
    /\ held \in 0..MaxLinks /\ sessions \in 0..MaxLinks /\ awaited \in 0..MaxLinks

\* Who is in the middle of a request has the lock of the connection.
LockInv ==
    \A t \in Tasks :
        /\ task[t].step # "idle" => task[t].link \in Link!Links
        /\ task[t].step \in {"locked", "reading"} => link[task[t].link].owner = t

Readers(c) == {t \in Tasks : task[t].step = "reading" /\ task[t].link = c}

\* Nothing is on its way to the helper or back, or one request or its answer is.
Quiet(l) == l.stdin = <<>> /\ l.asked = {} /\ l.stdout = <<>>
Agreed == Link!Intersection(ClientLimit, HelperLimit)
OneAsked(c, l, id) ==
    \/ \E f \in Frames : f.id = id /\ l.stdin = <<f>> /\ l.asked = {} /\ l.stdout = <<>>
    \/ l.stdin = <<>> /\ l.asked = {id} /\ l.stdout = <<>>
    \/ /\ l.stdin = <<>> /\ l.asked = {}
       /\ \E f \in Frames :
            f.id = id /\ f.generation = c /\ f.size <= Agreed /\ l.stdout = <<f>>

\* The hello is the first frame of the helper, after what a login shell may have written, and
\* the two sides have the same limit from then on.
Noise == Link!Frame(0, 0, 0)
Hello(c) == Link!Frame(1, 0, c)
Sound(c, l) ==
    /\ l.phase = "none" => Quiet(l) /\ l.helper = "none"
    /\ l.phase = "hello" =>
         /\ l.stdin = <<>> /\ l.asked = {} /\ l.helper # "none"
         /\ l.stdout \in {<<>>, <<Noise>>, <<Hello(c)>>, <<Noise, Hello(c)>>}
         /\ l.helper = "starting" => l.stdout \in {<<>>, <<Noise>>}
    /\ l.phase \in {"failed", "closed"} => l.child # "running"
    /\ l.phase = "failed" => l.helper = "ended"
    /\ l.phase \in {"made", "open", "closing", "closed"} =>
         l.helper \in {"loop", "ended"} /\ l.clientLimit = Agreed
    /\ l.helper = "loop" => l.helperLimit = Agreed
    /\ l.helper = "loop" /\ l.phase \in {"hello", "made", "open"} => l.child = "running"

\* An open connection whose helper runs is quiet unless somebody reads, who waits for the one
\* request there is.
StreamInv ==
    \A c \in Link!Links :
        /\ Sound(c, link[c])
        /\ link[c].phase \in {"made", "open"} /\ link[c].helper = "loop" /\ Readers(c) = {} =>
             Quiet(link[c])
        /\ \A t \in Readers(c) : OneAsked(c, link[c], task[t].id)

LinkInv == LinkTypes /\ LockInv /\ StreamInv /\ Link!NothingIsLeftRunning

\* Whichever side computes the intersection, the limit is the same number.
LEMMA LimitIsAgreed ==
    ASSUME LinkNumbers
    PROVE  Agreed \in Nat /\ Link!Intersection(HelperLimit, ClientLimit) = Agreed
  <1>1. Agreed = Link!Min({ClientLimit, HelperLimit})
    BY DEF Agreed, Link!Intersection
  <1>2. Link!Intersection(HelperLimit, ClientLimit) = Link!Min({ClientLimit, HelperLimit})
    <2>1. {HelperLimit, ClientLimit} = {ClientLimit, HelperLimit}
      OBVIOUS
    <2> QED
      BY <2>1 DEF Link!Intersection
  <1>3. \E x \in {ClientLimit, HelperLimit} : \A y \in {ClientLimit, HelperLimit} : x <= y
    BY DEF LinkNumbers
  <1>4. Link!Min({ClientLimit, HelperLimit}) \in {ClientLimit, HelperLimit}
    BY <1>3 DEF Link!Min
  <1> QED
    BY <1>1, <1>2, <1>4 DEF LinkNumbers

\* What a connection goes on with, when no task moves and nobody is left alone with an answer:
\* it does not open, and it closes or fails only while nobody reads.
LEMMA LinkChanges ==
    ASSUME LinkInv, LinkNumbers, NEW c \in Link!Links, NEW new \in LinkRecords,
           link' = [link EXCEPT ![c] = new],
           UNCHANGED <<held, sessions, task>>, awaited' \in 0..MaxLinks,
           new.owner = link[c].owner,
           new.phase = link[c].phase \/ Readers(c) = {},
           new.phase = "open" => link[c].phase = "open" /\ new.ending = link[c].ending,
           Sound(c, new),
           new.phase \in {"made", "open"} /\ new.helper = "loop" /\ Readers(c) = {} => Quiet(new),
           \A t \in Readers(c) : OneAsked(c, new, task[t].id)
    PROVE  LinkInv'
  <1>1. /\ link' \in [Link!Links -> LinkRecords] /\ link'[c] = new
        /\ \A d \in Link!Links : d # c => link'[d] = link[d]
    BY DEF LinkInv, LinkTypes
  <1>2. LinkTypes'
    BY <1>1 DEF LinkInv, LinkTypes
  <1>3. \A d \in Link!Links : link'[d].owner = link[d].owner
    BY <1>1
  <1>4. LockInv'
    BY <1>3 DEF LinkInv, LockInv
  <1>5. \A d : Readers(d)' = Readers(d)
    BY DEF Readers
  <1>6. StreamInv'
    BY <1>1, <1>5 DEF LinkInv, StreamInv
  <1>7. Link!NothingIsLeftRunning'
    <2>1. \A d : Link!Holders(d)' = Link!Holders(d)
      BY DEF Link!Holders
    <2>2. \A d \in Link!Links : \A t \in Link!Holders(d) :
            task[t].step = "reading" => t \in Readers(d)
      BY DEF Link!Holders, Readers
    <2>3. \A d \in Link!Links : link'[d].phase = "open" =>
            link[d].phase = "open" /\ link'[d].ending = link[d].ending
      BY <1>1
    <2>4. \A d \in Link!Links : link'[d].phase = "open" =>
            (Link!Kept(d, held, sessions) => Link!Kept(d, held, sessions)')
      BY <2>3 DEF Link!Kept
    <2>5. \A d \in Link!Links :
            link'[d].phase \in {"failed", "closed"} => link'[d].child # "running"
      BY <1>6 DEF StreamInv, Sound
    <2>6. \A d \in Link!Links : link'[d].phase = link[d].phase \/ Readers(d) = {}
      BY <1>1
    <2> QED
      BY <2>1, <2>2, <2>3, <2>4, <2>5, <2>6 DEF LinkInv, Link!NothingIsLeftRunning
  <1> QED
    BY <1>2, <1>4, <1>6, <1>7 DEF LinkInv

\* A frame after another.
LEMMA AppendToOne ==
    ASSUME NEW f, NEW g
    PROVE  Append(<<f>>, g) = <<f, g>>
  <1> DEFINE two == Append(<<f>>, g)
  <1>1. two = [i \in 1..2 |-> two[i]]
    <2>1. <<f>> \in Seq({f, g}) /\ two \in Seq({f, g}) /\ Len(two) = 2
      OBVIOUS
    <2> QED
      BY <2>1
  <1>2. two[1] = f /\ two[2] = g
    OBVIOUS
  <1> HIDE DEF two
  <1>3. two = [i \in 1..2 |-> IF i = 1 THEN f ELSE g]
    BY <1>1, <1>2
  <1>4. <<f, g>> = [i \in 1..2 |-> IF i = 1 THEN f ELSE g]
    OBVIOUS
  <1> QED
    BY <1>3, <1>4 DEF two

\* A connection is begun, and its helper says hello or does not.
LEMMA ConnectKeeps ==
    ASSUME LinkInv, LinkNumbers, NEW c \in Link!Links,
           Link!Connect(c) \/ Link!HelperHello(c) \/ Link!HelperRefuses(c)
    PROVE  LinkInv'
  <1>0. /\ link \in [Link!Links -> LinkRecords] /\ link[c] \in LinkRecords
        /\ Sound(c, link[c]) /\ c \in Nat /\ c \in 0..MaxLinks /\ Agreed \in Nat
        /\ Noise \in Frames /\ Hello(c) \in Frames
    BY LimitIsAgreed DEF LinkInv, LinkTypes, StreamInv, LinkNumbers, Link!Links, Noise, Hello,
                         Link!Frame, Frames
  <1>1. CASE Link!Connect(c)
    <2>1. PICK noise \in {<<>>, <<Noise>>} :
            link' = [link EXCEPT ![c] =
                       [link[c] EXCEPT !.phase = "hello", !.child = "running",
                                       !.helper = "starting", !.stdout = noise]]
      BY <1>1 DEF Link!Connect, Noise
    <2> DEFINE new == [link[c] EXCEPT !.phase = "hello", !.child = "running",
                                      !.helper = "starting", !.stdout = noise]
    <2>2. link' = [link EXCEPT ![c] = new]
      BY <2>1
    <2>3. noise \in Seq(Frames)
      <3>1. <<>> \in Seq(Frames) /\ \A f \in Frames : <<f>> \in Seq(Frames)
        OBVIOUS
      <3>2. noise = <<>> \/ noise = <<Noise>>
        BY <2>1
      <3> QED
        BY <1>0, <3>1, <3>2
    <2>4. /\ new \in LinkRecords /\ new.phase = "hello" /\ new.child = "running"
          /\ new.helper = "starting" /\ new.stdout = noise /\ new.owner = link[c].owner
          /\ new.stdin = link[c].stdin /\ new.asked = link[c].asked
      BY <1>0, <2>3 DEF LinkRecords
    <2> HIDE DEF new
    <2>5. link[c].phase = "none" /\ awaited' = c /\ UNCHANGED <<held, sessions, task>>
      BY <1>1 DEF Link!Connect
    <2>6. Readers(c) = {}
      BY <2>5 DEF Readers, LinkInv, Link!NothingIsLeftRunning, Link!Holders
    <2>7. Sound(c, new)
      BY <1>0, <2>4, <2>5 DEF Sound, Quiet
    <2> QED
      BY <1>0, <2>2, <2>4, <2>5, <2>6, <2>7, LinkChanges
  <1>2. CASE Link!HelperHello(c)
    <2> DEFINE new == [link[c] EXCEPT !.helper = "loop", !.helperLimit = Agreed,
                                      !.stdout = Append(@, Hello(c))]
    <2>1. link' = [link EXCEPT ![c] = new]
      BY <1>0, <1>2, LimitIsAgreed DEF Link!HelperHello, Hello
    <2>2. link[c].stdout \in Seq(Frames) /\ Append(link[c].stdout, Hello(c)) \in Seq(Frames)
      BY <1>0 DEF LinkRecords
    <2>3. /\ new \in LinkRecords /\ new.phase = link[c].phase /\ new.child = link[c].child
          /\ new.helper = "loop" /\ new.stdout = Append(link[c].stdout, Hello(c))
          /\ new.owner = link[c].owner /\ new.ending = link[c].ending
          /\ new.stdin = link[c].stdin /\ new.asked = link[c].asked /\ new.helperLimit = Agreed
      BY <1>0, <2>2 DEF LinkRecords
    <2> HIDE DEF new
    <2>4. link[c].helper = "starting" /\ link[c].child = "running"
          /\ awaited' = awaited /\ UNCHANGED <<held, sessions, task>>
      BY <1>2 DEF Link!HelperHello, Link!desktop
    <2>5. link[c].phase = "hello"
      BY <1>0, <2>4 DEF Sound, LinkRecords
    <2>6. Readers(c) = {}
      BY <2>5 DEF Readers, LinkInv, Link!NothingIsLeftRunning, Link!Holders
    <2>7. new.stdout \in {<<Hello(c)>>, <<Noise, Hello(c)>>}
      <3>1. link[c].stdout \in {<<>>, <<Noise>>}
        BY <1>0, <2>4, <2>5 DEF Sound
      <3>2. \A f : Append(<<>>, f) = <<f>>
        OBVIOUS
      <3> QED
        BY <2>3, <3>1, <3>2, AppendToOne
    <2>8. Sound(c, new)
      BY <1>0, <2>3, <2>4, <2>5, <2>7 DEF Sound
    <2>9. awaited' \in 0..MaxLinks
      BY <2>4 DEF LinkInv, LinkTypes
    <2> QED
      BY <2>1, <2>3, <2>4, <2>5, <2>6, <2>8, <2>9, LinkChanges
  <1>3. CASE Link!HelperRefuses(c)
    <2> DEFINE new == [link[c] EXCEPT !.helper = "ended"]
    <2>1. link' = [link EXCEPT ![c] = new]
      BY <1>0, <1>3 DEF Link!HelperRefuses
    <2>2. /\ new \in LinkRecords /\ new.phase = link[c].phase /\ new.child = link[c].child
          /\ new.helper = "ended" /\ new.stdout = link[c].stdout
          /\ new.owner = link[c].owner /\ new.ending = link[c].ending
          /\ new.stdin = link[c].stdin /\ new.asked = link[c].asked
      BY <1>0 DEF LinkRecords
    <2> HIDE DEF new
    <2>3. link[c].helper = "starting"
          /\ awaited' = awaited /\ UNCHANGED <<held, sessions, task>>
      BY <1>3 DEF Link!HelperRefuses, Link!desktop
    <2>4. link[c].phase = "hello"
      BY <1>0, <2>3 DEF Sound, LinkRecords
    <2>5. Readers(c) = {}
      BY <2>4 DEF Readers, LinkInv, Link!NothingIsLeftRunning, Link!Holders
    <2>6. Sound(c, new)
      BY <1>0, <2>2, <2>3, <2>4 DEF Sound
    <2>7. awaited' \in 0..MaxLinks
      BY <2>3 DEF LinkInv, LinkTypes
    <2> QED
      BY <2>1, <2>2, <2>3, <2>4, <2>5, <2>6, <2>7, LinkChanges
  <1> QED
    BY <1>1, <1>2, <1>3

\* A handshake ends with a connection of agreed limits, or with ssh killed.
LEMMA NegotiateKeeps ==
    ASSUME LinkInv, LinkNumbers, NEW c \in Link!Links, Link!Negotiate(c)
    PROVE  LinkInv'
  <1>1. /\ link \in [Link!Links -> LinkRecords] /\ link[c] \in LinkRecords
        /\ Sound(c, link[c]) /\ Agreed \in Nat
        /\ link[c].phase = "hello"
        /\ awaited' = awaited /\ UNCHANGED <<held, sessions, task>>
        /\ awaited' \in 0..MaxLinks
    BY LimitIsAgreed DEF LinkInv, LinkTypes, StreamInv, Link!Negotiate, Link!desktop
  <1>2. Readers(c) = {}
    BY <1>1 DEF Readers, LinkInv, Link!NothingIsLeftRunning, Link!Holders
  <1>3. CASE Link!IsHello(c)
    <2> DEFINE new == [link[c] EXCEPT !.phase = "made", !.stdout = Tail(@),
                                      !.clientLimit = Agreed]
    <2>1. link' = [link EXCEPT ![c] = new]
      BY <1>1, <1>3 DEF Link!Negotiate, Agreed
    <2>2. link[c].stdout = <<Hello(c)>>
      <3>1. Noise # Hello(c)
        BY DEF Noise, Hello, Link!Frame
      <3>2. \A f, g : Head(<<f>>) = f /\ Head(<<f, g>>) = f
        OBVIOUS
      <3> QED
        BY <1>1, <1>3, <3>1, <3>2 DEF Sound, Link!IsHello, Hello
    <2>3. \A f : Tail(<<f>>) = <<>> /\ <<f>> # <<>> /\ \A g : <<f>> = <<g>> => f = g
      OBVIOUS
    <2>4. Tail(link[c].stdout) = <<>> /\ Tail(link[c].stdout) \in Seq(Frames)
      BY <2>2, <2>3
    <2>5. /\ new \in LinkRecords /\ new.phase = "made" /\ new.child = link[c].child
          /\ new.helper = link[c].helper /\ new.stdout = <<>>
          /\ new.owner = link[c].owner /\ new.ending = link[c].ending
          /\ new.stdin = link[c].stdin /\ new.asked = link[c].asked
          /\ new.clientLimit = Agreed /\ new.helperLimit = link[c].helperLimit
      BY <1>1, <2>4 DEF LinkRecords
    <2> HIDE DEF new
    <2>6. link[c].helper \in {"loop", "ended"}
      <3>1. <<Hello(c)>> # <<Noise>>
        BY <2>3 DEF Noise, Hello, Link!Frame
      <3> QED
        BY <1>1, <2>2, <2>3, <3>1 DEF Sound, LinkRecords
    <2>7. Sound(c, new) /\ Quiet(new)
      BY <1>1, <2>5, <2>6 DEF Sound, Quiet
    <2> QED
      BY <1>1, <1>2, <2>1, <2>5, <2>7, LinkChanges
  <1>4. CASE ~Link!IsHello(c)
    <2> DEFINE new == [link[c] EXCEPT !.phase = "failed", !.child = "exited",
                                      !.helper = "ended"]
    <2>1. link' = [link EXCEPT ![c] = new]
      BY <1>1, <1>4 DEF Link!Negotiate, Link!Abandon
    <2>2. /\ new \in LinkRecords /\ new.phase = "failed" /\ new.child = "exited"
          /\ new.helper = "ended" /\ new.owner = link[c].owner
      BY <1>1 DEF LinkRecords
    <2> HIDE DEF new
    <2>3. Sound(c, new)
      BY <2>2 DEF Sound
    <2> QED
      BY <1>1, <1>2, <2>1, <2>2, <2>3, LinkChanges
  <1> QED
    BY <1>3, <1>4

\* The helper takes a request, and answers it or ends.
LEMMA HelperKeeps ==
    ASSUME LinkInv, LinkNumbers, NEW c \in Link!Links,
           Link!HelperTakes(c) \/ Link!HelperAnswers(c)
    PROVE  LinkInv'
  <1>1. /\ link \in [Link!Links -> LinkRecords] /\ link[c] \in LinkRecords
        /\ Sound(c, link[c]) /\ Agreed \in Nat /\ c \in Nat
        /\ link[c].phase = "open" /\ link[c].helper = "loop" /\ link[c].child = "running"
        /\ awaited' = awaited /\ UNCHANGED <<held, sessions, task>>
        /\ awaited' \in 0..MaxLinks
    <2>1. /\ link[c].phase = "open" /\ link[c].helper = "loop" /\ link[c].child = "running"
          /\ awaited' = awaited /\ UNCHANGED <<held, sessions, task>>
      BY DEF Link!HelperTakes, Link!HelperAnswers, Link!Alive, Link!desktop
    <2>2. Agreed \in Nat /\ c \in Nat
      BY LimitIsAgreed DEF Link!Links, LinkNumbers
    <2> QED
      BY <2>1, <2>2 DEF LinkInv, LinkTypes, StreamInv
  <1>2. link[c].stdin # <<>> \/ link[c].asked # {} => \E t \in Tasks : t \in Readers(c)
    BY <1>1 DEF LinkInv, StreamInv, Quiet, Readers
  <1>3. \A t \in Readers(c) : OneAsked(c, link[c], task[t].id)
    BY DEF LinkInv, StreamInv
  <1>4. \A f : /\ <<f>> # <<>> /\ Head(<<f>>) = f /\ Tail(<<f>>) = <<>>
               /\ Append(<<>>, f) = <<f>>
    OBVIOUS
  <1>7. \A f \in Frames : <<f>> \in Seq(Frames)
    OBVIOUS
  <1>5. CASE Link!HelperTakes(c)
    <2> DEFINE id == Head(link[c].stdin).id
               new == [link[c] EXCEPT !.stdin = Tail(@), !.asked = @ \cup {id}]
    <2>1. link' = [link EXCEPT ![c] = new] /\ link[c].stdin # <<>>
      BY <1>1, <1>5 DEF Link!HelperTakes
    <2>2. PICK s \in Readers(c) : OneAsked(c, link[c], task[s].id)
      BY <1>2, <1>3, <2>1
    <2>3. /\ Tail(link[c].stdin) = <<>> /\ id = task[s].id /\ id \in Nat
          /\ link[c].asked = {} /\ link[c].stdout = <<>>
      BY <1>4, <2>1, <2>2 DEF OneAsked, Frames
    <2>4. \A t \in Readers(c) : task[t].id = id
      BY <1>3, <1>4, <2>1, <2>3 DEF OneAsked
    <2> HIDE DEF id
    <2>5. Tail(link[c].stdin) \in Seq(Frames) /\ link[c].asked \cup {id} = {id}
          /\ {id} \in SUBSET Nat
      <3>1. <<>> \in Seq(Frames)
        OBVIOUS
      <3>2. {} \cup {id} = {id}
        OBVIOUS
      <3> QED
        BY <2>3, <3>1, <3>2
    <2>6. /\ new \in LinkRecords /\ new.phase = link[c].phase /\ new.child = link[c].child
          /\ new.helper = link[c].helper /\ new.stdout = <<>>
          /\ new.owner = link[c].owner /\ new.ending = link[c].ending
          /\ new.stdin = <<>> /\ new.asked = {id}
          /\ new.clientLimit = link[c].clientLimit /\ new.helperLimit = link[c].helperLimit
      BY <1>1, <2>3, <2>5 DEF LinkRecords
    <2> HIDE DEF new
    <2>7. Sound(c, new)
      BY <1>1, <2>6 DEF Sound
    <2>8. \A t \in Readers(c) : OneAsked(c, new, task[t].id)
      BY <2>4, <2>6 DEF OneAsked
    <2> QED
      BY <1>1, <2>1, <2>2, <2>6, <2>7, <2>8, LinkChanges
  <1>6. CASE Link!HelperAnswers(c)
    <2>1. PICK id \in link[c].asked, size \in Sizes :
            link' = [link EXCEPT ![c] =
                      IF size <= link[c].helperLimit
                        THEN [link[c] EXCEPT !.asked = @ \ {id},
                                       !.stdout = Append(@, Link!Frame(size, id, c))]
                        ELSE [link[c] EXCEPT !.helper = "ended"]]
      BY <1>6 DEF Link!HelperAnswers
    <2>2. PICK s \in Readers(c) : OneAsked(c, link[c], task[s].id)
      BY <1>2, <1>3
    <2>3. /\ link[c].asked = {id} /\ task[s].id = id /\ id \in Nat
          /\ link[c].stdin = <<>> /\ link[c].stdout = <<>>
      BY <1>1, <2>2 DEF OneAsked, LinkRecords
    <2>4. \A t \in Readers(c) : task[t].id = id
      BY <1>3, <2>3 DEF OneAsked
    <2>5. CASE size <= link[c].helperLimit
      <3> DEFINE f == Link!Frame(size, id, c)
                 new == [link[c] EXCEPT !.asked = @ \ {id}, !.stdout = Append(@, f)]
      <3>1. link' = [link EXCEPT ![c] = new]
        BY <1>1, <2>1, <2>5
      <3>2. /\ f \in Frames /\ f.id = id /\ f.generation = c /\ f.size <= Agreed
        BY <1>1, <2>3, <2>5 DEF Sound, Frames, Link!Frame, LinkNumbers
      <3> HIDE DEF f
      <3>3. /\ Append(link[c].stdout, f) = <<f>> /\ <<f>> \in Seq(Frames)
            /\ link[c].asked \ {id} = {}
        BY <1>4, <1>7, <2>3, <3>2
      <3>4. /\ new \in LinkRecords /\ new.phase = link[c].phase /\ new.child = link[c].child
            /\ new.helper = link[c].helper /\ new.stdout = <<f>>
            /\ new.owner = link[c].owner /\ new.ending = link[c].ending
            /\ new.stdin = <<>> /\ new.asked = {}
            /\ new.clientLimit = link[c].clientLimit /\ new.helperLimit = link[c].helperLimit
        BY <1>1, <2>3, <3>3 DEF LinkRecords
      <3> HIDE DEF new
      <3>5. Sound(c, new)
        BY <1>1, <3>4 DEF Sound
      <3>6. \A t \in Readers(c) : OneAsked(c, new, task[t].id)
        BY <2>4, <3>2, <3>4 DEF OneAsked
      <3> QED
        BY <1>1, <2>2, <3>1, <3>4, <3>5, <3>6, LinkChanges
    <2>6. CASE ~(size <= link[c].helperLimit)
      <3> DEFINE new == [link[c] EXCEPT !.helper = "ended"]
      <3>1. link' = [link EXCEPT ![c] = new]
        BY <1>1, <2>1, <2>6
      <3>2. /\ new \in LinkRecords /\ new.phase = link[c].phase /\ new.child = link[c].child
            /\ new.helper = "ended" /\ new.stdout = link[c].stdout
            /\ new.owner = link[c].owner /\ new.ending = link[c].ending
            /\ new.stdin = link[c].stdin /\ new.asked = link[c].asked
            /\ new.clientLimit = link[c].clientLimit
        BY <1>1 DEF LinkRecords
      <3> HIDE DEF new
      <3>3. Sound(c, new)
        BY <1>1, <3>2 DEF Sound
      <3>4. \A t \in Readers(c) : OneAsked(c, new, task[t].id)
        BY <1>3, <3>2 DEF OneAsked
      <3> QED
        BY <1>1, <2>2, <3>1, <3>2, <3>3, <3>4, LinkChanges
    <2> QED
      BY <2>5, <2>6
  <1> QED
    BY <1>5, <1>6

\* The helper or ssh goes away, and a connection that is closing ends its ssh.
LEMMA EndingKeeps ==
    ASSUME LinkInv, LinkNumbers, NEW c \in Link!Links,
           \/ Link!HelperDies(c) \/ Link!ChildExits(c) \/ Link!HelperClosed(c)
           \/ Link!PollExit(c) \/ Link!RuntimeDisconnect(c)
    PROVE  LinkInv'
  <1>1. /\ link \in [Link!Links -> LinkRecords] /\ link[c] \in LinkRecords
        /\ Sound(c, link[c])
        /\ awaited' = awaited /\ UNCHANGED <<held, sessions, task>>
        /\ awaited' \in 0..MaxLinks
    BY DEF LinkInv, LinkTypes, StreamInv, Link!HelperDies, Link!ChildExits,
           Link!HelperClosed, Link!PollExit, Link!RuntimeDisconnect, Link!desktop
  <1>2. \A t \in Readers(c) : OneAsked(c, link[c], task[t].id)
    BY DEF LinkInv, StreamInv
  <1>3. Readers(c) # {} => link[c].phase = "open" /\ link[c].owner # Nobody
    BY DEF Readers, LinkInv, Link!NothingIsLeftRunning, Link!Holders, LockInv, LinkNumbers
  <1>4. CASE Link!HelperDies(c) \/ Link!HelperClosed(c)
    <2> DEFINE new == [link[c] EXCEPT !.helper = "ended"]
    <2>1. link' = [link EXCEPT ![c] = new]
      BY <1>1, <1>4 DEF Link!HelperDies, Link!HelperClosed
    <2>2. /\ new \in LinkRecords /\ new.phase = link[c].phase /\ new.child = link[c].child
          /\ new.helper = "ended" /\ new.stdout = link[c].stdout
          /\ new.owner = link[c].owner /\ new.ending = link[c].ending
          /\ new.stdin = link[c].stdin /\ new.asked = link[c].asked
          /\ new.clientLimit = link[c].clientLimit
      BY <1>1 DEF LinkRecords
    <2> HIDE DEF new
    <2>3. link[c].helper \in {"starting", "loop"}
      BY <1>4 DEF Link!HelperDies, Link!HelperClosed
    <2>4. Sound(c, new)
      BY <1>1, <2>2, <2>3 DEF Sound
    <2>5. \A t \in Readers(c) : OneAsked(c, new, task[t].id)
      BY <1>2, <2>2 DEF OneAsked
    <2> QED
      BY <1>1, <2>1, <2>2, <2>4, <2>5, LinkChanges
  <1>5. CASE Link!ChildExits(c)
    <2> DEFINE new == [link[c] EXCEPT !.child = "exited"]
    <2>1. link' = [link EXCEPT ![c] = new]
      BY <1>1, <1>5 DEF Link!ChildExits
    <2>2. /\ new \in LinkRecords /\ new.phase = link[c].phase /\ new.child = "exited"
          /\ new.helper = link[c].helper /\ new.stdout = link[c].stdout
          /\ new.owner = link[c].owner /\ new.ending = link[c].ending
          /\ new.stdin = link[c].stdin /\ new.asked = link[c].asked
          /\ new.clientLimit = link[c].clientLimit
      BY <1>1 DEF LinkRecords
    <2> HIDE DEF new
    <2>3. link[c].helper = "ended"
      BY <1>5 DEF Link!ChildExits
    <2>4. Sound(c, new)
      BY <1>1, <2>2, <2>3 DEF Sound, Quiet
    <2>5. \A t \in Readers(c) : OneAsked(c, new, task[t].id)
      BY <1>2, <2>2 DEF OneAsked
    <2> QED
      BY <1>1, <2>1, <2>2, <2>3, <2>4, <2>5, LinkChanges
  <1>6. CASE Link!PollExit(c)
    <2> DEFINE ssh == IF link[c].child = "running" THEN "killed" ELSE link[c].child
               new == [link[c] EXCEPT !.phase = "closed", !.child = ssh]
    <2>1. link' = [link EXCEPT ![c] = new] /\ link[c].phase = "closing"
      BY <1>1, <1>6 DEF Link!PollExit
    <2>2. ssh # "running" /\ ssh \in {"none", "running", "exited", "killed"}
      BY <1>1 DEF LinkRecords
    <2> HIDE DEF ssh
    <2>3. /\ new \in LinkRecords /\ new.phase = "closed" /\ new.child = ssh
          /\ new.helper = link[c].helper /\ new.owner = link[c].owner
          /\ new.clientLimit = link[c].clientLimit /\ new.helperLimit = link[c].helperLimit
      BY <1>1, <2>2 DEF LinkRecords
    <2> HIDE DEF new
    <2>4. Sound(c, new)
      BY <1>1, <2>1, <2>2, <2>3 DEF Sound
    <2> QED
      BY <1>1, <1>3, <2>1, <2>3, <2>4, LinkChanges
  <1>7. CASE Link!RuntimeDisconnect(c)
    <2> DEFINE next == IF link[c].phase = "open" THEN "closing" ELSE link[c].phase
               new == [link[c] EXCEPT !.ending = FALSE, !.phase = next]
    <2>1. link' = [link EXCEPT ![c] = new] /\ link[c].owner = Nobody
      BY <1>1, <1>7 DEF Link!RuntimeDisconnect
    <2>2. /\ next # "open"
          /\ next = link[c].phase \/ (next = "closing" /\ link[c].phase = "open")
          /\ next \in {"none", "hello", "made", "open", "failed", "closing", "closed"}
      BY <1>1 DEF LinkRecords
    <2> HIDE DEF next
    <2>3. /\ new \in LinkRecords /\ new.phase = next /\ new.child = link[c].child
          /\ new.helper = link[c].helper /\ new.stdout = link[c].stdout
          /\ new.owner = link[c].owner
          /\ new.stdin = link[c].stdin /\ new.asked = link[c].asked
          /\ new.clientLimit = link[c].clientLimit /\ new.helperLimit = link[c].helperLimit
      BY <1>1, <2>2 DEF LinkRecords
    <2> HIDE DEF new
    <2>4. Sound(c, new)
      BY <1>1, <2>2, <2>3 DEF Sound, Quiet
    <2>5. Readers(c) = {}
      BY <1>3, <2>1
    <2>6. new.phase \in {"made", "open"} /\ new.helper = "loop" => Quiet(new)
      BY <2>2, <2>3, <2>5 DEF LinkInv, StreamInv, Quiet
    <2> QED
      BY <1>1, <2>1, <2>2, <2>3, <2>4, <2>5, <2>6, LinkChanges
  <1> QED
    BY <1>4, <1>5, <1>6, <1>7

\* What a connection is apart from its phase, and from who has the lock.
SameStream(l, m) ==
    /\ m.child = l.child /\ m.helper = l.helper
    /\ m.stdin = l.stdin /\ m.asked = l.asked /\ m.stdout = l.stdout
    /\ m.clientLimit = l.clientLimit /\ m.helperLimit = l.helperLimit

\* A connection that is bound, let go of, or asked to end: those that nobody has any more
\* close, and a task that comes or goes is in no request.
LEMMA HoldersChange ==
    ASSUME LinkInv, LinkNumbers,
           link' \in [Link!Links -> LinkRecords], task' \in [Tasks -> TaskRecords],
           held' \in 0..MaxLinks, sessions' \in 0..MaxLinks, awaited' \in 0..MaxLinks,
           \A d \in Link!Links :
             /\ SameStream(link[d], link'[d]) /\ link'[d].owner = link[d].owner
             /\ \/ link'[d].phase = link[d].phase
                \/ link[d].phase = "made" /\ link'[d].phase = "open"
                \/ /\ link[d].phase \in {"made", "open"} /\ link'[d].phase = "closing"
                   /\ Readers(d) = {},
           \A t \in Tasks :
             \/ task'[t] = task[t]
             \/ /\ task[t].step \notin {"locked", "reading"}
                /\ task'[t].step \notin {"locked", "reading"}
                /\ task'[t].step # "idle" => task'[t].link \in Link!Links,
           \A d \in Link!Links :
             link'[d].phase = "open" =>
               Link!Kept(d, held, sessions)' \/ Link!Holders(d)' # {}
    PROVE  LinkInv'
  <1>1. LinkTypes'
    BY DEF LinkTypes
  <1>2. LockInv'
    BY DEF LinkInv, LockInv
  <1>3. \A d : Readers(d)' = Readers(d)
    BY DEF Readers
  <1>4. StreamInv'
    <2> SUFFICES ASSUME NEW d \in Link!Links
                 PROVE  /\ Sound(d, link'[d])
                        /\ link'[d].phase \in {"made", "open"} /\ link'[d].helper = "loop"
                           /\ Readers(d) = {} => Quiet(link'[d])
                        /\ \A t \in Readers(d) : OneAsked(d, link'[d], task'[t].id)
      BY <1>3 DEF StreamInv
    <2>1. Sound(d, link[d])
      BY DEF LinkInv, StreamInv
    <2>2. Sound(d, link'[d])
      BY <2>1 DEF Sound, SameStream, Quiet
    <2>3. link'[d].phase \in {"made", "open"} => link[d].phase \in {"made", "open"}
      OBVIOUS
    <2>4. link'[d].phase \in {"made", "open"} /\ link'[d].helper = "loop"
          /\ Readers(d) = {} => Quiet(link'[d])
      BY <2>3 DEF LinkInv, StreamInv, SameStream, Quiet
    <2>5. \A t \in Readers(d) : task'[t] = task[t] /\ OneAsked(d, link[d], task[t].id)
      BY DEF LinkInv, StreamInv, Readers
    <2>6. \A t \in Readers(d) : OneAsked(d, link'[d], task'[t].id)
      BY <2>5 DEF SameStream, OneAsked
    <2> QED
      BY <2>2, <2>4, <2>6
  <1>5. Link!NothingIsLeftRunning'
    <2> SUFFICES ASSUME NEW d \in Link!Links
                 PROVE  /\ link'[d].phase \in {"failed", "closed"} => link'[d].child # "running"
                        /\ \A t \in Link!Holders(d)' :
                             task'[t].step = "reading" => link'[d].phase = "open"
      BY DEF Link!NothingIsLeftRunning
    <2>1. link'[d].phase \in {"failed", "closed"} => link'[d].child # "running"
      BY <1>4 DEF StreamInv, Sound
    <2>2. ASSUME NEW t \in Link!Holders(d)', task'[t].step = "reading"
          PROVE  link'[d].phase = "open"
      <3>1. t \in Readers(d) /\ t \in Link!Holders(d) /\ task[t].step = "reading"
        BY <1>3, <2>2 DEF Readers, Link!Holders
      <3>2. link[d].phase = "open"
        BY <3>1 DEF LinkInv, Link!NothingIsLeftRunning
      <3> QED
        BY <3>1, <3>2
    <2> QED
      BY <2>1, <2>2
  <1> QED
    BY <1>1, <1>2, <1>4, <1>5 DEF LinkInv

\* A step of a task in a request: nobody else has the lock of its connection.
LEMMA RequestChanges ==
    ASSUME LinkInv, LinkNumbers, NEW t \in Tasks, NEW c \in Link!Links, NEW new \in LinkRecords,
           NEW doing \in TaskRecords,
           task[t].link = c, link[c].owner \in {t, Nobody},
           link' = [link EXCEPT ![c] = new], task' = [task EXCEPT ![t] = doing],
           UNCHANGED <<held, sessions, awaited>>,
           doing.link = c, doing.step \in {"locked", "reading", "finished"},
           doing.step # "finished" => new.owner = t,
           new.phase = link[c].phase, new.ending = link[c].ending,
           Sound(c, new),
           doing.step = "reading" => new.phase = "open" /\ OneAsked(c, new, doing.id),
           \/ doing.step = "reading" \/ Quiet(new)
           \/ ~(new.phase \in {"made", "open"} /\ new.helper = "loop")
    PROVE  LinkInv'
  <1>1. /\ link' \in [Link!Links -> LinkRecords] /\ link'[c] = new
        /\ \A d \in Link!Links : d # c => link'[d] = link[d]
        /\ task' \in [Tasks -> TaskRecords] /\ task'[t] = doing
        /\ \A u \in Tasks : u # t => task'[u] = task[u]
    BY DEF LinkInv, LinkTypes
  <1>2. \A u \in Tasks : u # t /\ task[u].link = c => task[u].step \notin {"locked", "reading"}
    BY DEF LinkInv, LockInv, LinkNumbers
  <1>3. LinkTypes'
    BY <1>1 DEF LinkInv, LinkTypes
  <1>4. LockInv'
    BY <1>1, <1>2 DEF LinkInv, LockInv
  <1>5. /\ \A d \in Link!Links : d # c => Readers(d)' = Readers(d)
        /\ Readers(c)' = IF doing.step = "reading" THEN {t} ELSE {}
    BY <1>1, <1>2 DEF Readers
  <1>6. StreamInv'
    <2>1. \A d \in Link!Links : d # c => t \notin Readers(d)
      BY DEF Readers
    <2> QED
      BY <1>1, <1>5, <2>1 DEF LinkInv, StreamInv, Readers
  <1>7. Link!NothingIsLeftRunning'
    <2>1. \A d \in Link!Links : Link!Holders(d)' = Link!Holders(d)
      BY <1>1 DEF Link!Holders
    <2>2. \A d \in Link!Links :
            Link!Kept(d, held, sessions)' <=> Link!Kept(d, held, sessions)
      BY <1>1 DEF Link!Kept
    <2>3. \A d \in Link!Links :
            link'[d].phase \in {"failed", "closed"} => link'[d].child # "running"
      BY <1>6 DEF StreamInv, Sound
    <2>4. \A d \in Link!Links : \A u \in Link!Holders(d)' :
            task'[u].step = "reading" => link'[d].phase = "open"
      <3> SUFFICES ASSUME NEW d \in Link!Links, NEW u \in Link!Holders(d),
                          task'[u].step = "reading"
                   PROVE  link'[d].phase = "open"
        BY <2>1
      <3>1. CASE u = t
        BY <1>1, <3>1 DEF Link!Holders
      <3>2. CASE u # t
        BY <1>1, <3>2 DEF Link!Holders, LinkInv, Link!NothingIsLeftRunning
      <3> QED
        BY <3>1, <3>2
    <2>5. \A d \in Link!Links : link'[d].phase = link[d].phase
      BY <1>1
    <2> QED
      BY <2>1, <2>2, <2>3, <2>4, <2>5 DEF LinkInv, Link!NothingIsLeftRunning
  <1> QED
    BY <1>3, <1>4, <1>6, <1>7 DEF LinkInv

\* A connection that goes to another phase, and one whose disconnect is on its way.
InPhase(l, p) == [l EXCEPT !.phase = p]
Ending(l) == [l EXCEPT !.ending = TRUE]

\* A completion, a disconnection, or a task that comes or goes decides who has a connection;
\* those that nobody has any more are closed.
LEMMA HoldersKeep ==
    ASSUME LinkInv, LinkNumbers,
           \/ \E c \in Link!Links : Link!RemoteConnected(c) \/ Link!RemoteFailed(c)
           \/ \E t \in Tasks : Link!TaskBegins(t) \/ Link!TaskEnds(t)
           \/ Link!DisconnectRemote
    PROVE  LinkInv'
  <1>1. /\ link \in [Link!Links -> LinkRecords] /\ task \in [Tasks -> TaskRecords]
        /\ held \in 0..MaxLinks /\ sessions \in 0..MaxLinks /\ awaited \in 0..MaxLinks
        /\ \A d \in Link!Links : d \in 0..MaxLinks /\ d # 0
        /\ 0 \in 0..MaxLinks
    BY DEF LinkInv, LinkTypes, Link!Links, LinkNumbers
  <1>2. \A d \in Link!Links : Readers(d) \subseteq Link!Holders(d)
    BY DEF Readers, Link!Holders
  <1>3. \A l : SameStream(l, l)
    BY DEF SameStream
  <1>4. \A l \in LinkRecords, p \in {"open", "closing"} :
            /\ InPhase(l, p) \in LinkRecords /\ SameStream(l, InPhase(l, p))
            /\ InPhase(l, p).phase = p /\ InPhase(l, p).owner = l.owner
            /\ InPhase(l, p).ending = l.ending
    BY DEF LinkRecords, SameStream, InPhase
  <1>10. \A d \in Link!Links : link[d] \in LinkRecords
    BY <1>1
  <1>5. ASSUME NEW c \in Link!Links, Link!RemoteConnected(c)
        PROVE  LinkInv'
    <2> DEFINE mid == [link EXCEPT ![c].phase = IF awaited = c THEN "open" ELSE "closing"]
    <2>1. /\ link[c].phase = "made" /\ task' = task /\ awaited' = awaited
          /\ \/ awaited = c /\ held' = c /\ sessions' \in {c, sessions}
             \/ awaited # c /\ held' = held /\ sessions' = sessions
          /\ link' = Link!Dropped(mid, held', sessions')
      BY <1>5 DEF Link!RemoteConnected
    <2>2. PICK p \in {"open", "closing"} : p = IF awaited = c THEN "open" ELSE "closing"
      OBVIOUS
    <2>10. /\ mid[c] = InPhase(link[c], p)
           /\ \A d \in Link!Links : d # c => mid[d] = link[d]
      BY <1>1, <2>2 DEF InPhase
    <2> HIDE DEF mid
    <2>11. \A d \in Link!Links : mid[d] \in LinkRecords
      BY <1>4, <1>10, <2>10
    <2>3. \A d \in Link!Links :
            link'[d] = IF /\ mid[d].phase = "open" /\ Link!Holders(d) = {}
                          /\ ~Link!Kept(d, held', sessions')
                       THEN InPhase(mid[d], "closing") ELSE mid[d]
      BY <2>1 DEF Link!Dropped, InPhase
    <2>4. DOMAIN link' = Link!Links /\ link' = [d \in Link!Links |-> link'[d]]
      BY <2>1 DEF Link!Dropped
    <2>5. link' \in [Link!Links -> LinkRecords]
      <3>1. \A d \in Link!Links : link'[d] \in LinkRecords
        BY <1>4, <2>3, <2>11
      <3> QED
        BY <2>4, <3>1
    <2>7. ASSUME NEW d \in Link!Links
          PROVE  /\ SameStream(link[d], link'[d]) /\ link'[d].owner = link[d].owner
                 /\ link'[d].ending = link[d].ending
                 /\ \/ link'[d].phase = link[d].phase
                    \/ link[d].phase = "made" /\ link'[d].phase = "open"
                    \/ /\ link[d].phase \in {"made", "open"} /\ link'[d].phase = "closing"
                       /\ Readers(d) = {}
      <3>1. CASE d = c
        <4>1. Link!Kept(c, held', sessions')
          BY <2>1 DEF Link!Kept
        <4>2. link'[c] = InPhase(link[c], p)
          BY <2>3, <2>10, <4>1
        <4>3. Readers(c) = {}
          BY <1>2, <2>1 DEF Readers, LinkInv, Link!NothingIsLeftRunning
        <4> QED
          BY <1>4, <1>10, <2>1, <3>1, <4>2, <4>3
      <3>2. CASE d # c
        <4>1. \/ link'[d] = link[d]
              \/ /\ link[d].phase = "open" /\ Link!Holders(d) = {}
                 /\ link'[d] = InPhase(link[d], "closing")
          BY <2>3, <2>10, <3>2
        <4> QED
          BY <1>2, <1>3, <1>4, <1>10, <4>1
      <3> QED
        BY <3>1, <3>2
    <2>8. ASSUME NEW d \in Link!Links, link'[d].phase = "open"
          PROVE  Link!Kept(d, held, sessions)' \/ Link!Holders(d)' # {}
      <3>1. CASE d = c
        <4>1. awaited = c
          <5>1. Link!Kept(c, held', sessions')
            BY <2>1 DEF Link!Kept
          <5> QED
            <6>1. link'[c] = InPhase(link[c], p)
              BY <2>3, <2>10, <5>1
            <6>2. p = "open"
              BY <1>4, <1>10, <2>8, <3>1, <6>1
            <6> QED
              BY <2>2, <6>2
        <4> QED
          BY <2>1, <3>1, <4>1 DEF Link!Kept
      <3>2. CASE d # c
        <4>1. Link!Holders(d) # {} \/ Link!Kept(d, held', sessions')
          BY <1>4, <1>10, <2>3, <2>8, <2>10, <2>11, <3>2
        <4>2. link'[d] = link[d]
          BY <1>4, <1>10, <2>3, <2>8, <2>10, <2>11, <3>2
        <4>3. Link!Holders(d)' = Link!Holders(d)
          BY <2>1 DEF Link!Holders
        <4> QED
          BY <4>1, <4>2, <4>3 DEF Link!Kept
      <3> QED
        BY <3>1, <3>2
    <2>9. held' \in 0..MaxLinks /\ sessions' \in 0..MaxLinks /\ awaited' \in 0..MaxLinks
          /\ task' \in [Tasks -> TaskRecords]
      BY <1>1, <2>1
    <2> QED
      BY <2>1, <2>5, <2>7, <2>8, <2>9, HoldersChange
  <1>6. ASSUME NEW c \in Link!Links, Link!RemoteFailed(c)
        PROVE  LinkInv'
    <2>1. /\ held' = 0 /\ awaited' = 0 /\ sessions' = sessions /\ task' = task
          /\ link' = Link!Dropped(link, 0, sessions)
      BY <1>6 DEF Link!RemoteFailed
    <2>2. \A d \in Link!Links :
            \/ /\ link[d].phase = "open" /\ Link!Holders(d) = {}
               /\ link'[d] = InPhase(link[d], "closing")
            \/ /\ link'[d] = link[d]
               /\ link[d].phase = "open" =>
                    Link!Holders(d) # {} \/ Link!Kept(d, 0, sessions)
      BY <2>1 DEF Link!Dropped, InPhase
    <2>4. link' \in [Link!Links -> LinkRecords]
      <3>1. \A d \in Link!Links : link'[d] \in LinkRecords
        BY <1>4, <1>10, <2>2
      <3>2. link' = [d \in Link!Links |-> link'[d]]
        BY <2>1 DEF Link!Dropped
      <3> QED
        BY <3>1, <3>2
    <2>5. \A d \in Link!Links :
            /\ SameStream(link[d], link'[d]) /\ link'[d].owner = link[d].owner
            /\ \/ link'[d].phase = link[d].phase
               \/ /\ link[d].phase \in {"made", "open"} /\ link'[d].phase = "closing"
                  /\ Readers(d) = {}
      BY <1>2, <1>3, <1>4, <1>10, <2>2
    <2>6. \A d \in Link!Links : link'[d].phase = "open" =>
            Link!Kept(d, held, sessions)' \/ Link!Holders(d)' # {}
      <3>1. \A d : Link!Holders(d)' = Link!Holders(d)
        BY <2>1 DEF Link!Holders
      <3>2. \A d \in Link!Links : link'[d].phase = "open" =>
              link'[d] = link[d] /\ (Link!Holders(d) # {} \/ Link!Kept(d, 0, sessions))
        BY <1>4, <1>10, <2>2
      <3> QED
        BY <2>1, <3>1, <3>2 DEF Link!Kept
    <2> QED
      BY <1>1, <2>1, <2>4, <2>5, <2>6, HoldersChange
  <1>7. ASSUME NEW t \in Tasks, Link!TaskBegins(t)
        PROVE  LinkInv'
    <2>1. PICK c \in {held, sessions} \ {0} :
            task' = [task EXCEPT ![t] = [step |-> "wants", link |-> c, id |-> 0]]
      BY <1>7 DEF Link!TaskBegins
    <2>2. /\ task[t] = Link!NoTask /\ UNCHANGED <<link, held, sessions, awaited>>
          /\ c \in Link!Links
      BY <1>1, <1>7 DEF Link!TaskBegins, Link!desktop, Link!Links, LinkNumbers
    <2>3. /\ task' \in [Tasks -> TaskRecords] /\ task'[t].step = "wants" /\ task'[t].link = c
          /\ \A u \in Tasks : u # t => task'[u] = task[u]
          /\ task[t].step = "idle" /\ task[t].link = 0
      BY <1>1, <2>1, <2>2 DEF TaskRecords, Link!NoTask
    <2>4. \A d \in Link!Links : Link!Holders(d) \subseteq Link!Holders(d)'
      BY <1>1, <2>3 DEF Link!Holders
    <2>5. \A d \in Link!Links : link'[d].phase = "open" =>
            Link!Kept(d, held, sessions)' \/ Link!Holders(d)' # {}
      BY <2>2, <2>4 DEF LinkInv, Link!NothingIsLeftRunning, Link!Kept
    <2>6. \A u \in Tasks :
             \/ task'[u] = task[u]
             \/ /\ task[u].step \notin {"locked", "reading"}
                /\ task'[u].step \notin {"locked", "reading"}
                /\ task'[u].step # "idle" => task'[u].link \in Link!Links
      BY <2>2, <2>3
    <2> QED
      BY <1>1, <1>3, <2>2, <2>3, <2>5, <2>6, HoldersChange
  <1>8. ASSUME NEW t \in Tasks, Link!TaskEnds(t)
        PROVE  LinkInv'
    <2>1. /\ task[t].step = "finished" /\ task' = [task EXCEPT ![t] = Link!NoTask]
          /\ UNCHANGED <<held, sessions, awaited>>
      BY <1>8 DEF Link!TaskEnds, Link!desktop
    <2>2. \A d \in Link!Links :
            \/ /\ link[d].phase = "open" /\ Link!Holders(d) = {t}
               /\ link'[d] = InPhase(link[d], "closing")
            \/ /\ link'[d] = link[d]
               /\ link[d].phase = "open" =>
                    Link!Holders(d) # {t} \/ Link!Kept(d, held, sessions)
      BY <1>8 DEF Link!TaskEnds, InPhase
    <2>4. link' \in [Link!Links -> LinkRecords]
      <3>1. \A d \in Link!Links : link'[d] \in LinkRecords
        BY <1>4, <1>10, <2>2
      <3>2. link' = [d \in Link!Links |-> link'[d]]
        BY <1>8 DEF Link!TaskEnds
      <3> QED
        BY <3>1, <3>2
    <2>5. /\ task' \in [Tasks -> TaskRecords] /\ task'[t].step = "idle"
          /\ \A u \in Tasks : u # t => task'[u] = task[u]
      BY <1>1, <2>1 DEF TaskRecords, Link!NoTask
    <2>6. \A d \in Link!Links : t \notin Readers(d)
      BY <2>1 DEF Readers
    <2>7. \A d \in Link!Links :
            /\ SameStream(link[d], link'[d]) /\ link'[d].owner = link[d].owner
            /\ \/ link'[d].phase = link[d].phase
               \/ /\ link[d].phase \in {"made", "open"} /\ link'[d].phase = "closing"
                  /\ Readers(d) = {}
      <3>1. ASSUME NEW d \in Link!Links, Link!Holders(d) = {t}
            PROVE  Readers(d) = {}
        BY <1>2, <2>6, <3>1
      <3> QED
        BY <1>3, <1>4, <1>10, <2>2, <3>1
    <2>8. ASSUME NEW d \in Link!Links, link'[d].phase = "open"
          PROVE  Link!Kept(d, held, sessions)' \/ Link!Holders(d)' # {}
      <3>1. link'[d] = link[d] /\ (Link!Holders(d) # {t} \/ Link!Kept(d, held, sessions))
        BY <1>4, <1>10, <2>2, <2>8
      <3>2. Link!Holders(d) # {} \/ Link!Kept(d, held, sessions)
        BY <2>8, <3>1 DEF LinkInv, Link!NothingIsLeftRunning
      <3>3. Link!Holders(d) \ {t} \subseteq Link!Holders(d)'
        BY <2>5 DEF Link!Holders
      <3>4. CASE Link!Kept(d, held, sessions)
        BY <2>1, <3>1, <3>4 DEF Link!Kept
      <3>5. CASE Link!Holders(d) \ {t} # {}
        BY <3>3, <3>5
      <3> QED
        BY <3>1, <3>2, <3>4, <3>5
    <2>9. \A u \in Tasks :
             \/ task'[u] = task[u]
             \/ /\ task[u].step \notin {"locked", "reading"}
                /\ task'[u].step \notin {"locked", "reading"}
                /\ task'[u].step # "idle" => task'[u].link \in Link!Links
      BY <2>1, <2>5
    <2> QED
      BY <1>1, <2>1, <2>4, <2>5, <2>7, <2>8, <2>9, HoldersChange
  <1>9. ASSUME Link!DisconnectRemote
        PROVE  LinkInv'
    <2>1. /\ held' = 0 /\ awaited' = 0 /\ sessions' = sessions /\ task' = task
          /\ held = 0 => link' = link
          /\ held # 0 => link' = [link EXCEPT ![held].ending = TRUE]
      BY <1>9 DEF Link!DisconnectRemote
    <2>2. \A l \in LinkRecords :
            /\ Ending(l) \in LinkRecords /\ SameStream(l, Ending(l))
            /\ Ending(l).phase = l.phase /\ Ending(l).owner = l.owner /\ Ending(l).ending
      BY DEF LinkRecords, SameStream, Ending
    <2>3. \A d \in Link!Links :
            \/ link'[d] = link[d] /\ d # held
            \/ link'[d] = Ending(link[d])
      BY <1>1, <2>1 DEF Ending
    <2>5. link' \in [Link!Links -> LinkRecords]
      <3>1. \A d \in Link!Links : link'[d] \in LinkRecords
        BY <1>10, <2>2, <2>3
      <3>2. link' = [d \in Link!Links |-> link'[d]]
        BY <1>1, <2>1
      <3> QED
        BY <3>1, <3>2
    <2>6. \A d \in Link!Links :
            /\ SameStream(link[d], link'[d]) /\ link'[d].owner = link[d].owner
            /\ link'[d].phase = link[d].phase
      BY <1>3, <1>10, <2>2, <2>3
    <2>7. ASSUME NEW d \in Link!Links, link'[d].phase = "open"
          PROVE  Link!Kept(d, held, sessions)' \/ Link!Holders(d)' # {}
      <3>1. Link!Kept(d, held, sessions) \/ Link!Holders(d) # {}
        BY <2>6, <2>7 DEF LinkInv, Link!NothingIsLeftRunning
      <3>2. Link!Holders(d)' = Link!Holders(d)
        BY <2>1 DEF Link!Holders
      <3>3. link'[d].ending \/ (link'[d] = link[d] /\ d # held)
        BY <1>10, <2>2, <2>3
      <3> QED
        BY <2>1, <3>1, <3>2, <3>3 DEF Link!Kept
    <2> QED
      BY <1>1, <2>1, <2>5, <2>6, <2>7, HoldersChange
  <1> QED
    BY <1>5, <1>6, <1>7, <1>8, <1>9

\* A task takes the lock, writes its request, and reads the answer or finds the stream ended.
LEMMA RequestKeeps ==
    ASSUME LinkInv, LinkNumbers, NEW t \in Tasks,
           Link!Locks(t) \/ Link!WriteRequest(t) \/ Link!ReadResponse(t)
    PROVE  LinkInv'
  <1>1. PICK c : c = task[t].link
    OBVIOUS
  <1>2. /\ link \in [Link!Links -> LinkRecords] /\ task \in [Tasks -> TaskRecords]
        /\ task[t] \in TaskRecords /\ task[t].step \in {"wants", "locked", "reading"}
        /\ c \in Link!Links /\ link[c] \in LinkRecords
        /\ Sound(c, link[c]) /\ c \in Nat /\ Nobody # t
        /\ UNCHANGED <<held, sessions, awaited>>
    <2>1. task[t].step \in {"wants", "locked", "reading"} /\ UNCHANGED <<held, sessions, awaited>>
      BY DEF Link!Locks, Link!WriteRequest, Link!ReadResponse, Link!desktop
    <2>2. c \in Link!Links
      BY <1>1, <2>1 DEF LinkInv, LockInv
    <2>3. c \in Nat /\ Nobody # t
      BY <2>2 DEF LinkNumbers, Link!Links
    <2> QED
      BY <2>1, <2>2, <2>3 DEF LinkInv, LinkTypes, StreamInv
  <1>3. \A f : /\ Tail(<<f>>) = <<>> /\ <<f>> # <<>>
               /\ Append(<<>>, f) = <<f>> /\ (f \in Frames => <<f>> \in Seq(Frames))
    OBVIOUS
  <1>4. CASE Link!Locks(t)
    <2> DEFINE new == [link[c] EXCEPT !.owner = t]
               doing == [task[t] EXCEPT !.step = "locked"]
    <2>1. /\ link' = [link EXCEPT ![c] = new] /\ task' = [task EXCEPT ![t] = doing]
          /\ link[c].owner = Nobody
      BY <1>1, <1>2, <1>4 DEF Link!Locks
    <2>2. /\ new \in LinkRecords /\ new.phase = link[c].phase /\ SameStream(link[c], new)
          /\ new.owner = t /\ new.ending = link[c].ending
      BY <1>2 DEF LinkRecords, SameStream
    <2>3. doing \in TaskRecords /\ doing.step = "locked" /\ doing.link = c
      BY <1>1, <1>2 DEF TaskRecords
    <2> HIDE DEF new, doing
    <2>4. Readers(c) = {}
      BY <2>1 DEF Readers, LinkInv, LockInv, LinkNumbers
    <2>5. Sound(c, new)
      BY <1>2, <2>2 DEF Sound, SameStream, Quiet
    <2>6. Quiet(new) \/ ~(new.phase \in {"made", "open"} /\ new.helper = "loop")
      BY <1>2, <2>2, <2>4 DEF LinkInv, StreamInv, SameStream, Quiet
    <2> QED
      BY <1>1, <1>2, <2>1, <2>2, <2>3, <2>5, <2>6, RequestChanges
  <1>5. CASE Link!WriteRequest(t)
    <2>1. task[t].step = "locked" /\ link[c].owner = t /\ Link!Released(c, t) = Nobody
      BY <1>1, <1>5 DEF Link!WriteRequest, LinkInv, LockInv, Link!Released
    <2>2. Readers(c) = {}
      BY <2>1 DEF Readers, LinkInv, LockInv
    <2>3. PICK size \in Sizes :
            IF size <= link[c].clientLimit /\ Link!Alive(c)
              THEN /\ link' = [link EXCEPT ![c] =
                         [link[c] EXCEPT !.next = @ + 1,
                                   !.stdin = Append(@, Link!Frame(size, link[c].next, c))]]
                   /\ task' = [task EXCEPT ![t] =
                         [@ EXCEPT !.step = "reading", !.id = link[c].next]]
              ELSE /\ link' = [link EXCEPT ![c] =
                         [link[c] EXCEPT !.next = @ + 1, !.owner = Link!Released(c, t)]]
                   /\ task' = [task EXCEPT ![t].step = "finished"]
      BY <1>1, <1>5 DEF Link!WriteRequest
    <2>4. link[c].next \in Nat /\ link[c].next + 1 \in Nat
      BY <1>2 DEF LinkRecords
    <2>5. CASE size <= link[c].clientLimit /\ Link!Alive(c)
      <3> DEFINE id == link[c].next
                 f == Link!Frame(size, id, c)
                 new == [link[c] EXCEPT !.next = @ + 1, !.stdin = Append(@, f)]
                 doing == [task[t] EXCEPT !.step = "reading", !.id = id]
      <3>1. link' = [link EXCEPT ![c] = new] /\ task' = [task EXCEPT ![t] = doing]
        BY <1>2, <2>3, <2>5
      <3>2. f \in Frames /\ f.id = id
        BY <1>2, <2>4 DEF Frames, Link!Frame, LinkNumbers
      <3> HIDE DEF f
      <3>3. /\ Quiet(link[c]) /\ link[c].phase = "open" /\ link[c].helper = "loop"
            /\ link[c].child = "running"
        BY <1>2, <2>2, <2>5 DEF LinkInv, StreamInv, Link!Alive
      <3>4. Append(link[c].stdin, f) = <<f>> /\ <<f>> \in Seq(Frames)
        BY <1>3, <3>2, <3>3 DEF Quiet
      <3>5. /\ new \in LinkRecords /\ new.phase = "open" /\ new.child = "running"
            /\ new.helper = "loop" /\ new.stdin = <<f>> /\ new.asked = {}
            /\ new.stdout = <<>> /\ new.owner = t /\ new.ending = link[c].ending
            /\ new.clientLimit = link[c].clientLimit /\ new.helperLimit = link[c].helperLimit
        BY <1>2, <2>1, <2>4, <3>3, <3>4 DEF LinkRecords, Quiet
      <3>6. /\ doing \in TaskRecords /\ doing.step = "reading" /\ doing.link = c
            /\ doing.id = id
        BY <1>1, <1>2, <2>4 DEF TaskRecords
      <3> HIDE DEF new, doing
      <3>7. Sound(c, new)
        BY <1>2, <3>3, <3>5 DEF Sound
      <3>8. OneAsked(c, new, doing.id)
        BY <3>2, <3>5, <3>6 DEF OneAsked
      <3> QED
        BY <1>1, <1>2, <2>1, <3>1, <3>3, <3>5, <3>6, <3>7, <3>8, RequestChanges
    <2>6. CASE ~(size <= link[c].clientLimit /\ Link!Alive(c))
      <3> DEFINE new == [link[c] EXCEPT !.next = @ + 1, !.owner = Nobody]
                 doing == [task[t] EXCEPT !.step = "finished"]
      <3>1. link' = [link EXCEPT ![c] = new] /\ task' = [task EXCEPT ![t] = doing]
        BY <1>2, <2>1, <2>3, <2>6
      <3>2. /\ new \in LinkRecords /\ new.phase = link[c].phase /\ SameStream(link[c], new)
            /\ new.ending = link[c].ending
        BY <1>2, <2>4 DEF LinkRecords, SameStream
      <3>3. doing \in TaskRecords /\ doing.step = "finished" /\ doing.link = c
        BY <1>1, <1>2 DEF TaskRecords
      <3> HIDE DEF new, doing
      <3>4. Sound(c, new)
        BY <1>2, <3>2 DEF Sound, SameStream, Quiet
      <3>5. Quiet(new) \/ ~(new.phase \in {"made", "open"} /\ new.helper = "loop")
        BY <1>2, <2>2, <3>2 DEF LinkInv, StreamInv, SameStream, Quiet
      <3> QED
        BY <1>1, <1>2, <2>1, <3>1, <3>2, <3>3, <3>4, <3>5, RequestChanges
    <2> QED
      BY <2>5, <2>6
  <1>6. CASE Link!ReadResponse(t)
    <2>1. /\ task[t].step = "reading" /\ link[c].owner = t /\ Link!Released(c, t) = Nobody
          /\ t \in Readers(c) /\ OneAsked(c, link[c], task[t].id)
          /\ link[c].stdout # <<>> \/ ~Link!Alive(c)
      BY <1>1, <1>2, <1>6 DEF Link!ReadResponse, LinkInv, LockInv, StreamInv, Link!Released,
                              Readers
    <2>2. link[c].phase = "open"
      BY <1>2, <2>1 DEF LinkInv, Link!NothingIsLeftRunning, Readers, Link!Holders
    <2>3. PICK rest \in Seq(Frames) :
            rest = IF link[c].stdout = <<>> THEN link[c].stdout ELSE Tail(link[c].stdout)
      <3>1. link[c].stdout \in Seq(Frames)
        BY <1>2 DEF LinkRecords
      <3>2. link[c].stdout # <<>> => Tail(link[c].stdout) \in Seq(Frames)
        BY <3>1
      <3> QED
        BY <3>1, <3>2
    <2> DEFINE new == [link[c] EXCEPT !.owner = Nobody, !.stdout = rest]
               doing == [task[t] EXCEPT !.step = "finished"]
    <2>4. link' = [link EXCEPT ![c] = new] /\ task' = [task EXCEPT ![t] = doing]
      BY <1>1, <1>6, <2>1, <2>3 DEF Link!ReadResponse
    <2>5. /\ new \in LinkRecords /\ new.phase = "open" /\ new.child = link[c].child
          /\ new.helper = link[c].helper /\ new.stdin = link[c].stdin
          /\ new.asked = link[c].asked /\ new.stdout = rest /\ new.ending = link[c].ending
          /\ new.clientLimit = link[c].clientLimit /\ new.helperLimit = link[c].helperLimit
      BY <1>2, <2>2, <2>3 DEF LinkRecords
    <2>6. doing \in TaskRecords /\ doing.step = "finished" /\ doing.link = c
      BY <1>1, <1>2 DEF TaskRecords
    <2> HIDE DEF new, doing
    <2>7. Sound(c, new)
      BY <1>2, <2>2, <2>5 DEF Sound
    <2>8. Quiet(new) \/ new.helper # "loop"
      <3>1. CASE link[c].stdout # <<>>
        BY <1>3, <2>1, <2>3, <2>5, <3>1 DEF OneAsked, Quiet
      <3>2. CASE link[c].stdout = <<>>
        BY <1>2, <2>1, <2>2, <2>5, <3>2 DEF Link!Alive, Sound
      <3> QED
        BY <3>1, <3>2
    <2> QED
      BY <1>1, <1>2, <2>1, <2>2, <2>4, <2>5, <2>6, <2>7, <2>8, RequestChanges
  <1> QED
    BY <1>4, <1>5, <1>6

\* No connection is made at the start, and every step keeps the invariant (client.rs:
\* OpenSshClient, HelperClient; remote.rs, app.rs: who has a connection).
LEMMA LinkIsInductive ==
    ASSUME LinkNumbers
    PROVE  /\ Link!LinkInit => LinkInv
           /\ LinkInv /\ [Link!LinkNext]_(Link!linkVars) => LinkInv'
           /\ LinkInv => Link!AnswersInStep
  <1>1. ASSUME Link!LinkInit PROVE LinkInv
    <2>1. /\ \A c \in Link!Links : link[c] = Link!NoLink
          /\ \A t \in Tasks : task[t] = Link!NoTask
          /\ held = 0 /\ sessions = 0 /\ awaited = 0 /\ 0 \in 0..MaxLinks
          /\ 0 \notin Link!Links
      BY <1>1 DEF Link!LinkInit, LinkNumbers, Link!Links
    <2>2. Link!NoLink \in LinkRecords
      BY DEF Link!NoLink, LinkRecords
    <2>3. Link!NoTask \in TaskRecords
      BY <2>1 DEF Link!NoTask, TaskRecords
    <2>4. LinkTypes
      BY <1>1, <2>1, <2>2, <2>3 DEF Link!LinkInit, LinkTypes
    <2>5. LockInv /\ \A c \in Link!Links : Readers(c) = {} /\ Link!Holders(c) = {}
      BY <2>1 DEF LockInv, Readers, Link!Holders, Link!NoTask
    <2>6. StreamInv
      BY <2>1, <2>5 DEF StreamInv, Sound, Quiet, Link!NoLink
    <2>7. Link!NothingIsLeftRunning
      BY <2>1, <2>5 DEF Link!NothingIsLeftRunning, Link!NoLink
    <2> QED
      BY <2>4, <2>5, <2>6, <2>7 DEF LinkInv
  <1>2. ASSUME LinkInv, Link!LinkNext PROVE LinkInv'
    BY <1>2, ConnectKeeps, NegotiateKeeps, HelperKeeps, EndingKeeps, HoldersKeep, RequestKeeps
    DEF Link!LinkNext
  <1>3. ASSUME LinkInv, UNCHANGED Link!linkVars PROVE LinkInv'
    <2>1. UNCHANGED <<link, held, sessions, awaited, task>>
      BY <1>3 DEF Link!linkVars
    <2>2. \A c : Readers(c)' = Readers(c) /\ Link!Holders(c)' = Link!Holders(c)
      BY <2>1 DEF Readers, Link!Holders
    <2> QED
      BY <1>3, <2>1, <2>2 DEF LinkInv, LinkTypes, LockInv, StreamInv, Link!NothingIsLeftRunning,
                              Link!Kept
  <1>4. ASSUME LinkInv PROVE Link!AnswersInStep
    <2> SUFFICES ASSUME NEW t \in Tasks, task[t].step = "reading",
                        link[task[t].link].stdout # <<>>
                 PROVE  /\ Head(link[task[t].link].stdout).id = task[t].id
                        /\ Head(link[task[t].link].stdout).generation = task[t].link
                        /\ \A i \in DOMAIN link[task[t].link].stdout :
                             link[task[t].link].stdout[i].size <= link[task[t].link].clientLimit
      BY DEF Link!AnswersInStep
    <2>1. PICK c : c = task[t].link
      OBVIOUS
    <2>2. c \in Link!Links /\ t \in Readers(c) /\ Sound(c, link[c])
      BY <1>4, <2>1 DEF LinkInv, LockInv, StreamInv, Readers
    <2>3. link[c].phase = "open"
      BY <1>4, <2>1, <2>2 DEF LinkInv, Link!NothingIsLeftRunning, Link!Holders
    <2>4. PICK f \in Frames : /\ f.id = task[t].id /\ f.generation = c /\ f.size <= Agreed
                              /\ link[c].stdout = <<f>>
      BY <1>4, <2>1, <2>2 DEF LinkInv, StreamInv, OneAsked
    <2>5. Head(<<f>>) = f /\ DOMAIN <<f>> = {1} /\ <<f>>[1] = f
      OBVIOUS
    <2> QED
      BY <2>1, <2>2, <2>3, <2>4, <2>5 DEF Sound
  <1> QED
    BY <1>1, <1>2, <1>3, <1>4

\* The types of the invariant are those of the model.
LEMMA LinkIsTyped ==
    ASSUME LinkNumbers, LinkInv
    PROVE  Link!LinkTypeOK
  <1>1. ASSUME NEW c \in Link!Links
        PROVE  /\ link[c].phase \in {"none", "hello", "made", "open", "failed", "closing", "closed"}
               /\ link[c].owner \in Tasks \cup {Nobody}
               /\ \A i \in DOMAIN link[c].stdout : link[c].stdout[i].size \in Sizes \cup {0, 1}
    <2>1. link[c] \in LinkRecords
      BY DEF LinkInv, LinkTypes
    <2>2. link[c].stdout \in Seq(Frames)
      BY <2>1 DEF LinkRecords
    <2>3. \A i \in DOMAIN link[c].stdout : link[c].stdout[i] \in Frames
      BY <2>2
    <2> QED
      BY <2>1, <2>3 DEF LinkRecords, Frames
  <1>2. \A t \in Tasks : task[t].step \in {"idle", "wants", "locked", "reading", "finished"}
    BY DEF LinkInv, LinkTypes, TaskRecords
  <1> QED
    BY <1>1, <1>2 DEF LinkInv, LinkTypes, Link!LinkTypeOK

-----------------------------------------------------------------------------
(* The output of a task.                                                    *)

\* The bytes after the a-th one up to the b-th one.
Chunk(a, b) == [n \in 1..(b - a) |-> a + n]

\* A chunk is a sequence of as many bytes.
LEMMA ChunkIs ==
    ASSUME NEW a \in Nat, NEW b \in Nat, a <= b
    PROVE  /\ Chunk(a, b) \in Seq(Nat)
           /\ Len(Chunk(a, b)) = b - a
           /\ \A n \in 1..(b - a) : Chunk(a, b)[n] = a + n
  <1>1. b - a \in Nat /\ \A n \in 1..(b - a) : a + n \in Nat
    OBVIOUS
  <1> QED
    BY <1>1 DEF Chunk

\* A sequence of the same bytes is the chunk.
LEMMA ChunkIfAlike ==
    ASSUME NEW a \in Nat, NEW b \in Nat, a <= b, NEW s \in Seq(Nat), Len(s) = b - a,
           \A n \in 1..(b - a) : s[n] = a + n
    PROVE  s = Chunk(a, b)
  <1>1. /\ Chunk(a, b) \in Seq(Nat) /\ Len(s) = Len(Chunk(a, b))
        /\ \A n \in 1..Len(s) : s[n] = Chunk(a, b)[n]
    BY ChunkIs
  <1> HIDE DEF Chunk
  <1> QED
    BY <1>1, SeqEqual

\* A chunk after the one it follows is one chunk.
LEMMA ChunksJoin ==
    ASSUME NEW a \in Nat, NEW b \in Nat, NEW c \in Nat, a <= b, b <= c
    PROVE  Chunk(a, b) \o Chunk(b, c) = Chunk(a, c)
  <1> DEFINE s == Chunk(a, b)
             t == Chunk(b, c)
  <1>1. /\ s \in Seq(Nat) /\ Len(s) = b - a /\ \A n \in 1..(b - a) : s[n] = a + n
        /\ t \in Seq(Nat) /\ Len(t) = c - b /\ \A n \in 1..(c - b) : t[n] = b + n
    BY ChunkIs
  <1> HIDE DEF s, t
  <1>2. /\ s \o t \in Seq(Nat) /\ Len(s \o t) = c - a
        /\ \A n \in 1..(c - a) : (s \o t)[n] = IF n <= b - a THEN s[n] ELSE t[n - (b - a)]
    <2>1. /\ s \o t \in Seq(Nat) /\ Len(s \o t) = Len(s) + Len(t)
          /\ \A n \in 1..(Len(s) + Len(t)) :
               (s \o t)[n] = IF n <= Len(s) THEN s[n] ELSE t[n - Len(s)]
      BY <1>1, ConcatProperties
    <2>2. Len(s) + Len(t) = c - a
      BY <1>1
    <2> QED
      BY <1>1, <2>1, <2>2
  <1>3. ASSUME NEW n \in 1..(c - a)
        PROVE  (s \o t)[n] = a + n
    <2>1. CASE n <= b - a
      <3>1. n \in 1..(b - a)
        BY <2>1
      <3> QED
        BY <1>1, <1>2, <2>1, <3>1
    <2>2. CASE ~(n <= b - a)
      <3>1. n - (b - a) \in 1..(c - b) /\ b + (n - (b - a)) = a + n
        BY <2>2
      <3> QED
        BY <1>1, <1>2, <2>2, <3>1
    <2> QED
      BY <2>1, <2>2
  <1>4. a <= c
    OBVIOUS
  <1>5. s \o t = Chunk(a, c)
    BY <1>2, <1>3, <1>4, ChunkIfAlike
  <1> QED
    BY <1>5 DEF s, t

\* A chunk that is cut is two.
LEMMA ChunkIsCut ==
    ASSUME NEW a \in Nat, NEW b \in Nat, a <= b, NEW r \in 0..(b - a)
    PROVE  /\ SubSeq(Chunk(a, b), 1, r) = Chunk(a, a + r)
           /\ SubSeq(Chunk(a, b), r + 1, Len(Chunk(a, b))) = Chunk(a + r, b)
  <1> DEFINE s == Chunk(a, b)
             front == SubSeq(s, 1, r)
             rest == SubSeq(s, r + 1, b - a)
  <1>1. s \in Seq(Nat) /\ Len(s) = b - a /\ \A n \in 1..(b - a) : s[n] = a + n
    BY ChunkIs
  <1> HIDE DEF s
  <1>2. \A i \in 1..(b - a) : s[i] \in Nat
    BY <1>1
  <1>3. front = Chunk(a, a + r)
    <2>1. /\ front \in Seq(Nat) /\ Len(front) = IF 1 <= r THEN r - 1 + 1 ELSE 0
          /\ \A i \in 1..(r - 1 + 1) : front[i] = s[1 + i - 1]
      <3>1. 1 \in Int /\ r \in Int /\ \A i \in 1..r : s[i] \in Nat
        BY <1>2
      <3> QED
        BY <3>1, SubSeqProperties
    <2>2. /\ a + r \in Nat /\ a <= a + r /\ Len(front) = (a + r) - a
          /\ \A i \in 1..((a + r) - a) : front[i] = a + i
      BY <1>1, <2>1
    <2> HIDE DEF front
    <2> QED
      BY <2>1, <2>2, ChunkIfAlike
  <1>4. rest = Chunk(a + r, b)
    <2>1. /\ rest \in Seq(Nat) /\ Len(rest) = IF r + 1 <= b - a THEN (b - a) - (r + 1) + 1 ELSE 0
          /\ \A i \in 1..((b - a) - (r + 1) + 1) : rest[i] = s[r + 1 + i - 1]
      <3>1. r + 1 \in Int /\ b - a \in Int /\ \A i \in (r + 1)..(b - a) : s[i] \in Nat
        BY <1>2
      <3> QED
        BY <3>1, SubSeqProperties
    <2>2. /\ a + r \in Nat /\ a + r <= b /\ Len(rest) = b - (a + r)
      BY <2>1
    <2>3. ASSUME NEW i \in 1..(b - (a + r))
          PROVE  rest[i] = (a + r) + i
      <3>1. /\ i \in 1..((b - a) - (r + 1) + 1) /\ r + 1 + i - 1 \in 1..(b - a)
            /\ a + (r + 1 + i - 1) = (a + r) + i
        OBVIOUS
      <3> HIDE DEF rest
      <3> QED
        BY <1>1, <2>1, <3>1
    <2> HIDE DEF rest
    <2> QED
      BY <2>1, <2>2, <2>3, ChunkIfAlike
  <1> QED
    BY <1>1, <1>3, <1>4 DEF s

\* A queue holds the bytes after the a-th one up to the b-th one, in chunks.
Queued(q, a, b) ==
    /\ q \in Seq(Seq(Nat))
    /\ \E cut \in [0..Len(q) -> Nat] :
         /\ cut[0] = a /\ cut[Len(q)] = b
         /\ \A k \in 1..Len(q) : cut[k - 1] <= cut[k] /\ q[k] = Chunk(cut[k - 1], cut[k])

\* An empty queue holds no byte.
LEMMA QueueIsEmpty ==
    ASSUME NEW a \in Nat
    PROVE  Queued(<< >>, a, a)
  <1> DEFINE cut == [k \in 0..0 |-> a]
  <1>1. << >> \in Seq(Seq(Nat)) /\ Len(<< >>) = 0
    OBVIOUS
  <1>2. cut \in [0..0 -> Nat] /\ cut[0] = a
    OBVIOUS
  <1> HIDE DEF cut
  <1> QED
    BY <1>1, <1>2 DEF Queued

\* Nothing else is held by an empty queue.
LEMMA EmptyQueueIs ==
    ASSUME NEW a, NEW b, Queued(<< >>, a, b)
    PROVE  a = b
  BY DEF Queued

\* The first chunk begins at the first byte, and the others go on.
LEMMA QueueHead ==
    ASSUME NEW q, NEW a \in Nat, NEW b \in Nat, Queued(q, a, b), q # << >>
    PROVE  \E c \in Nat : a <= c /\ Head(q) = Chunk(a, c) /\ Queued(Tail(q), c, b)
  <1>1. PICK cut \in [0..Len(q) -> Nat] :
          /\ cut[0] = a /\ cut[Len(q)] = b
          /\ \A k \in 1..Len(q) : cut[k - 1] <= cut[k] /\ q[k] = Chunk(cut[k - 1], cut[k])
    BY DEF Queued
  <1>2. q \in Seq(Seq(Nat)) /\ Len(q) \in Nat /\ Len(q) >= 1
    BY DEF Queued
  <1>3. /\ Head(q) = q[1] /\ Tail(q) \in Seq(Seq(Nat)) /\ Len(Tail(q)) = Len(q) - 1
        /\ \A i \in 1..Len(Tail(q)) : Tail(q)[i] = q[i + 1]
    <2>1. Head(q) = q[1]
      BY <1>2
    <2> QED
      BY <1>2, <2>1, HeadTailProperties
  <1> DEFINE n == Len(q) - 1
             later == [k \in 0..n |-> cut[k + 1]]
  <1>4. 1 \in 0..Len(q) /\ 1 \in 1..Len(q) /\ n \in Nat
    BY <1>2
  <1>5. cut[1] \in Nat /\ a <= cut[1] /\ Head(q) = Chunk(a, cut[1])
    <2>1. cut[1 - 1] <= cut[1] /\ q[1] = Chunk(cut[1 - 1], cut[1])
      BY <1>1, <1>4
    <2>2. 1 - 1 = 0
      OBVIOUS
    <2> QED
      BY <1>1, <1>3, <1>4, <2>1, <2>2
  <1>6. Queued(Tail(q), cut[1], b)
    <2>1. /\ later \in [0..n -> Nat] /\ later[0] = cut[1] /\ later[n] = b
      <3>1. \A k \in 0..n : k + 1 \in 0..Len(q)
        BY <1>2
      <3>2. 0 \in 0..n /\ n \in 0..n /\ n + 1 = Len(q)
        BY <1>2
      <3> QED
        BY <1>1, <3>1, <3>2
    <2>2. ASSUME NEW k \in 1..n
          PROVE  later[k - 1] <= later[k] /\ Tail(q)[k] = Chunk(later[k - 1], later[k])
      <3>1. /\ k + 1 \in 1..Len(q) /\ (k + 1) - 1 = k /\ (k - 1) + 1 = k
            /\ k \in 0..n /\ k - 1 \in 0..n /\ k \in 1..Len(Tail(q))
        BY <1>2, <1>3
      <3>2. later[k - 1] = cut[k] /\ later[k] = cut[k + 1]
        BY <3>1
      <3>3. cut[k] <= cut[k + 1] /\ q[k + 1] = Chunk(cut[k], cut[k + 1])
        BY <1>1, <3>1
      <3> HIDE DEF later
      <3> QED
        BY <1>3, <3>1, <3>2, <3>3
    <2> HIDE DEF later
    <2> QED
      BY <1>3, <2>1, <2>2 DEF Queued
  <1> QED
    BY <1>5, <1>6

\* A chunk can be put before the bytes it precedes.
LEMMA QueuePuts ==
    ASSUME NEW q, NEW a \in Nat, NEW b \in Nat, NEW c \in Nat, a <= c, Queued(q, c, b)
    PROVE  Queued(<<Chunk(a, c)>> \o q, a, b)
  <1>1. PICK cut \in [0..Len(q) -> Nat] :
          /\ cut[0] = c /\ cut[Len(q)] = b
          /\ \A k \in 1..Len(q) : cut[k - 1] <= cut[k] /\ q[k] = Chunk(cut[k - 1], cut[k])
    BY DEF Queued
  <1>2. q \in Seq(Seq(Nat)) /\ Len(q) \in Nat
    BY DEF Queued
  <1> DEFINE one == <<Chunk(a, c)>>
             all == one \o q
             n == Len(q) + 1
             more == [k \in 0..n |-> IF k = 0 THEN a ELSE cut[k - 1]]
  <1>3. one \in Seq(Seq(Nat)) /\ Len(one) = 1 /\ one[1] = Chunk(a, c)
    <2>1. Chunk(a, c) \in Seq(Nat)
      BY ChunkIs
    <2> HIDE DEF Chunk
    <2> QED
      BY <2>1
  <1> HIDE DEF one
  <1>4. /\ all \in Seq(Seq(Nat)) /\ Len(all) = n
        /\ all[1] = Chunk(a, c) /\ \A k \in 2..n : all[k] = q[k - 1]
    <2>1. /\ one \o q \in Seq(Seq(Nat)) /\ Len(one \o q) = Len(one) + Len(q)
          /\ \A i \in 1..(Len(one) + Len(q)) :
               (one \o q)[i] = IF i <= Len(one) THEN one[i] ELSE q[i - Len(one)]
      BY <1>2, <1>3, ConcatProperties
    <2> QED
      BY <1>2, <1>3, <2>1
  <1> HIDE DEF all
  <1>5. more \in [0..n -> Nat] /\ more[0] = a /\ more[n] = b
    <2>1. \A k \in 0..n : k # 0 => k - 1 \in 0..Len(q)
      BY <1>2
    <2>2. 0 \in 0..n /\ n \in 0..n /\ n # 0 /\ n - 1 = Len(q)
      BY <1>2
    <2> QED
      BY <1>1, <2>1, <2>2
  <1>6. ASSUME NEW k \in 1..n
        PROVE  more[k - 1] <= more[k] /\ all[k] = Chunk(more[k - 1], more[k])
    <2>1. CASE k = 1
      <3>1. more[0] = a /\ more[1] = cut[0]
        <4>1. 0 \in 0..n /\ 1 \in 0..n /\ 1 - 1 = 0
          BY <1>2
        <4> QED
          BY <4>1
      <3>2. 1 - 1 = 0
        OBVIOUS
      <3> HIDE DEF more
      <3> QED
        BY <1>1, <1>4, <2>1, <3>1, <3>2
    <2>2. CASE k # 1
      <3>1. /\ k \in 2..n /\ k \in 0..n /\ k - 1 \in 0..n /\ k - 1 # 0 /\ k # 0
            /\ k - 1 \in 1..Len(q)
        BY <1>2, <2>2
      <3>2. more[k - 1] = cut[(k - 1) - 1] /\ more[k] = cut[k - 1]
        BY <3>1
      <3>3. /\ cut[(k - 1) - 1] <= cut[k - 1]
            /\ q[k - 1] = Chunk(cut[(k - 1) - 1], cut[k - 1])
        BY <1>1, <3>1
      <3> HIDE DEF more
      <3> QED
        BY <1>4, <3>1, <3>2, <3>3
    <2> QED
      BY <2>1, <2>2
  <1> HIDE DEF more
  <1>7. Queued(all, a, b)
    BY <1>4, <1>5, <1>6 DEF Queued
  <1> QED
    BY <1>7 DEF all, one

\* And after the bytes it follows.
LEMMA QueueGrows ==
    ASSUME NEW q, NEW a \in Nat, NEW b \in Nat, NEW c \in Nat, b <= c, Queued(q, a, b)
    PROVE  Queued(Append(q, Chunk(b, c)), a, c)
  <1>1. PICK cut \in [0..Len(q) -> Nat] :
          /\ cut[0] = a /\ cut[Len(q)] = b
          /\ \A k \in 1..Len(q) : cut[k - 1] <= cut[k] /\ q[k] = Chunk(cut[k - 1], cut[k])
    BY DEF Queued
  <1>2. q \in Seq(Seq(Nat)) /\ Len(q) \in Nat
    BY DEF Queued
  <1> DEFINE all == Append(q, Chunk(b, c))
             n == Len(q) + 1
             more == [k \in 0..n |-> IF k = n THEN c ELSE cut[k]]
  <1>4. /\ all \in Seq(Seq(Nat)) /\ Len(all) = n
        /\ all[n] = Chunk(b, c) /\ \A k \in 1..Len(q) : all[k] = q[k]
    <2>1. Chunk(b, c) \in Seq(Nat)
      BY ChunkIs
    <2> HIDE DEF Chunk
    <2> QED
      BY <1>2, <2>1
  <1> HIDE DEF all
  <1>5. more \in [0..n -> Nat] /\ more[0] = a /\ more[n] = c
    <2>1. \A k \in 0..n : k # n => k \in 0..Len(q)
      BY <1>2
    <2>2. 0 \in 0..n /\ n \in 0..n /\ n # 0
      BY <1>2
    <2> QED
      BY <1>1, <2>1, <2>2
  <1>6. ASSUME NEW k \in 1..n
        PROVE  more[k - 1] <= more[k] /\ all[k] = Chunk(more[k - 1], more[k])
    <2>1. CASE k = n
      <3>1. more[n] = c /\ more[n - 1] = cut[Len(q)]
        <4>1. n \in 0..n /\ n - 1 \in 0..n /\ n - 1 # n /\ n - 1 = Len(q)
          BY <1>2
        <4> QED
          BY <4>1
      <3> HIDE DEF more
      <3> QED
        BY <1>1, <1>4, <2>1, <3>1
    <2>2. CASE k # n
      <3>1. /\ k \in 1..Len(q) /\ k \in 0..n /\ k - 1 \in 0..n /\ k - 1 # n
        BY <1>2, <2>2
      <3>2. more[k - 1] = cut[k - 1] /\ more[k] = cut[k]
        BY <2>2, <3>1
      <3> HIDE DEF more
      <3> QED
        BY <1>1, <1>4, <3>1, <3>2
    <2> QED
      BY <2>1, <2>2
  <1> HIDE DEF more
  <1>7. Queued(all, a, c)
    BY <1>4, <1>5, <1>6 DEF Queued
  <1> QED
    BY <1>7 DEF all

\* What a drain has in hand: the bytes after the a-th one up to the w-th one are taken, put
\* back or still queued, in order.
InHand == [bytes : Seq(Nat), pending : Seq(Seq(Nat)), read : Seq(Seq(Nat)),
           chunk : Seq(Nat) \cup {Nothing}, stop : BOOLEAN]
Splits(at, a, m, n, w) ==
    /\ a <= m /\ m - a <= DrainLimit
    /\ at.bytes = Chunk(a, m) /\ Queued(at.pending, m, n) /\ Queued(at.read, n, w)
DrainAt(at, a, w) ==
    /\ at \in InHand
    /\ \E m, n \in Nat : Splits(at, a, m, n, w)

\* The next chunk goes on where the bytes end.
LEMMA TakeGoesOn ==
    ASSUME NEW at \in InHand, NEW a \in Nat, NEW m \in Nat, NEW n \in Nat, NEW w \in Nat,
           Splits(at, a, m, n, w), Processes!Take(at).chunk # Nothing
    PROVE  /\ Processes!Take(at) \in InHand
           /\ Processes!Take(at).bytes = at.bytes
           /\ \E c \in Nat, r \in Nat :
                /\ m <= c /\ Processes!Take(at).chunk = Chunk(m, c)
                /\ Queued(Processes!Take(at).pending, c, r)
                /\ Queued(Processes!Take(at).read, r, w)
  <1> DEFINE next == Processes!Take(at)
  <1>1. CASE at.pending # << >>
    <2>1. PICK c \in Nat : m <= c /\ Head(at.pending) = Chunk(m, c) /\ Queued(Tail(at.pending), c, n)
      BY <1>1, QueueHead DEF Splits
    <2>2. Chunk(m, c) \in Seq(Nat)
      BY <2>1, ChunkIs
    <2>3. Tail(at.pending) \in Seq(Seq(Nat))
      BY <2>1 DEF Queued
    <2>4. next = [at EXCEPT !.chunk = Head(at.pending), !.pending = Tail(at.pending)]
      BY <1>1 DEF Processes!Take
    <2> HIDE DEF next, Chunk
    <2>5. /\ next \in InHand /\ next.bytes = at.bytes /\ next.chunk = Chunk(m, c)
          /\ next.pending = Tail(at.pending) /\ next.read = at.read
      BY <2>1, <2>2, <2>3, <2>4 DEF InHand
    <2>6. Queued(next.pending, c, n) /\ Queued(next.read, n, w)
      BY <2>1, <2>5, Zenon DEF Splits
    <2> QED
      BY <2>1, <2>5, <2>6 DEF next
  <1>2. CASE at.pending = << >> /\ at.read # << >>
    <2>1. m = n
      BY <1>2, EmptyQueueIs DEF Splits
    <2>2. PICK c \in Nat : m <= c /\ Head(at.read) = Chunk(m, c) /\ Queued(Tail(at.read), c, w)
      BY <1>2, <2>1, QueueHead DEF Splits
    <2>3. Chunk(m, c) \in Seq(Nat)
      BY <2>2, ChunkIs
    <2>4. Tail(at.read) \in Seq(Seq(Nat))
      BY <2>2 DEF Queued
    <2>5. next = [at EXCEPT !.chunk = Head(at.read), !.read = Tail(at.read)]
      BY <1>2 DEF Processes!Take
    <2> HIDE DEF next, Chunk
    <2>6. /\ next \in InHand /\ next.bytes = at.bytes /\ next.chunk = Chunk(m, c)
          /\ next.pending = << >> /\ next.read = Tail(at.read)
      BY <1>2, <2>2, <2>3, <2>4, <2>5 DEF InHand
    <2>7. Queued(next.pending, c, c) /\ Queued(next.read, c, w)
      BY <2>2, <2>6, QueueIsEmpty
    <2> QED
      BY <2>2, <2>6, <2>7 DEF next
  <1>3. CASE at.pending = << >> /\ at.read = << >>
    <2>1. next = [at EXCEPT !.chunk = Nothing]
      BY <1>3 DEF Processes!Take
    <2>2. next.chunk = Nothing
      BY <2>1 DEF InHand
    <2> QED
      BY <2>2
  <1> QED
    BY <1>1, <1>2, <1>3

\* A turn loses no byte and takes none twice, although it may cut a chunk.
LEMMA TurnSplits ==
    ASSUME DrainLimit \in Nat, NEW at, NEW a \in Nat, NEW w \in Nat, DrainAt(at, a, w)
    PROVE  DrainAt(Processes!DrainOne(at), a, w)
  <1> DEFINE next == Processes!Take(at)
             room == DrainLimit - Len(at.bytes)
             after == Processes!DrainOne(at)
  <1>1. PICK m \in Nat, n \in Nat : Splits(at, a, m, n, w)
    BY DEF DrainAt
  <1>2. at \in InHand
    BY DEF DrainAt
  <1>3. CASE at.stop
    <2>1. after = at
      BY <1>3 DEF Processes!DrainOne
    <2> QED
      BY <2>1
  <1>4. CASE ~at.stop /\ next.chunk = Nothing
    <2>1. after = [at EXCEPT !.stop = TRUE]
      BY <1>4 DEF Processes!DrainOne
    <2> HIDE DEF after
    <2>2. /\ after \in InHand /\ after.bytes = at.bytes
          /\ after.pending = at.pending /\ after.read = at.read
      BY <1>2, <2>1 DEF InHand
    <2>3. Splits(after, a, m, n, w)
      BY <1>1, <2>2, Zenon DEF Splits
    <2>4. DrainAt(after, a, w)
      BY <2>2, <2>3 DEF DrainAt
    <2> QED
      BY <2>4 DEF after
  <1>5. CASE ~at.stop /\ next.chunk # Nothing
    <2>1. next \in InHand /\ next.bytes = at.bytes
      BY <1>1, <1>2, <1>5, TakeGoesOn
    <2>2. PICK c \in Nat, r \in Nat :
            /\ m <= c /\ next.chunk = Chunk(m, c)
            /\ Queued(next.pending, c, r) /\ Queued(next.read, r, w)
      BY <1>1, <1>2, <1>5, TakeGoesOn
    <2>3. /\ a <= m /\ m - a <= DrainLimit /\ at.bytes = Chunk(a, m)
      BY <1>1 DEF Splits
    <2>4. /\ Len(at.bytes) = m - a /\ Len(next.chunk) = c - m /\ next.chunk \in Seq(Nat)
          /\ room = DrainLimit - (m - a) /\ room \in Nat
      <3>1. Len(Chunk(a, m)) = m - a
        BY <2>3, ChunkIs
      <3>2. Len(Chunk(m, c)) = c - m /\ Chunk(m, c) \in Seq(Nat)
        BY <2>2, ChunkIs
      <3>3. Len(at.bytes) = m - a
        BY <2>3, <3>1
      <3> HIDE DEF next
      <3> QED
        BY <2>2, <2>3, <3>2, <3>3
    <2>5. CASE Len(next.chunk) > room
      <3> DEFINE front == SubSeq(next.chunk, 1, room)
                 rest == SubSeq(next.chunk, room + 1, Len(next.chunk))
                 back == <<rest>> \o next.pending
      <3>1. after = [next EXCEPT !.bytes = @ \o front,
                                 !.pending = Processes!PutBack(@, rest), !.stop = TRUE]
        BY <1>5, <2>5 DEF Processes!DrainOne
      <3>2. room \in 0..(c - m) /\ m + room \in Nat /\ m <= m + room /\ m + room <= c
            /\ a <= m + room /\ (m + room) - a <= DrainLimit
        BY <2>3, <2>4, <2>5
      <3>3. front = Chunk(m, m + room) /\ rest = Chunk(m + room, c)
        <4>1. /\ SubSeq(Chunk(m, c), 1, room) = Chunk(m, m + room)
              /\ SubSeq(Chunk(m, c), room + 1, Len(Chunk(m, c))) = Chunk(m + room, c)
          <5> HIDE DEF room
          <5> QED
            BY <2>2, <3>2, ChunkIsCut
        <4> HIDE DEF next, room
        <4> QED
          BY <2>2, <4>1
      <3>4. Queued(back, m + room, r)
        BY <2>2, <3>2, <3>3, QueuePuts
      <3>5. next.bytes \o front = Chunk(a, m + room)
        <4>1. Chunk(a, m) \o Chunk(m, m + room) = Chunk(a, m + room)
          <5> HIDE DEF room
          <5> QED
            BY <2>3, <3>2, ChunksJoin
        <4> HIDE DEF next, room, front
        <4> QED
          BY <2>1, <2>3, <3>3, <4>1
      <3>6. Chunk(a, m + room) \in Seq(Nat) /\ back \in Seq(Seq(Nat))
        BY <3>2, <3>4, ChunkIs DEF Queued
      <3>7. Processes!PutBack(next.pending, rest) = back
        BY DEF Processes!PutBack
      <3> HIDE DEF after, next, back, front, rest, room, Chunk
      <3>8. after = [next EXCEPT !.bytes = Chunk(a, m + room), !.pending = back, !.stop = TRUE]
        BY <3>1, <3>5, <3>7
      <3>9. /\ after \in InHand /\ after.bytes = Chunk(a, m + room)
            /\ after.pending = back /\ after.read = next.read
        BY <2>1, <3>6, <3>8 DEF InHand
      <3>10. Splits(after, a, m + room, r, w)
        BY <2>2, <3>2, <3>4, <3>9, Zenon DEF Splits
      <3>11. DrainAt(after, a, w)
        BY <3>2, <3>9, <3>10 DEF DrainAt
      <3> QED
        BY <3>11 DEF after
    <2>6. CASE ~(Len(next.chunk) > room)
      <3>1. after = [next EXCEPT !.bytes = @ \o next.chunk]
        BY <1>5, <2>6 DEF Processes!DrainOne
      <3>2. a <= c /\ c - a <= DrainLimit
        BY <2>2, <2>3, <2>4, <2>6
      <3>3. next.bytes \o next.chunk = Chunk(a, c)
        <4>1. Chunk(a, m) \o Chunk(m, c) = Chunk(a, c)
          BY <2>2, <2>3, ChunksJoin
        <4> HIDE DEF next
        <4> QED
          BY <2>1, <2>2, <2>3, <4>1
      <3>4. Chunk(a, c) \in Seq(Nat)
        BY <3>2, ChunkIs
      <3> HIDE DEF after, next, room, Chunk
      <3>5. after = [next EXCEPT !.bytes = Chunk(a, c)]
        BY <3>1, <3>3
      <3>6. /\ after \in InHand /\ after.bytes = Chunk(a, c)
            /\ after.pending = next.pending /\ after.read = next.read
        BY <2>1, <3>4, <3>5 DEF InHand
      <3>7. Splits(after, a, c, r, w)
        BY <2>2, <3>2, <3>6, Zenon DEF Splits
      <3>8. DrainAt(after, a, w)
        BY <3>6, <3>7 DEF DrainAt
      <3> QED
        BY <3>8 DEF after
    <2> QED
      BY <2>5, <2>6
  <1> QED
    BY <1>3, <1>4, <1>5

\* A set of numbers that is not empty has a least one.
LEMMA LeastNumber ==
    ASSUME NEW T, T \subseteq Nat, T # {}
    PROVE  \E m \in T : \A k \in T : m <= k
  <1> DEFINE R == OpToRel(<, Nat)
  <1>1. IsWellFoundedOn(R, Nat)
    BY NatLessThanWellFounded
  <1> HIDE DEF R
  <1>2. PICK m \in T : \A k \in T : ~ (<<k, m>> \in R)
    BY <1>1, WFMin, Zenon
  <1>3. ASSUME NEW k \in T
        PROVE  m <= k
    <2>1. <<k, m>> \notin R
      BY <1>2
    <2>2. k < m => <<k, m>> \in R
      BY DEF OpToRel, R
    <2> QED
      BY <2>1, <2>2
  <1> QED
    BY <1>3

\* f is what a drain of p has in hand after each of its first n turns.
Untouched(p) == [bytes |-> << >>, pending |-> p.pending, read |-> p.read,
                 chunk |-> Nothing, stop |-> FALSE]
Turns(f, p, n) ==
    f = [turn \in 0..n |-> IF turn = 0 THEN Untouched(p) ELSE Processes!DrainOne(f[turn - 1])]

\* There is such a function: induction over the turns.
LEMMA TurnsExist ==
    ASSUME NEW p, NEW n \in Nat
    PROVE  \E f : Turns(f, p, n)
  <1> DEFINE Bad == {k \in 0..n : ~ \E f : Turns(f, p, k)}
  <1>1. SUFFICES ASSUME Bad # {}
                 PROVE  FALSE
    <2>1. n \in 0..n
      OBVIOUS
    <2> QED
      BY <2>1, Zenon
  <1>2. PICK m \in Bad : \A k \in Bad : m <= k
    <2>1. Bad \subseteq Nat
      OBVIOUS
    <2> HIDE DEF Bad
    <2> QED
      BY <1>1, <2>1, LeastNumber
  <1>3. CASE m = 0
    <2>1. Turns([k \in 0..0 |-> Untouched(p)], p, 0)
      BY DEF Turns
    <2> QED
      BY <1>3, <2>1
  <1>4. CASE m # 0
    <2>1. m - 1 \in 0..n /\ m \in 0..n /\ m \in Nat
      BY <1>4
    <2>2. PICK f : Turns(f, p, m - 1)
      BY <1>2, <2>1
    <2> DEFINE g == [k \in 0..m |-> IF k < m THEN f[k] ELSE Processes!DrainOne(f[m - 1])]
               Step(k) == IF k = 0 THEN Untouched(p) ELSE Processes!DrainOne(g[k - 1])
    <2>3. \A k \in 0..(m - 1) : f[k] = IF k = 0 THEN Untouched(p) ELSE Processes!DrainOne(f[k - 1])
      BY <2>2 DEF Turns
    <2>4. g = [k \in 0..m |-> Step(k)]
      <3>1. ASSUME NEW k \in 0..m
            PROVE  g[k] = Step(k)
        <4>1. CASE k < m
          <5>1. k \in 0..(m - 1) /\ (k # 0 => k - 1 \in 0..m /\ k - 1 < m)
            BY <4>1, <2>1
          <5>2. g[k] = f[k] /\ (k # 0 => g[k - 1] = f[k - 1])
            BY <4>1, <5>1
          <5> HIDE DEF g
          <5> QED
            BY <2>3, <5>1, <5>2
        <4>2. CASE k = m
          <5>1. m - 1 \in 0..m /\ m - 1 < m /\ m \in 0..m /\ ~(m < m)
            BY <1>4, <2>1
          <5>2. g[m - 1] = f[m - 1] /\ g[m] = Processes!DrainOne(f[m - 1])
            BY <5>1
          <5> HIDE DEF g
          <5> QED
            BY <4>2, <1>4, <5>2
        <4> QED
          BY <4>1, <4>2, <2>1
      <3> HIDE DEF Step
      <3>2. g = [k \in 0..m |-> g[k]]
        OBVIOUS
      <3> HIDE DEF g
      <3> QED
        BY <3>1, <3>2
    <2>5. Turns(g, p, m)
      <3> HIDE DEF g
      <3> QED
        BY <2>4 DEF Turns
    <2> QED
      BY <2>5
  <1> QED
    BY <1>3, <1>4

\* Every turn keeps the bytes in order, so the last one does: induction over the turns.
LEMMA TurnsSplit ==
    ASSUME DrainLimit \in Nat, NEW f, NEW p, NEW n \in Nat, Turns(f, p, n),
           NEW a \in Nat, NEW w \in Nat, DrainAt(Untouched(p), a, w)
    PROVE  DrainAt(f[n], a, w)
  <1> DEFINE Bad == {k \in 0..n : ~DrainAt(f[k], a, w)}
  <1>1. SUFFICES ASSUME Bad # {}
                 PROVE  FALSE
    <2>1. n \in 0..n
      OBVIOUS
    <2> QED
      BY <2>1, Zenon
  <1>2. PICK m \in Bad : \A k \in Bad : m <= k
    <2>1. Bad \subseteq Nat
      OBVIOUS
    <2> HIDE DEF Bad
    <2> QED
      BY <1>1, <2>1, LeastNumber
  <1>3. \A k \in 0..n : f[k] = IF k = 0 THEN Untouched(p) ELSE Processes!DrainOne(f[k - 1])
    BY DEF Turns
  <1>4. m \in 0..n /\ ~DrainAt(f[m], a, w)
    BY <1>2
  <1>5. CASE m = 0
    BY <1>3, <1>4, <1>5
  <1>6. CASE m # 0
    <2>1. m - 1 \in 0..n /\ ~(m <= m - 1)
      BY <1>4, <1>6
    <2>2. DrainAt(f[m - 1], a, w)
      BY <1>2, <2>1
    <2>3. DrainAt(Processes!DrainOne(f[m - 1]), a, w)
      BY <2>2, TurnSplits
    <2> QED
      BY <1>3, <1>4, <1>6, <2>3
  <1> QED
    BY <1>5, <1>6

\* A drain returns the next bytes of its process, and leaves the others queued.
LEMMA DrainGoesOn ==
    ASSUME DrainLimit \in Nat, DrainChunks \in Nat, NEW p, NEW a \in Nat, NEW w \in Nat,
           DrainAt(Untouched(p), a, w)
    PROVE  DrainAt(Processes!Drain(p), a, w)
  <1> DEFINE IsDraining(f) ==
               f = [turn \in 0..DrainChunks |->
                      IF turn = 0
                        THEN [bytes |-> << >>, pending |-> p.pending, read |-> p.read,
                              chunk |-> Nothing, stop |-> FALSE]
                        ELSE Processes!DrainOne(f[turn - 1])]
             drained == CHOOSE f : IsDraining(f)
  <1>1. IsDraining(drained)
    <2>1. PICK g : Turns(g, p, DrainChunks)
      BY TurnsExist
    <2>2. IsDraining(g)
      BY <2>1, Zenon DEF Turns, Untouched
    <2> QED
      BY <2>2, Zenon
  <1>2. Processes!Drain(p) = drained[DrainChunks]
    BY Zenon DEF Processes!Drain
  <1>3. Turns(drained, p, DrainChunks)
    BY <1>1, Zenon DEF Turns, Untouched
  <1> HIDE DEF drained
  <1> QED
    BY <1>2, <1>3, TurnsSplit

\* The limits are numbers.
TaskNumbers ==
    /\ DrainLimit \in Nat /\ DrainChunks \in Nat
    /\ MaxProcesses \in Nat /\ MaxBytes \in Nat /\ MaxChunkBytes \in Nat

\* A process of the table has its bytes from some one on still queued.
ProcRecords == [wrote : 0..MaxBytes, read : Seq(Seq(Nat)), pending : Seq(Seq(Nat)),
                exited : BOOLEAN]
HasLeft(p, a) == \E m \in Nat : Queued(p.pending, a, m) /\ Queued(p.read, m, p.wrote)

TablesFit ==
    /\ nextProcess \in Nat \ {0}
    /\ DOMAIN procs \subseteq 1..(nextProcess - 1)
    /\ \A id \in DOMAIN procs : procs[id] \in ProcRecords /\ \E a \in Nat : HasLeft(procs[id], a)
    /\ Cardinality(DOMAIN procs) <= MaxProcesses
    /\ langs \subseteq 1..(nextProcess - 1)

\* What a job has is the first bytes of its process, and those after them are still queued.
JobFits ==
    job # Nothing =>
        \E a \in Nat :
            /\ job.got = Chunk(0, a)
            /\ job.kind = "task" => job.id \in DOMAIN procs /\ HasLeft(procs[job.id], a)

\* The inductive invariant of the processes.
TasksInv ==
    /\ ServersInv /\ TablesFit /\ JobFits
    /\ ended \in {"none", "capacity", "failed", "too_large", "timed_out", "exited", "diagnosed"}

\* The number of processes is the same number here and there.
LEMMA TaskCardinality == \A S : Processes!Cardinality(S) = Cardinality(S)
  BY DEF Processes!Cardinality, Cardinality

\* What a drain has in hand at its start is what the process has left.
LEMMA LeftIsInHand ==
    ASSUME DrainLimit \in Nat, NEW p \in ProcRecords, NEW a \in Nat, HasLeft(p, a)
    PROVE  DrainAt(Untouched(p), a, p.wrote)
  <1>1. PICK m \in Nat : Queued(p.pending, a, m) /\ Queued(p.read, m, p.wrote)
    BY DEF HasLeft
  <1> DEFINE at == Untouched(p)
  <1>2. /\ at \in InHand /\ at.bytes = << >> /\ at.pending = p.pending /\ at.read = p.read
    BY DEF Untouched, InHand, ProcRecords
  <1>3. << >> = Chunk(a, a)
    <2>1. << >> \in Seq(Nat) /\ Len(<< >>) = a - a /\ a <= a /\ 1..(a - a) = {}
      OBVIOUS
    <2> QED
      BY <2>1, ChunkIfAlike
  <1>4. a <= a /\ a - a <= DrainLimit
    OBVIOUS
  <1> HIDE DEF at
  <1>5. Splits(at, a, a, m, p.wrote)
    BY <1>1, <1>2, <1>3, <1>4 DEF Splits
  <1>6. DrainAt(at, a, p.wrote)
    BY <1>2, <1>5 DEF DrainAt
  <1> QED
    BY <1>6 DEF at

\* The output that is drained follows what the job has, and the rest is left.
LEMMA DrainedFollows ==
    ASSUME TaskNumbers, NEW p \in ProcRecords, NEW a \in Nat, HasLeft(p, a)
    PROVE  /\ Processes!AfterDrain(p, Processes!Drain(p)) \in ProcRecords
           /\ \E m \in Nat :
                /\ Chunk(0, a) \o Processes!Drain(p).bytes = Chunk(0, m)
                /\ HasLeft(Processes!AfterDrain(p, Processes!Drain(p)), m)
  <1> DEFINE drained == Processes!Drain(p)
             after == Processes!AfterDrain(p, drained)
  <1>1. p.wrote \in Nat
    BY DEF ProcRecords
  <1>2. DrainAt(drained, a, p.wrote)
    BY <1>1, LeftIsInHand, DrainGoesOn DEF TaskNumbers
  <1> HIDE DEF drained
  <1>3. PICK m \in Nat, n \in Nat : Splits(drained, a, m, n, p.wrote)
    BY <1>2 DEF DrainAt
  <1>4. drained.pending \in Seq(Seq(Nat)) /\ drained.read \in Seq(Seq(Nat))
    BY <1>3 DEF Splits, Queued
  <1>5. /\ after \in ProcRecords /\ after.pending = drained.pending
        /\ after.read = drained.read /\ after.wrote = p.wrote
    <2>1. after = [p EXCEPT !.pending = drained.pending, !.read = drained.read]
      BY DEF Processes!AfterDrain
    <2> HIDE DEF after
    <2> QED
      BY <1>4, <2>1 DEF ProcRecords
  <1> HIDE DEF after
  <1>6. HasLeft(after, m)
    BY <1>3, <1>5, Zenon DEF HasLeft, Splits
  <1>7. Chunk(0, a) \o drained.bytes = Chunk(0, m)
    <2>1. a <= m /\ drained.bytes = Chunk(a, m)
      BY <1>3 DEF Splits
    <2>2. 0 \in Nat /\ 0 <= a
      OBVIOUS
    <2>3. Chunk(0, a) \o Chunk(a, m) = Chunk(0, m)
      BY <2>1, <2>2, ChunksJoin
    <2> QED
      BY <2>1, <2>3
  <1> QED
    BY <1>5, <1>6, <1>7 DEF after, drained

\* One process of the table changes.
LEMMA EntryChanges ==
    ASSUME TablesFit, NEW id \in DOMAIN procs, NEW p \in ProcRecords, NEW a \in Nat,
           HasLeft(p, a), procs' = [procs EXCEPT ![id] = p], UNCHANGED <<nextProcess, langs>>
    PROVE  /\ TablesFit'
           /\ DOMAIN procs' = DOMAIN procs /\ procs'[id] = p
           /\ \A other \in DOMAIN procs : other # id => procs'[other] = procs[other]
  <1>1. /\ DOMAIN procs' = DOMAIN procs /\ procs'[id] = p
        /\ \A other \in DOMAIN procs : other # id => procs'[other] = procs[other]
    OBVIOUS
  <1>2. \A other \in DOMAIN procs :
          procs'[other] \in ProcRecords /\ \E b \in Nat : HasLeft(procs'[other], b)
    BY <1>1 DEF TablesFit
  <1> QED
    BY <1>1, <1>2 DEF TablesFit

\* One process leaves the table.
LEMMA EntryLeaves ==
    ASSUME TaskNumbers, TablesFit, NEW id, procs' = Processes!Without(procs, id),
           UNCHANGED <<nextProcess, langs>>
    PROVE  TablesFit'
  <1> DEFINE rest == DOMAIN procs \ {id}
  <1>1. procs' = [other \in rest |-> procs[other]]
    BY DEF Processes!Without, Processes!Restrict
  <1>2. IsFiniteSet(DOMAIN procs)
    <2>1. IsFiniteSet(1..(nextProcess - 1))
      BY FS_Interval DEF TablesFit
    <2> QED
      BY <2>1, FS_Subset DEF TablesFit
  <1>3. Cardinality(rest) <= MaxProcesses
    <2>1. /\ Cardinality(rest) <= Cardinality(DOMAIN procs)
          /\ Cardinality(rest) \in Nat /\ Cardinality(DOMAIN procs) \in Nat
      BY <1>2, FS_Subset, FS_CardinalityType
    <2> QED
      BY <2>1 DEF TablesFit, TaskNumbers
  <1>4. DOMAIN procs' = rest /\ rest \subseteq DOMAIN procs
        /\ \A other \in rest : procs'[other] = procs[other]
    BY <1>1
  <1> HIDE DEF rest
  <1> QED
    BY <1>3, <1>4 DEF TablesFit

\* A job that goes on goes on with its process, after what it has.
LEMMA TaskIsRunning ==
    ASSUME ServersInv, TablesFit, JobFits, job # Nothing, job.at \in {"drain", "poll", "final"}
    PROVE  /\ job = [kind |-> job.kind, at |-> job.at, id |-> job.id, got |-> job.got]
           /\ job.kind = "task" /\ job.id \in DOMAIN procs /\ procs[job.id] \in ProcRecords
           /\ \E a \in Nat : job.got = Chunk(0, a) /\ HasLeft(procs[job.id], a)
  <1>1. /\ job = [kind |-> job.kind, at |-> job.at, id |-> job.id, got |-> job.got]
        /\ job.kind = "task"
    BY DEF ServersInv
  <1>2. \E a \in Nat :
            job.got = Chunk(0, a) /\ job.id \in DOMAIN procs /\ HasLeft(procs[job.id], a)
    BY <1>1 DEF JobFits
  <1> QED
    BY <1>1, <1>2 DEF TablesFit

\* What a process writes is queued behind what it wrote before.
LEMMA RunsKeeps ==
    ASSUME TaskNumbers, TablesFit, JobFits, Processes!ProcessRuns
    PROVE  TablesFit' /\ JobFits'
  <1>1. PICK id \in DOMAIN procs :
          \/ procs' = [procs EXCEPT ![id].exited = TRUE]
          \/ \E bytes \in 1..MaxChunkBytes :
               /\ procs[id].wrote + bytes <= MaxBytes
               /\ procs' = [procs EXCEPT
                    ![id].read = Append(@, [n \in 1..bytes |-> procs[id].wrote + n]),
                    ![id].wrote = @ + bytes]
    BY DEF Processes!ProcessRuns
  <1>2. UNCHANGED <<langs, nextProcess, job>>
    BY DEF Processes!ProcessRuns
  <1> DEFINE old == procs[id]
  <1>3. old \in ProcRecords /\ old.wrote \in Nat /\ old.wrote <= MaxBytes
    BY DEF TablesFit, ProcRecords, TaskNumbers
  <1>4. \E p \in ProcRecords :
          /\ procs' = [procs EXCEPT ![id] = p]
          /\ \A a \in Nat : HasLeft(old, a) => HasLeft(p, a)
    <2>1. CASE procs' = [procs EXCEPT ![id].exited = TRUE]
      <3> DEFINE p == [old EXCEPT !.exited = TRUE]
      <3>1. procs' = [procs EXCEPT ![id] = p]
        BY <2>1
      <3>2. /\ p \in ProcRecords /\ p.pending = old.pending /\ p.read = old.read
            /\ p.wrote = old.wrote
        BY <1>3 DEF ProcRecords
      <3> HIDE DEF p
      <3>3. \A a \in Nat : HasLeft(old, a) => HasLeft(p, a)
        BY <3>2, Zenon DEF HasLeft
      <3> QED
        BY <3>1, <3>2, <3>3
    <2>2. CASE \E bytes \in 1..MaxChunkBytes :
               /\ old.wrote + bytes <= MaxBytes
               /\ procs' = [procs EXCEPT
                    ![id].read = Append(@, [n \in 1..bytes |-> procs[id].wrote + n]),
                    ![id].wrote = @ + bytes]
      <3>1. PICK bytes \in 1..MaxChunkBytes :
               /\ old.wrote + bytes <= MaxBytes
               /\ procs' = [procs EXCEPT
                    ![id].read = Append(@, [n \in 1..bytes |-> procs[id].wrote + n]),
                    ![id].wrote = @ + bytes]
        BY <2>2
      <3> DEFINE all == old.wrote + bytes
                 more == Append(old.read, Chunk(old.wrote, all))
                 p == [old EXCEPT !.read = more, !.wrote = all]
      <3>2. /\ bytes \in Nat /\ all \in 0..MaxBytes /\ all \in Nat /\ old.wrote <= all
            /\ all - old.wrote = bytes
        <4>1. bytes \in Nat /\ MaxBytes \in Nat
          BY DEF TaskNumbers
        <4>2. old.wrote + bytes <= MaxBytes
          BY <3>1
        <4> HIDE DEF old
        <4> QED
          BY <1>3, <4>1, <4>2
      <3>3. Chunk(old.wrote, all) = [n \in 1..bytes |-> old.wrote + n]
        BY <3>2 DEF Chunk
      <3>4. \A a, m \in Nat : Queued(old.read, m, old.wrote) => Queued(more, m, all)
        BY <1>3, <3>2, QueueGrows
      <3>5. more \in Seq(Seq(Nat))
        <4>1. Chunk(old.wrote, all) \in Seq(Nat)
          BY <1>3, <3>2, ChunkIs
        <4> QED
          BY <1>3, <4>1 DEF ProcRecords
      <3>6. procs' = [procs EXCEPT ![id] = p]
        BY <3>1, <3>3
      <3> HIDE DEF all, more
      <3>7. /\ p \in ProcRecords /\ p.pending = old.pending /\ p.read = more /\ p.wrote = all
        BY <1>3, <3>2, <3>5 DEF ProcRecords
      <3> HIDE DEF p
      <3>8. \A a \in Nat : HasLeft(old, a) => HasLeft(p, a)
        BY <3>4, <3>7 DEF HasLeft
      <3> QED
        BY <3>6, <3>7, <3>8
    <2> QED
      BY <1>1, <2>1, <2>2
  <1>5. PICK p \in ProcRecords :
          /\ procs' = [procs EXCEPT ![id] = p]
          /\ \A a \in Nat : HasLeft(old, a) => HasLeft(p, a)
    BY <1>4
  <1>6. PICK b \in Nat : HasLeft(p, b)
    BY <1>5 DEF TablesFit
  <1>7. /\ TablesFit'
        /\ DOMAIN procs' = DOMAIN procs /\ procs'[id] = p
        /\ \A other \in DOMAIN procs : other # id => procs'[other] = procs[other]
    BY <1>2, <1>5, <1>6, EntryChanges
  <1>8. \A other \in DOMAIN procs : \A a \in Nat :
          HasLeft(procs[other], a) => HasLeft(procs'[other], a)
    BY <1>5, <1>7
  <1>9. JobFits'
    BY <1>2, <1>7, <1>8 DEF JobFits
  <1> QED
    BY <1>7, <1>9

\* A command that is started has read nothing of a process that wrote nothing.
LEMMA SpawnKeeps ==
    ASSUME TaskNumbers, TablesFit, JobFits, Processes!SpawnTask
    PROVE  TablesFit' /\ JobFits'
  <1>1. CASE UNCHANGED <<procs, langs, nextProcess>> /\ job' = Nothing
    BY <1>1 DEF TablesFit, JobFits
  <1>2. CASE ~(UNCHANGED <<procs, langs, nextProcess>> /\ job' = Nothing)
    <2> DEFINE new == nextProcess
               table == DOMAIN procs \cup {new}
    <2>1. /\ procs' = [id \in table |-> IF id = new THEN Processes!NewProcess ELSE procs[id]]
          /\ nextProcess' = nextProcess + 1 /\ UNCHANGED langs
          /\ job' = [kind |-> "task", at |-> "drain", id |-> new, got |-> << >>]
          /\ ~(Cardinality(DOMAIN procs) >= MaxProcesses)
      BY <1>2, TaskCardinality DEF Processes!SpawnTask, Processes!Fails, Processes!Ends
    <2>2. /\ new \in Nat \ {0} /\ new \notin DOMAIN procs
          /\ 1..(nextProcess - 1) \subseteq 1..(nextProcess' - 1)
          /\ new \in 1..(nextProcess' - 1) /\ nextProcess' \in Nat \ {0}
      BY <2>1 DEF TablesFit
    <2>3. Cardinality(table) <= MaxProcesses
      <3>1. IsFiniteSet(DOMAIN procs)
        <4>1. IsFiniteSet(1..(nextProcess - 1))
          BY FS_Interval DEF TablesFit
        <4> QED
          BY <4>1, FS_Subset DEF TablesFit
      <3>2. Cardinality(table) = Cardinality(DOMAIN procs) + 1 /\ Cardinality(DOMAIN procs) \in Nat
        BY <2>2, <3>1, FS_AddElement, FS_CardinalityType
      <3> QED
        BY <2>1, <3>2 DEF TaskNumbers
    <2>4. Processes!NewProcess \in ProcRecords /\ HasLeft(Processes!NewProcess, 0)
      <3>1. /\ Processes!NewProcess.pending = << >> /\ Processes!NewProcess.read = << >>
            /\ Processes!NewProcess.wrote = 0 /\ 0 \in 0..MaxBytes
        BY DEF Processes!NewProcess, TaskNumbers
      <3>2. Processes!NewProcess \in ProcRecords
        BY <3>1 DEF Processes!NewProcess, ProcRecords
      <3>3. Queued(<< >>, 0, 0)
        BY QueueIsEmpty
      <3>4. 0 \in Nat
        OBVIOUS
      <3> QED
        BY <3>1, <3>2, <3>3, <3>4, Zenon DEF HasLeft
    <2>5. /\ DOMAIN procs' = table /\ procs'[new] = Processes!NewProcess
          /\ \A id \in DOMAIN procs : procs'[id] = procs[id]
      BY <2>1, <2>2
    <2>6. << >> = Chunk(0, 0)
      <3>1. << >> \in Seq(Nat) /\ Len(<< >>) = 0 - 0 /\ 0 <= 0 /\ 1..(0 - 0) = {} /\ 0 \in Nat
        OBVIOUS
      <3> QED
        BY <3>1, ChunkIfAlike
    <2>7. JobFits'
      <3>1. 0 \in Nat /\ job'.got = Chunk(0, 0) /\ job'.id = new /\ new \in DOMAIN procs'
            /\ HasLeft(procs'[new], 0)
        BY <2>1, <2>4, <2>5, <2>6
      <3> QED
        BY <3>1 DEF JobFits
    <2>8. \A id \in DOMAIN procs' :
            procs'[id] \in ProcRecords /\ \E a \in Nat : HasLeft(procs'[id], a)
      <3>1. 0 \in Nat
        OBVIOUS
      <3> HIDE DEF table
      <3>2. \A id \in DOMAIN procs' : id = new \/ id \in DOMAIN procs
        BY <2>5 DEF table
      <3> QED
        BY <2>4, <2>5, <3>1, <3>2 DEF TablesFit
    <2>9. DOMAIN procs' \subseteq 1..(nextProcess' - 1) /\ langs' \subseteq 1..(nextProcess' - 1)
      BY <2>1, <2>2, <2>5 DEF TablesFit
    <2> HIDE DEF table
    <2> QED
      BY <2>2, <2>3, <2>5, <2>7, <2>8, <2>9 DEF TablesFit
  <1> QED
    BY <1>1, <1>2

\* What a drain returns is what follows.
LEMMA DrainKeeps ==
    ASSUME TaskNumbers, ServersInv, TablesFit, JobFits, Processes!DrainTask
    PROVE  TablesFit' /\ JobFits'
  <1> DEFINE p == procs[job.id]
             drained == Processes!Drain(p)
             after == Processes!AfterDrain(p, drained)
             got_ == job.got \o drained.bytes
  <1>1. /\ job = [kind |-> job.kind, at |-> job.at, id |-> job.id, got |-> job.got]
        /\ job.kind = "task" /\ job.id \in DOMAIN procs /\ p \in ProcRecords
        /\ \E a \in Nat : job.got = Chunk(0, a) /\ HasLeft(p, a)
    BY TaskIsRunning DEF Processes!DrainTask
  <1>2. PICK a \in Nat : job.got = Chunk(0, a) /\ HasLeft(p, a)
    BY <1>1
  <1>3. PICK m \in Nat : got_ = Chunk(0, m) /\ HasLeft(after, m)
    BY <1>1, <1>2, DrainedFollows
  <1>4. after \in ProcRecords
    BY <1>1, <1>2, DrainedFollows
  <1>5. UNCHANGED <<nextProcess, langs>>
    BY DEF Processes!DrainTask
  <1>6. \/ procs' = Processes!Without(procs, job.id) /\ job' = Nothing
        \/ /\ procs' = [procs EXCEPT ![job.id] = Processes!AfterDrain(@, drained)]
           /\ job' = [job EXCEPT !.got = got_, !.at = "poll"]
        \/ procs' = procs /\ job' = Nothing
    BY DEF Processes!DrainTask, Processes!Fails, Processes!Ends
  <1>7. CASE procs' = Processes!Without(procs, job.id) /\ job' = Nothing
    BY <1>5, <1>7, EntryLeaves DEF JobFits
  <1>8. CASE /\ procs' = [procs EXCEPT ![job.id] = Processes!AfterDrain(@, drained)]
             /\ job' = [job EXCEPT !.got = got_, !.at = "poll"]
    <2>1. procs' = [procs EXCEPT ![job.id] = after]
      BY <1>8
    <2> HIDE DEF after, got_
    <2>2. TablesFit' /\ DOMAIN procs' = DOMAIN procs /\ procs'[job.id] = after
      BY <1>1, <1>3, <1>4, <1>5, <2>1, EntryChanges
    <2>3. job' = [kind |-> job.kind, at |-> "poll", id |-> job.id, got |-> got_]
      BY <1>1, <1>8, JobIsRecord
    <2>4. job'.id = job.id /\ job'.got = got_
      BY <2>3
    <2> QED
      BY <1>1, <1>3, <2>2, <2>4 DEF JobFits
  <1>9. CASE procs' = procs /\ job' = Nothing
    BY <1>5, <1>9 DEF TablesFit, JobFits
  <1> QED
    BY <1>6, <1>7, <1>8, <1>9

\* The last drains go on in the same way.
LEMMA FinalKeeps ==
    ASSUME TaskNumbers, ServersInv, TablesFit, JobFits, Processes!FinalDrain
    PROVE  TablesFit' /\ JobFits'
  <1> DEFINE p == procs[job.id]
             drained == Processes!Drain(p)
             after == Processes!AfterDrain(p, drained)
             got_ == job.got \o drained.bytes
  <1>1. /\ job = [kind |-> job.kind, at |-> job.at, id |-> job.id, got |-> job.got]
        /\ job.kind = "task" /\ job.id \in DOMAIN procs /\ p \in ProcRecords
        /\ \E a \in Nat : job.got = Chunk(0, a) /\ HasLeft(p, a)
    BY TaskIsRunning DEF Processes!FinalDrain
  <1>2. PICK a \in Nat : job.got = Chunk(0, a) /\ HasLeft(p, a)
    BY <1>1
  <1>3. PICK m \in Nat : got_ = Chunk(0, m) /\ HasLeft(after, m)
    BY <1>1, <1>2, DrainedFollows
  <1>4. after \in ProcRecords
    BY <1>1, <1>2, DrainedFollows
  <1>5. UNCHANGED <<nextProcess, langs>>
    BY DEF Processes!FinalDrain
  <1>6. \/ procs' = procs /\ job' = Nothing
        \/ /\ procs' = [procs EXCEPT ![job.id] = after]
           /\ job' = Nothing \/ job' = [job EXCEPT !.got = got_]
    BY DEF Processes!FinalDrain, Processes!Fails, Processes!Ends
  <1>7. CASE procs' = procs /\ job' = Nothing
    BY <1>5, <1>7 DEF TablesFit, JobFits
  <1>8. CASE /\ procs' = [procs EXCEPT ![job.id] = after]
             /\ job' = Nothing \/ job' = [job EXCEPT !.got = got_]
    <2> HIDE DEF after, got_
    <2>1. TablesFit' /\ DOMAIN procs' = DOMAIN procs /\ procs'[job.id] = after
      BY <1>1, <1>3, <1>4, <1>5, <1>8, EntryChanges
    <2>2. CASE job' = Nothing
      BY <2>1, <2>2 DEF JobFits
    <2>3. CASE job' = [job EXCEPT !.got = got_]
      <3>1. job' = [kind |-> job.kind, at |-> job.at, id |-> job.id, got |-> got_]
        BY <1>1, <2>3, JobIsRecord
      <3>2. job'.id = job.id /\ job'.got = got_
        BY <3>1
      <3> QED
        BY <1>1, <1>3, <2>1, <3>2 DEF JobFits
    <2> QED
      BY <1>8, <2>1, <2>2, <2>3
  <1> QED
    BY <1>6, <1>7, <1>8

\* A poll leaves the output alone, unless the deadline ends the process.
LEMMA PollKeeps ==
    ASSUME TaskNumbers, ServersInv, TablesFit, JobFits, Processes!PollTask
    PROVE  TablesFit' /\ JobFits'
  <1>1. job = [kind |-> job.kind, at |-> job.at, id |-> job.id, got |-> job.got]
    BY TaskIsRunning DEF Processes!PollTask
  <1>2. UNCHANGED <<nextProcess, langs>>
    BY DEF Processes!PollTask
  <1>3. \/ procs' = Processes!Without(procs, job.id) /\ job' = Nothing
        \/ procs' = procs /\ \E at \in {"final", "drain"} : job' = [job EXCEPT !.at = at]
        \/ procs' = procs /\ job' = Nothing
    BY DEF Processes!PollTask, Processes!Fails, Processes!Ends
  <1>4. CASE procs' = Processes!Without(procs, job.id) /\ job' = Nothing
    BY <1>2, <1>4, EntryLeaves DEF JobFits
  <1>5. CASE procs' = procs /\ \E at \in {"final", "drain"} : job' = [job EXCEPT !.at = at]
    <2>1. PICK at : job' = [kind |-> job.kind, at |-> at, id |-> job.id, got |-> job.got]
      BY <1>1, <1>5, JobIsRecord
    <2>2. job'.kind = job.kind /\ job'.id = job.id /\ job'.got = job.got
      BY <2>1
    <2>3. JobFits'
      BY <1>5, <2>2 DEF JobFits, Processes!PollTask
    <2> QED
      BY <1>2, <1>5, <2>3 DEF TablesFit
  <1>6. CASE procs' = procs /\ job' = Nothing
    BY <1>2, <1>6 DEF TablesFit, JobFits
  <1> QED
    BY <1>3, <1>4, <1>5, <1>6

\* A diagnosis has no output, and leaves the commands alone.
LEMMA LanguageKeeps ==
    ASSUME TaskNumbers, ServersInv, TablesFit, JobFits,
           \/ Processes!SpawnLanguage \/ Processes!Initialize
           \/ Processes!WaitForDiagnostics \/ Processes!TerminateLanguage
    PROVE  TablesFit' /\ JobFits'
  <1>1. procs' = procs
    BY DEF Processes!SpawnLanguage, Processes!Initialize, Processes!WaitForDiagnostics,
           Processes!TerminateLanguage
  <1>2. CASE Processes!SpawnLanguage
    <2>1. CASE UNCHANGED <<langs, nextProcess>> /\ job' = Nothing
      BY <1>1, <2>1 DEF TablesFit, JobFits
    <2>2. CASE ~(UNCHANGED <<langs, nextProcess>> /\ job' = Nothing)
      <3>1. /\ langs' = langs \cup {nextProcess} /\ nextProcess' = nextProcess + 1
            /\ job' = [kind |-> "language", at |-> "initialize", id |-> nextProcess,
                       got |-> << >>]
        BY <1>2, <2>2, TaskCardinality DEF Processes!SpawnLanguage, Processes!Ends
      <3>2. << >> = Chunk(0, 0)
        <4>1. /\ << >> \in Seq(Nat) /\ Len(<< >>) = 0 - 0 /\ 0 <= 0 /\ 1..(0 - 0) = {}
              /\ 0 \in Nat
          OBVIOUS
        <4> QED
          BY <4>1, ChunkIfAlike
      <3>3. JobFits'
        <4>1. 0 \in Nat /\ job'.got = Chunk(0, 0) /\ job'.kind # "task"
          BY <3>1, <3>2
        <4> QED
          BY <4>1 DEF JobFits
      <3>4. /\ nextProcess \in Nat \ {0} /\ nextProcess' \in Nat \ {0}
            /\ 1..(nextProcess - 1) \subseteq 1..(nextProcess' - 1)
            /\ nextProcess \in 1..(nextProcess' - 1)
        BY <3>1 DEF TablesFit
      <3>5. TablesFit'
        BY <1>1, <3>1, <3>4 DEF TablesFit
      <3> QED
        BY <3>3, <3>5
    <2> QED
      BY <2>1, <2>2
  <1>3. CASE Processes!Initialize \/ Processes!WaitForDiagnostics
    <2>1. job = [kind |-> job.kind, at |-> job.at, id |-> job.id, got |-> job.got]
          /\ job # Nothing
      BY <1>3 DEF Processes!Initialize, Processes!WaitForDiagnostics, ServersInv
    <2>2. \E at : job' = [job EXCEPT !.at = at]
      BY <1>3 DEF Processes!Initialize, Processes!WaitForDiagnostics
    <2>3. PICK at : job' = [kind |-> job.kind, at |-> at, id |-> job.id, got |-> job.got]
      BY <2>1, <2>2, JobIsRecord
    <2>4. job'.kind = job.kind /\ job'.id = job.id /\ job'.got = job.got
      BY <2>3
    <2>5. UNCHANGED <<langs, nextProcess>>
      BY <1>3 DEF Processes!Initialize, Processes!WaitForDiagnostics
    <2> QED
      BY <1>1, <2>1, <2>4, <2>5 DEF TablesFit, JobFits
  <1>4. CASE Processes!TerminateLanguage
    <2>1. langs' \subseteq langs /\ nextProcess' = nextProcess /\ job' = Nothing
      BY <1>4 DEF Processes!TerminateLanguage, Processes!Ends
    <2> QED
      BY <1>1, <2>1 DEF TablesFit, JobFits
  <1> QED
    BY <1>2, <1>3, <1>4

\* Nothing runs at the start, and every step keeps the invariant (process.rs, language.rs;
\* remote.rs: run_task_inner, run_language_diagnostics_inner).
LEMMA TasksAreInductive ==
    ASSUME NothingIsNoJob, TaskNumbers
    PROVE  /\ Processes!TasksInit => TasksInv
           /\ TasksInv /\ [Processes!TasksNext]_(Processes!taskVars) => TasksInv'
           /\ TasksInv => Processes!TasksTypeOK /\ Processes!TaskOutputInOrder
  <1>1. ASSUME Processes!TasksInit PROVE TasksInv
    <2>1. /\ procs = << >> /\ langs = {} /\ nextProcess = 1 /\ job = Nothing /\ ended = "none"
      BY <1>1 DEF Processes!TasksInit
    <2>2. DOMAIN procs = {} /\ Cardinality({}) = 0
      BY <2>1, FS_EmptySet
    <2>3. TablesFit
      BY <2>1, <2>2 DEF TablesFit, TaskNumbers
    <2> QED
      BY <1>1, <2>1, <2>3, ServersAreInductive DEF TasksInv, JobFits
  <1>2. ASSUME TasksInv, Processes!TasksNext PROVE TasksInv'
    <2>1. ServersInv /\ TablesFit /\ JobFits
      BY <1>2 DEF TasksInv
    <2>2. TablesFit' /\ JobFits'
      BY <1>2, <2>1, RunsKeeps, SpawnKeeps, DrainKeeps, FinalKeeps, PollKeeps, LanguageKeeps
      DEF Processes!TasksNext
    <2>3. ServersInv'
      BY <1>2, <2>1, ServersAreInductive
    <2>4. ended' = ended
          \/ ended' \in {"capacity", "failed", "too_large", "timed_out", "exited", "diagnosed"}
      BY <1>2 DEF Processes!TasksNext, Processes!ProcessRuns, Processes!SpawnTask,
                  Processes!DrainTask, Processes!PollTask, Processes!FinalDrain,
                  Processes!SpawnLanguage, Processes!Initialize,
                  Processes!WaitForDiagnostics, Processes!TerminateLanguage, Processes!Fails,
                  Processes!Ends
    <2> QED
      BY <1>2, <2>2, <2>3, <2>4 DEF TasksInv
  <1>3. ASSUME TasksInv, UNCHANGED Processes!taskVars PROVE TasksInv'
    BY <1>3 DEF Processes!taskVars, TasksInv, ServersInv, TablesFit, JobFits
  <1>4. ASSUME TasksInv PROVE Processes!TasksTypeOK
    <2>1. \A id \in DOMAIN procs : procs[id].wrote \in 0..MaxBytes /\ procs[id].exited \in BOOLEAN
      BY <1>4 DEF TasksInv, TablesFit, ProcRecords
    <2>2. Processes!Cardinality(DOMAIN procs) <= MaxProcesses
      BY <1>4, TaskCardinality DEF TasksInv, TablesFit
    <2>3. langs \subseteq 1..nextProcess
      BY <1>4 DEF TasksInv, TablesFit
    <2>4. job # Nothing =>
            job.at \in {"drain", "poll", "final", "initialize", "diagnostics", "terminate"}
      BY <1>4 DEF TasksInv, ServersInv
    <2> QED
      BY <1>4, <2>1, <2>2, <2>3, <2>4, Zenon DEF TasksInv, Processes!TasksTypeOK
  <1>5. ASSUME TasksInv PROVE Processes!TaskOutputInOrder
    <2>1. ASSUME job # Nothing
          PROVE  job.got = [n \in 1..Len(job.got) |-> n]
      <3>1. PICK a \in Nat : job.got = Chunk(0, a)
        BY <1>5, <2>1 DEF TasksInv, JobFits
      <3>2. Len(Chunk(0, a)) = a /\ Chunk(0, a) = [n \in 1..a |-> n]
        <4>1. 0 \in Nat /\ 0 <= a /\ a - 0 = a
          OBVIOUS
        <4>2. [n \in 1..a |-> 0 + n] = [n \in 1..a |-> n]
          OBVIOUS
        <4> QED
          BY <4>1, <4>2, ChunkIs DEF Chunk
      <3> QED
        BY <3>1, <3>2
    <2> QED
      BY <2>1 DEF Processes!TaskOutputInOrder
  <1> QED
    BY <1>1, <1>2, <1>3, <1>4, <1>5

-----------------------------------------------------------------------------
(* The remote workspace.                                                    *)

\* The connections that are counted are finitely many.
RemoteNumbers == MaxConnections \in Nat

Labels == Hosts \cup {Nothing}
Replies == {Nothing, "ok", "failed"}
Asks == {"connect", "list", "query", "task"}
Remaining == {"install", "posted"}
Requests == [kind : Asks, generation : Nat, host : Labels, result : Replies]
Openings == [kind : {"open"}, generation : Nat, host : Labels,
             result : Texts \cup {Nothing, "failed"}, revision : {Nothing, Invalid}]
Savings == [kind : {"save"}, generation : Nat, host : Labels, result : Replies,
            revision : Remote!Contents, text : Texts]
Installs == [kind : Remaining, result : Replies]
RemoteJobs == Requests \cup Openings \cup Savings \cup Installs

\* What is asked with the runtime of a connection.
Operations == {"list", "query", "task", "open", "save"}
Connected == [host : Labels, generation : Nat]
Shown == [host : Labels, generation : Nat, text : Texts, revision : Remote!Contents,
          dirty : BOOLEAN]

RemoteTypes ==
    /\ status \in Remote!RemoteStatuses
    /\ connection \in Nat /\ connection <= MaxConnections
    /\ alias \in Labels /\ hostLabel \in Labels
    /\ files = Nothing \/ files \in Connected
    /\ document = Nothing \/ document \in Shown
    /\ results # Nothing => results.under \in 0..connection
    /\ status = "Ready" => runtime \in Connected
    /\ remoteFile \in [Hosts -> Remote!Contents]
    /\ tasks \subseteq RemoteJobs

\* A task is of this connection or an earlier one; an operation of this one is asked of the
\* host on the label; text comes with a revision.
FitsTask(t) ==
    /\ t.kind \in Operations \cup {"connect"} => t.generation <= connection
    /\ t.kind \in Operations /\ t.generation = connection => t.host = hostLabel
    /\ t.kind = "open" /\ t.result # Nothing /\ t.result # "failed" => t.revision # Nothing

\* While the connection is being made nothing of it is shown or asked, and no results came
\* in under it.
MadeAlone(t) ==
    t.kind = "connect" /\ t.generation = connection =>
        /\ files = Nothing /\ document = Nothing /\ status # "Ready"
        /\ results # Nothing => results.under # connection
        /\ \A u \in tasks : u.kind \in Operations \cup {"connect"} /\ u.generation = connection
                              => u = t

\* The inductive invariant of the remote workspace.
RemoteInv ==
    /\ RemoteTypes
    /\ \A t \in tasks : FitsTask(t) /\ MadeAlone(t)
    /\ Remote!ShownIsOfConnection
    /\ Remote!ReviewedIsRun

Apart == <<status, connection, hostLabel, files, document, results, runtime, tasks>>

\* What the user picks, types and reviews, and what others do to the file, is apart from it.
LEMMA PickingKeeps ==
    ASSUME RemoteInv,
           \/ \E host \in Hosts : Remote!AliasChanged(host)
           \/ \E new \in Commands : Remote!TaskChanged(new)
           \/ Remote!ReviewRemoteTask \/ Remote!CancelRemoteTask
           \/ \E chosen \in BOOLEAN : Remote!Pick(chosen)
           \/ \E host \in Hosts, contents \in Remote!Contents : Remote!RemoteChange(host, contents)
    PROVE  RemoteInv'
  <1> USE DEF Remote!ui, Remote!disk
  <1>1. UNCHANGED Apart /\ alias' \in Labels /\ remoteFile' \in [Hosts -> Remote!Contents]
    BY DEF RemoteInv, RemoteTypes, Apart, Labels, Remote!AliasChanged, Remote!TaskChanged,
           Remote!ReviewRemoteTask, Remote!CancelRemoteTask, Remote!Pick, Remote!RemoteChange
  <1>2. Remote!ReviewedIsRun'
    BY DEF RemoteInv, Remote!ReviewedIsRun, Remote!AliasChanged, Remote!TaskChanged,
           Remote!ReviewRemoteTask, Remote!CancelRemoteTask, Remote!Pick, Remote!RemoteChange
  <1>3. RemoteTypes'
    BY <1>1 DEF RemoteInv, RemoteTypes, Apart
  <1>4. \A t \in tasks' : FitsTask(t)' /\ MadeAlone(t)'
    BY <1>1 DEF RemoteInv, FitsTask, MadeAlone, Apart
  <1>5. Remote!ShownIsOfConnection'
    BY <1>1 DEF RemoteInv, Remote!ShownIsOfConnection, Apart
  <1> QED
    BY <1>2, <1>3, <1>4, <1>5 DEF RemoteInv

\* An action of the editor changes the text alone.
LEMMA TypingKeeps ==
    ASSUME RemoteInv, NEW text \in Texts, Remote!RemoteDocumentAction(text)
    PROVE  RemoteInv'
  <1> DEFINE typed == [document EXCEPT !.text = text]
             d == [typed EXCEPT !.dirty = TRUE]
  <1>1. document \in Shown /\ document # Nothing
    BY DEF RemoteInv, RemoteTypes, Remote!RemoteDocumentAction
  <1>2. typed \in Shown /\ typed.host = document.host /\ typed.generation = document.generation
    BY <1>1 DEF Shown
  <1> HIDE DEF typed
  <1>3. d \in Shown /\ d.host = document.host /\ d.generation = document.generation
    BY <1>2 DEF Shown
  <1>4. document' = d
    BY DEF Remote!RemoteDocumentAction, typed
  <1> HIDE DEF d
  <1>5. UNCHANGED <<status, connection, hostLabel, files, results, runtime, tasks, alias,
                    remoteFile, consent, command>>
    BY DEF Remote!RemoteDocumentAction, Remote!disk
  <1>6. RemoteTypes'
    BY <1>3, <1>4, <1>5 DEF RemoteInv, RemoteTypes
  <1>7. \A t \in tasks' : FitsTask(t)' /\ MadeAlone(t)'
    BY <1>1, <1>5 DEF RemoteInv, FitsTask, MadeAlone
  <1>8. Remote!ShownIsOfConnection'
    BY <1>1, <1>3, <1>4, <1>5 DEF RemoteInv, Remote!ShownIsOfConnection
  <1>9. Remote!ReviewedIsRun'
    BY <1>5 DEF RemoteInv, Remote!ReviewedIsRun
  <1> QED
    BY <1>6, <1>7, <1>8, <1>9 DEF RemoteInv

\* The requests of a connection that is ready.
LEMMA RequestIsOperation ==
    ASSUME RemoteInv, status = "Ready", NEW kind \in {"list", "query", "task"}
    PROVE  LET t == Remote!Operation(kind) IN
           /\ t \in RemoteJobs /\ t.kind \in Operations /\ t.kind # "open"
           /\ t.generation = connection /\ t.host = hostLabel
  <1>1. runtime.host = hostLabel /\ hostLabel \in Labels /\ connection \in Nat
    BY DEF RemoteInv, RemoteTypes, Remote!ShownIsOfConnection
  <1>2. Remote!Operation(kind) \in Requests
    BY <1>1 DEF Remote!Operation, Requests, Asks, Replies
  <1> QED
    BY <1>1, <1>2 DEF Remote!Operation, Operations, RemoteJobs

\* So is what a document is opened with.
LEMMA OpeningIsOperation ==
    ASSUME RemoteInv, status = "Ready"
    PROVE  LET t == Remote!Opening IN
           /\ t \in RemoteJobs /\ t.kind \in Operations /\ t.result = Nothing
           /\ t.generation = connection /\ t.host = hostLabel
  <1>1. runtime.host = hostLabel /\ hostLabel \in Labels /\ connection \in Nat
    BY DEF RemoteInv, RemoteTypes, Remote!ShownIsOfConnection
  <1>2. Remote!Opening \in Openings
    BY <1>1 DEF Remote!Opening, Openings
  <1> QED
    BY <1>1, <1>2 DEF Remote!Opening, Operations, RemoteJobs

\* And what it is saved with.
LEMMA SavingIsOperation ==
    ASSUME RemoteInv, status = "Ready", document # Nothing
    PROVE  LET t == Remote!Saving IN
           /\ t \in RemoteJobs /\ t.kind \in Operations /\ t.kind # "open"
           /\ t.generation = connection /\ t.host = hostLabel
  <1>1. /\ runtime.host = hostLabel /\ hostLabel \in Labels /\ connection \in Nat
        /\ document \in Shown
    BY DEF RemoteInv, RemoteTypes, Remote!ShownIsOfConnection
  <1>2. Remote!Saving \in Savings
    BY <1>1 DEF Remote!Saving, Savings, Shown, Replies
  <1> QED
    BY <1>1, <1>2 DEF Remote!Saving, Operations, RemoteJobs

\* An operation that starts is one of this connection, which is ready.
LEMMA StartingKeeps ==
    ASSUME RemoteInv,
           \/ Remote!RefreshRemoteFiles \/ Remote!OpenRemoteDocument
           \/ Remote!SaveRemoteDocument \/ Remote!RunRemoteSearch \/ Remote!RefreshRemoteGit
           \/ Remote!VerifyRemoteLanguage \/ Remote!ConfirmRemoteTask
    PROVE  RemoteInv'
  <1>1. PICK t : /\ Remote!Starts({t})
                 /\ \/ \E kind \in {"list", "query", "task"} : t = Remote!Operation(kind)
                    \/ t = Remote!Opening
                    \/ t = Remote!Saving /\ document # Nothing
    BY Zenon
    DEF Remote!RefreshRemoteFiles, Remote!OpenRemoteDocument, Remote!SaveRemoteDocument,
           Remote!RunRemoteSearch, Remote!RefreshRemoteGit, Remote!VerifyRemoteLanguage,
           Remote!ConfirmRemoteTask
  <1>2. status = "Ready" /\ tasks' = tasks \cup {t}
        /\ UNCHANGED <<status, connection, hostLabel, files, document, results, runtime,
                       alias, remoteFile, command>>
    BY <1>1 DEF Remote!Starts, Remote!Begins, Remote!disk
  <1>3. consent' = consent \/ consent' = Nothing
    BY DEF Remote!RefreshRemoteFiles, Remote!OpenRemoteDocument, Remote!SaveRemoteDocument,
           Remote!RunRemoteSearch, Remote!RefreshRemoteGit, Remote!VerifyRemoteLanguage,
           Remote!ConfirmRemoteTask
  <1>4. /\ t \in RemoteJobs /\ t.kind \in Operations
        /\ t.generation = connection /\ t.host = hostLabel
        /\ t.kind = "open" => t.result = Nothing
    BY <1>1, <1>2, RequestIsOperation, OpeningIsOperation, SavingIsOperation
  <1>5. RemoteTypes'
    BY <1>2, <1>4 DEF RemoteInv, RemoteTypes
  <1>6. \A u \in tasks' : FitsTask(u)' /\ MadeAlone(u)'
    <2> SUFFICES ASSUME NEW u \in tasks'
                 PROVE  FitsTask(u)' /\ MadeAlone(u)'
      OBVIOUS
    <2>1. t.kind # "connect" /\ connection \in Nat
      BY <1>4 DEF Operations, RemoteInv, RemoteTypes
    <2>2. CASE u = t
      BY <1>2, <1>4, <2>1, <2>2 DEF FitsTask, MadeAlone
    <2>3. CASE u \in tasks
      <3>1. FitsTask(u) /\ MadeAlone(u)
        BY <2>3 DEF RemoteInv
      <3> QED
        BY <1>2, <3>1 DEF FitsTask, MadeAlone
    <2> QED
      BY <1>2, <2>2, <2>3
  <1>7. Remote!ShownIsOfConnection'
    BY <1>2 DEF RemoteInv, Remote!ShownIsOfConnection
  <1>8. Remote!ReviewedIsRun'
    BY <1>2, <1>3 DEF RemoteInv, Remote!ReviewedIsRun
  <1> QED
    BY <1>5, <1>6, <1>7, <1>8 DEF RemoteInv

\* A new connection leaves nothing of the last one to be shown, and what was asked before is
\* of an earlier one.
LEMMA ConnectingKeeps ==
    ASSUME RemoteNumbers, RemoteInv,
           \/ Remote!ConnectRemote \/ \E task_ \in tasks : Remote!ConnectPosted(task_)
    PROVE  RemoteInv'
  <1> DEFINE t == Remote!ConnectTask
  <1>1. /\ connection' = connection + 1 /\ connection < MaxConnections
        /\ status' = "Connecting" /\ files' = Nothing /\ document' = Nothing
        /\ UNCHANGED <<alias, hostLabel, results, consent, command, runtime, remoteFile>>
    BY DEF Remote!ConnectRemote, Remote!ConnectPosted, Remote!Connecting, Remote!disk
  <1>2. PICK old \in SUBSET tasks : tasks' = old \cup {t}
    BY Zenon DEF Remote!ConnectRemote, Remote!ConnectPosted
  <1>3. connection \in Nat /\ connection + 1 \in Nat /\ connection + 1 <= MaxConnections
        /\ MaxConnections \in Nat /\ alias \in Labels
        /\ 0..connection \subseteq 0..(connection + 1) /\ connection + 1 \notin 0..connection
    BY <1>1 DEF RemoteInv, RemoteTypes, RemoteNumbers
  <1>4. t \in Requests /\ t.kind = "connect" /\ t.generation = connection + 1
    BY <1>3 DEF Remote!ConnectTask, Requests, Asks, Replies
  <1> HIDE DEF t
  <1>5. RemoteTypes'
    <2>1. tasks' \subseteq RemoteJobs
      BY <1>2, <1>4 DEF RemoteInv, RemoteTypes, RemoteJobs
    <2>2. "Connecting" \in Remote!RemoteStatuses
      BY DEF Remote!RemoteStatuses
    <2> QED
      BY <1>1, <1>3, <2>1, <2>2 DEF RemoteInv, RemoteTypes
  <1>6. \A u \in old : u.kind \in Operations \cup {"connect"} =>
                         u.generation \in Nat /\ u.generation < connection + 1
    <2> SUFFICES ASSUME NEW u \in old, u.kind \in Operations \cup {"connect"}
                 PROVE  u.generation \in Nat /\ u.generation < connection + 1
      OBVIOUS
    <2>1. u \in RemoteJobs /\ FitsTask(u)
      BY DEF RemoteInv, RemoteTypes
    <2>2. u.generation \in Nat
      BY <2>1 DEF RemoteJobs, Requests, Openings, Savings, Installs, Operations, Remaining
    <2> QED
      BY <1>3, <2>1, <2>2 DEF FitsTask
  <1>7. \A u \in tasks' : FitsTask(u)' /\ MadeAlone(u)'
    <2> SUFFICES ASSUME NEW u \in tasks'
                 PROVE  FitsTask(u)' /\ MadeAlone(u)'
      OBVIOUS
    <2>1. "connect" \notin Operations /\ "open" # "connect"
      BY DEF Operations
    <2>2. CASE u = t
      <3>1. FitsTask(u)'
        BY <1>1, <1>3, <1>4, <2>1, <2>2 DEF FitsTask
      <3>2. results' # Nothing => results'.under # connection'
        BY <1>1, <1>3 DEF RemoteInv, RemoteTypes
      <3>3. MadeAlone(u)'
        BY <1>1, <1>2, <1>3, <1>6, <2>2, <3>2 DEF MadeAlone
      <3> QED
        BY <3>1, <3>3
    <2>3. CASE u \in old
      <3>1. FitsTask(u)
        BY <2>3 DEF RemoteInv
      <3>2. u.kind \in Operations \cup {"connect"} =>
              u.generation <= connection + 1 /\ u.generation # connection + 1
        BY <1>3, <1>6, <2>3
      <3> QED
        BY <1>1, <3>1, <3>2 DEF FitsTask, MadeAlone
    <2> QED
      BY <1>2, <2>2, <2>3
  <1>8. Remote!ShownIsOfConnection'
    BY <1>1, <1>3 DEF RemoteInv, RemoteTypes, Remote!ShownIsOfConnection
  <1>9. Remote!ReviewedIsRun'
    BY <1>1 DEF RemoteInv, Remote!ReviewedIsRun
  <1> QED
    BY <1>5, <1>7, <1>8, <1>9 DEF RemoteInv

\* A connection that is given up leaves nothing, and no task is of the next one.
LEMMA DisconnectingKeeps ==
    ASSUME RemoteNumbers, RemoteInv, Remote!DisconnectRemote
    PROVE  RemoteInv'
  <1>1. /\ connection' = connection + 1 /\ connection < MaxConnections
        /\ status' = "Disconnected" /\ files' = Nothing /\ document' = Nothing
        /\ hostLabel' = Nothing /\ results' = Nothing /\ consent' = Nothing
        /\ UNCHANGED <<alias, command, tasks, remoteFile>>
    BY DEF Remote!DisconnectRemote, Remote!disk
  <1>2. connection \in Nat /\ connection + 1 \in Nat /\ connection + 1 <= MaxConnections
    BY <1>1 DEF RemoteInv, RemoteTypes, RemoteNumbers
  <1>3. RemoteTypes'
    <2>1. "Disconnected" \in Remote!RemoteStatuses /\ Nothing \in Labels
      BY DEF Remote!RemoteStatuses, Labels
    <2> QED
      BY <1>1, <1>2, <2>1 DEF RemoteInv, RemoteTypes
  <1>4. \A u \in tasks' : FitsTask(u)' /\ MadeAlone(u)'
    <2> SUFFICES ASSUME NEW u \in tasks
                 PROVE  FitsTask(u)' /\ MadeAlone(u)'
      BY <1>1
    <2>1. u \in RemoteJobs /\ FitsTask(u)
      BY DEF RemoteInv, RemoteTypes
    <2>2. u.kind \in Operations \cup {"connect"} => u.generation \in Nat
      BY <2>1 DEF RemoteJobs, Requests, Openings, Savings, Installs, Operations, Remaining
    <2>3. u.kind \in Operations \cup {"connect"} =>
            u.generation <= connection + 1 /\ u.generation # connection + 1
      BY <1>2, <2>1, <2>2 DEF FitsTask
    <2> QED
      BY <1>1, <2>1, <2>3 DEF FitsTask, MadeAlone
  <1>5. Remote!ShownIsOfConnection'
    BY <1>1 DEF Remote!ShownIsOfConnection
  <1>6. Remote!ReviewedIsRun'
    BY <1>1 DEF Remote!ReviewedIsRun
  <1> QED
    BY <1>3, <1>4, <1>5, <1>6 DEF RemoteInv

\* A task that is worked on stays what was asked.
Same(t, u) ==
    /\ u \in RemoteJobs /\ u.kind = t.kind
    /\ t.kind \in Operations \cup {"connect"} => u.generation = t.generation /\ u.host = t.host
    /\ u.kind = "open" /\ u.result # Nothing /\ u.result # "failed" => u.revision # Nothing

\* A task that was answered is otherwise the same.
LEMMA AnsweredIsSame ==
    ASSUME NEW t \in RemoteJobs, NEW reply,
           \/ t.kind # "open" /\ reply \in {"ok", "failed"}
           \/ t.kind = "open" /\ reply \in Texts \cup {"failed"}
                /\ (reply # "failed" => t.revision # Nothing)
    PROVE  Same(t, [t EXCEPT !.result = reply])
  <1> DEFINE u == [t EXCEPT !.result = reply]
  <1>1. CASE t \in Requests
    <2>1. t.kind \in Asks /\ t.kind # "open" /\ reply \in Replies
      BY <1>1 DEF Requests, Asks, Replies
    <2>2. u \in Requests /\ u.kind = t.kind /\ u.generation = t.generation /\ u.host = t.host
      BY <1>1, <2>1 DEF Requests
    <2> HIDE DEF u
    <2>3. Same(t, u)
      BY <2>1, <2>2 DEF Same, RemoteJobs
    <2> QED
      BY <2>3 DEF u
  <1>2. CASE t \in Openings
    <2>1. t.kind = "open" /\ reply \in Texts \cup {Nothing, "failed"}
      BY <1>2 DEF Openings
    <2>2. /\ u \in Openings /\ u.kind = t.kind /\ u.generation = t.generation
          /\ u.host = t.host /\ u.result = reply /\ u.revision = t.revision
      BY <1>2, <2>1 DEF Openings
    <2> HIDE DEF u
    <2>3. Same(t, u)
      BY <2>1, <2>2 DEF Same, RemoteJobs
    <2> QED
      BY <2>3 DEF u
  <1>3. CASE t \in Savings
    <2>1. t.kind = "save" /\ t.kind # "open" /\ reply \in Replies
      BY <1>3 DEF Savings, Replies
    <2>2. u \in Savings /\ u.kind = t.kind /\ u.generation = t.generation /\ u.host = t.host
      BY <1>3, <2>1 DEF Savings
    <2> HIDE DEF u
    <2>3. Same(t, u)
      BY <2>1, <2>2 DEF Same, RemoteJobs
    <2> QED
      BY <2>3 DEF u
  <1>4. CASE t \in Installs
    <2>1. t.kind \in Remaining /\ t.kind \notin Operations \cup {"connect"} /\ t.kind # "open"
          /\ reply \in Replies
      BY <1>4 DEF Installs, Remaining, Operations, Replies
    <2>2. u \in Installs /\ u.kind = t.kind
      BY <1>4, <2>1 DEF Installs
    <2> HIDE DEF u
    <2>3. Same(t, u)
      BY <2>1, <2>2 DEF Same, RemoteJobs
    <2> QED
      BY <2>3 DEF u
  <1> QED
    BY <1>1, <1>2, <1>3, <1>4 DEF RemoteJobs

\* The file has no text, which is what the desktop goes on with.
LEMMA FoundIsSame ==
    ASSUME NEW t \in RemoteJobs, t.kind = "open", t.result = Nothing
    PROVE  Same(t, [t EXCEPT !.revision = Invalid])
  <1> DEFINE u == [t EXCEPT !.revision = Invalid]
  <1>1. t \in Openings
    BY DEF RemoteJobs, Requests, Savings, Installs, Asks, Remaining
  <1>2. /\ u \in Openings /\ u.kind = t.kind /\ u.generation = t.generation
        /\ u.host = t.host /\ u.result = Nothing
    BY <1>1 DEF Openings
  <1> HIDE DEF u
  <1>3. Same(t, u)
    BY <1>2 DEF Same, RemoteJobs
  <1> QED
    BY <1>3 DEF u

\* The work on a task changes the task and at most the file.
LEMMA WorkingKeeps ==
    ASSUME RemoteInv, NEW t \in tasks, Remote!RemoteWork(t)
    PROVE  RemoteInv'
  <1>0. t \in RemoteJobs /\ FitsTask(t) /\ MadeAlone(t)
    BY DEF RemoteInv, RemoteTypes
  <1>1. /\ UNCHANGED <<status, connection, hostLabel, files, document, results, runtime, alias,
                       consent, command>>
        /\ remoteFile' \in [Hosts -> Remote!Contents]
    <2>1. CASE Remote!WriteFile(t)
      <3>1. CASE remoteFile' = remoteFile
        BY <2>1, <3>1 DEF Remote!WriteFile, Remote!ui, RemoteInv, RemoteTypes
      <3>2. CASE remoteFile' = [remoteFile EXCEPT ![t.host] = t.text]
        <4>1. t.text \in Remote!Contents
          BY <1>0, <2>1 DEF Remote!WriteFile, RemoteJobs, Requests, Openings, Savings,
                            Installs, Asks, Remaining, Remote!Contents
        <4> QED
          BY <2>1, <3>2, <4>1 DEF Remote!WriteFile, Remote!ui, RemoteInv, RemoteTypes
      <3> QED
        BY <2>1, <3>1, <3>2 DEF Remote!WriteFile
    <2>2. CASE Remote!RunSimple(t) \/ Remote!Stat(t) \/ Remote!ReadFile(t)
      BY <2>2 DEF Remote!RunSimple, Remote!Stat, Remote!ReadFile, Remote!ui, Remote!disk,
                  RemoteInv, RemoteTypes
    <2> QED
      BY <2>1, <2>2 DEF Remote!RemoteWork
  <1>2. PICK u : Same(t, u) /\ tasks' = (tasks \ {t}) \cup {u}
    <2>1. CASE Remote!RunSimple(t)
      <3>1. t.kind # "open"
        BY <2>1 DEF Remote!RunSimple
      <3>2. PICK reply \in {"ok", "failed"} : tasks' = Remote!Answer(t, reply)
        BY <2>1 DEF Remote!RunSimple
      <3> QED
        BY <1>0, <3>1, <3>2, AnsweredIsSame DEF Remote!Answer
    <2>2. CASE Remote!Stat(t)
      <3>1. t.kind = "open" /\ t.result = Nothing
        BY <2>2 DEF Remote!Stat, Remote!Done
      <3>2. \/ tasks' = (tasks \ {t}) \cup {[t EXCEPT !.revision = Invalid]}
            \/ tasks' = Remote!Answer(t, "failed")
        BY <2>2 DEF Remote!Stat
      <3> QED
        BY <1>0, <3>1, <3>2, AnsweredIsSame, FoundIsSame DEF Remote!Answer
    <2>3. CASE Remote!ReadFile(t)
      <3>1. t.kind = "open" /\ t.revision # Nothing
        BY <2>3 DEF Remote!ReadFile
      <3>2. PICK reply \in Texts \cup {"failed"} : tasks' = Remote!Answer(t, reply)
        BY <2>3 DEF Remote!ReadFile
      <3> QED
        BY <1>0, <3>1, <3>2, AnsweredIsSame DEF Remote!Answer
    <2>4. CASE Remote!WriteFile(t)
      <3>1. t.kind # "open"
        BY <2>4 DEF Remote!WriteFile
      <3>2. PICK reply \in {"ok", "failed"} : tasks' = Remote!Answer(t, reply)
        BY <2>4 DEF Remote!WriteFile
      <3> QED
        BY <1>0, <3>1, <3>2, AnsweredIsSame DEF Remote!Answer
    <2> QED
      BY <2>1, <2>2, <2>3, <2>4 DEF Remote!RemoteWork
  <1>3. RemoteTypes'
    <2>1. tasks' \subseteq RemoteJobs
      BY <1>2 DEF RemoteInv, RemoteTypes, Same
    <2> QED
      BY <1>1, <2>1 DEF RemoteInv, RemoteTypes
  <1>4. \A v \in tasks' : FitsTask(v)' /\ MadeAlone(v)'
    <2>1. FitsTask(u)
      BY <1>0, <1>2 DEF FitsTask, Same
    <2>2. ASSUME NEW v \in tasks', NEW w \in tasks, (v = w /\ w # t) \/ (v = u /\ w = t)
          PROVE  MadeAlone(v)'
      <3> SUFFICES ASSUME v.kind = "connect", v.generation = connection
                   PROVE  /\ files = Nothing /\ document = Nothing /\ status # "Ready"
                          /\ results # Nothing => results.under # connection
                          /\ \A x \in tasks' : x.kind \in Operations \cup {"connect"}
                               /\ x.generation = connection => x = v
        BY <1>1 DEF MadeAlone
      <3>1. w.kind = "connect" /\ w.generation = connection
        BY <1>2, <2>2 DEF Same
      <3>2. /\ files = Nothing /\ document = Nothing /\ status # "Ready"
            /\ results # Nothing => results.under # connection
            /\ \A x \in tasks : x.kind \in Operations \cup {"connect"}
                 /\ x.generation = connection => x = w
        BY <3>1 DEF RemoteInv, MadeAlone
      <3>3. ASSUME NEW x \in tasks', x.kind \in Operations \cup {"connect"},
                   x.generation = connection
            PROVE  x = v
        <4>1. CASE x = u
          <5>1. t.kind \in Operations \cup {"connect"} /\ t.generation = connection
            BY <1>2, <3>3, <4>1 DEF Same
          <5> QED
            BY <2>2, <3>2, <4>1, <5>1
        <4>2. CASE x \in tasks /\ x # t
          BY <2>2, <3>2, <3>3, <4>2
        <4> QED
          BY <1>2, <4>1, <4>2
      <3> QED
        BY <3>2, <3>3
    <2>3. \A v \in tasks' : FitsTask(v)
      BY <1>2, <2>1 DEF RemoteInv
    <2> QED
      BY <1>1, <1>2, <2>2, <2>3 DEF FitsTask
  <1>5. Remote!ShownIsOfConnection' /\ Remote!ReviewedIsRun'
    BY <1>1 DEF RemoteInv, Remote!ShownIsOfConnection, Remote!ReviewedIsRun
  <1> QED
    BY <1>3, <1>4, <1>5 DEF RemoteInv

\* An operation of this connection excludes that the connection is still being made.
LEMMA NotMadeYet ==
    ASSUME RemoteInv, NEW t \in tasks, t.kind \in Operations, t.generation = connection,
           NEW u \in tasks, u.kind = "connect"
    PROVE  u.generation # connection
  <1>1. MadeAlone(u)
    BY DEF RemoteInv
  <1>2. t.kind # "connect"
    BY DEF Operations
  <1> QED
    BY <1>1, <1>2 DEF MadeAlone

\* An answer to an operation is shown when it is one of this connection.
LEMMA FinishingKeeps ==
    ASSUME RemoteInv, NEW t \in tasks,
           \/ Remote!RemoteFilesFinished(t) \/ Remote!RemoteDocumentFinished(t)
           \/ Remote!RemoteSaveFinished(t) \/ Remote!RemoteResultFinished(t)
    PROVE  RemoteInv'
  <1>0. t \in RemoteJobs /\ FitsTask(t)
    BY DEF RemoteInv, RemoteTypes
  <1>1. /\ UNCHANGED <<connection, hostLabel, runtime, alias, command, remoteFile>>
        /\ tasks' = tasks \ {t}
        /\ t.kind \in Operations
        /\ status' = status \/ status' = "Stale"
        /\ consent' = consent \/ consent' = Nothing
        /\ Remote!IsCurrent(t) \/ UNCHANGED <<status, files, document, results>>
    BY DEF Remote!RemoteFilesFinished, Remote!RemoteDocumentFinished, Remote!RemoteSaveFinished,
           Remote!RemoteResultFinished, Remote!disk, Operations
  <1>2. Remote!IsCurrent(t) => t.host = hostLabel /\ t.generation = connection
    BY <1>0, <1>1 DEF FitsTask, Remote!IsCurrent
  <1>3. /\ files' = Nothing \/ files' \in Connected
        /\ files' # Nothing => files'.generation = connection /\ files'.host = hostLabel
    <2>1. CASE files' = files
      BY <2>1 DEF RemoteInv, RemoteTypes, Remote!ShownIsOfConnection
    <2>2. CASE files' # files
      <3>1. files' = [host |-> t.host, generation |-> t.generation] /\ Remote!IsCurrent(t)
        BY <2>2 DEF Remote!RemoteFilesFinished, Remote!RemoteDocumentFinished,
                    Remote!RemoteSaveFinished, Remote!RemoteResultFinished
      <3>2. connection \in Nat /\ hostLabel \in Labels
        BY DEF RemoteInv, RemoteTypes
      <3> QED
        BY <1>2, <3>1, <3>2 DEF Connected
    <2> QED
      BY <2>1, <2>2
  <1>4. /\ document' = Nothing \/ document' \in Shown
        /\ document' # Nothing => document'.generation = connection /\ document'.host = hostLabel
    <2>1. CASE document' = document
      BY <2>1 DEF RemoteInv, RemoteTypes, Remote!ShownIsOfConnection
    <2>2. CASE document' # document /\ Remote!RemoteDocumentFinished(t)
      <3>1. /\ document' = [host |-> t.host, generation |-> t.generation, text |-> t.result,
                            revision |-> t.revision, dirty |-> FALSE]
            /\ Remote!IsCurrent(t) /\ t.result # "failed" /\ t.result # Nothing /\ t.kind = "open"
        BY <2>2 DEF Remote!RemoteDocumentFinished, Remote!Done
      <3>2. t \in Openings
        BY <1>0, <3>1 DEF RemoteJobs, Requests, Savings, Installs, Asks, Remaining
      <3>3. t.result \in Texts /\ t.revision \in Remote!Contents
        BY <1>0, <3>1, <3>2 DEF Openings, FitsTask, Remote!Contents
      <3>4. connection \in Nat /\ hostLabel \in Labels
        BY DEF RemoteInv, RemoteTypes
      <3> QED
        BY <1>2, <3>1, <3>3, <3>4 DEF Shown
    <2>3. CASE document' # document /\ Remote!RemoteSaveFinished(t)
      <3> DEFINE e == [document EXCEPT !.revision = t.text]
                 d == [e EXCEPT !.dirty = FALSE]
      <3>1. document' = d /\ document # Nothing /\ t.kind = "save"
        BY <2>3 DEF Remote!RemoteSaveFinished
      <3>2. t.text \in Remote!Contents
        BY <1>0, <3>1 DEF RemoteJobs, Requests, Openings, Savings, Installs, Asks, Remaining,
                          Remote!Contents
      <3>3. document \in Shown /\ document.generation = connection /\ document.host = hostLabel
        BY <3>1 DEF RemoteInv, RemoteTypes, Remote!ShownIsOfConnection
      <3>4. e \in Shown /\ e.generation = document.generation /\ e.host = document.host
        BY <3>2, <3>3 DEF Shown
      <3> HIDE DEF e
      <3>5. d \in Shown /\ d.generation = e.generation /\ d.host = e.host
        BY <3>4 DEF Shown
      <3> HIDE DEF d
      <3> QED
        BY <3>1, <3>3, <3>4, <3>5
    <2>4. CASE document' # document
               /\ (Remote!RemoteFilesFinished(t) \/ Remote!RemoteResultFinished(t))
      BY <2>4 DEF Remote!RemoteFilesFinished, Remote!RemoteResultFinished
    <2> QED
      BY <2>1, <2>2, <2>3, <2>4
  <1>10. /\ results' # Nothing => results'.under \in 0..connection
         /\ results' # Nothing =>
              /\ results'.generation = results'.under
              /\ results'.under = connection => results'.host = hostLabel
    <2>1. CASE results' = results
      BY <2>1 DEF RemoteInv, RemoteTypes, Remote!ShownIsOfConnection
    <2>2. CASE results' # results
      <3>1. /\ results' = [host |-> t.host, generation |-> t.generation, under |-> connection]
            /\ Remote!IsCurrent(t)
        BY <2>2 DEF Remote!RemoteFilesFinished, Remote!RemoteDocumentFinished,
                    Remote!RemoteSaveFinished, Remote!RemoteResultFinished
      <3>2. connection \in 0..connection
        BY DEF RemoteInv, RemoteTypes
      <3> QED
        BY <1>2, <3>1, <3>2
    <2> QED
      BY <2>1, <2>2
  <1>5. RemoteTypes'
    <2>1. "Stale" \in Remote!RemoteStatuses /\ "Stale" # "Ready"
      BY DEF Remote!RemoteStatuses
    <2> QED
      BY <1>1, <1>3, <1>4, <1>10, <2>1 DEF RemoteInv, RemoteTypes
  <1>6. \A v \in tasks' : FitsTask(v)' /\ MadeAlone(v)'
    <2> SUFFICES ASSUME NEW v \in tasks, v # t
                 PROVE  FitsTask(v)' /\ MadeAlone(v)'
      BY <1>1
    <2>1. FitsTask(v) /\ MadeAlone(v)
      BY DEF RemoteInv
    <2>2. v.kind = "connect" /\ v.generation = connection =>
            UNCHANGED <<status, files, document, results>>
      BY <1>1, NotMadeYet DEF Remote!IsCurrent
    <2> QED
      BY <1>1, <2>1, <2>2 DEF FitsTask, MadeAlone
  <1>7. Remote!ShownIsOfConnection'
    <2>1. status' = "Ready" => status = "Ready"
      BY <1>1
    <2> QED
      BY <1>1, <1>3, <1>4, <1>10, <2>1 DEF RemoteInv, Remote!ShownIsOfConnection
  <1>8. Remote!ReviewedIsRun'
    BY <1>1 DEF RemoteInv, Remote!ReviewedIsRun
  <1> QED
    BY <1>5, <1>6, <1>7, <1>8 DEF RemoteInv

\* A connection that is made is named on the label, and nothing was asked of it before.
LEMMA ConnectedKeeps ==
    ASSUME RemoteInv, NEW t \in tasks, Remote!RemoteConnected(t)
    PROVE  RemoteInv'
  <1>0. t \in RemoteJobs /\ FitsTask(t) /\ MadeAlone(t) /\ t.kind = "connect"
    BY DEF RemoteInv, RemoteTypes, Remote!RemoteConnected
  <1>1. /\ UNCHANGED <<connection, files, document, results, alias, consent, command, remoteFile>>
        /\ tasks' = tasks \ {t}
    BY DEF Remote!RemoteConnected, Remote!disk
  <1>2. t.generation \in Nat /\ t.host \in Labels
    BY <1>0 DEF RemoteJobs, Requests, Openings, Savings, Installs, Remaining
  <1>3. /\ status' \in Remote!RemoteStatuses /\ hostLabel' \in Labels
        /\ status' = "Ready" => runtime' \in Connected
        /\ status' = "Ready" => runtime'.generation = connection /\ runtime'.host = hostLabel'
    <2>1. CASE ~Remote!IsCurrent(t)
      BY <2>1 DEF Remote!RemoteConnected, RemoteInv, RemoteTypes, Remote!ShownIsOfConnection
    <2>2. CASE Remote!IsCurrent(t) /\ status' = "TerminalOnly" /\ hostLabel' = alias
      BY <2>2 DEF RemoteInv, RemoteTypes, Remote!RemoteStatuses
    <2>3. CASE /\ Remote!IsCurrent(t) /\ status' = "Ready" /\ hostLabel' = t.host
               /\ runtime' = [host |-> t.host, generation |-> t.generation]
      BY <1>2, <2>3 DEF Connected, Remote!RemoteStatuses, Remote!IsCurrent
    <2> QED
      BY <2>1, <2>2, <2>3 DEF Remote!RemoteConnected
  <1>4. RemoteTypes'
    BY <1>1, <1>3 DEF RemoteInv, RemoteTypes
  <1>5. CASE ~Remote!IsCurrent(t)
    <2>1. UNCHANGED <<status, hostLabel, runtime>>
      BY <1>5 DEF Remote!RemoteConnected
    <2>2. \A v \in tasks' : FitsTask(v)' /\ MadeAlone(v)'
      BY <1>1, <2>1 DEF RemoteInv, FitsTask, MadeAlone
    <2> QED
      BY <1>1, <1>4, <2>1, <2>2 DEF RemoteInv, Remote!ShownIsOfConnection, Remote!ReviewedIsRun
  <1>6. CASE Remote!IsCurrent(t)
    <2>1. /\ files = Nothing /\ document = Nothing
          /\ results # Nothing => results.under # connection
          /\ \A u \in tasks : u.kind \in Operations \cup {"connect"} /\ u.generation = connection
                                => u = t
      BY <1>0, <1>6 DEF MadeAlone, Remote!IsCurrent
    <2>2. \A v \in tasks' : FitsTask(v)' /\ MadeAlone(v)'
      BY <1>1, <2>1 DEF RemoteInv, FitsTask, MadeAlone
    <2>3. Remote!ShownIsOfConnection'
      BY <1>1, <1>3, <2>1 DEF RemoteInv, Remote!ShownIsOfConnection
    <2> QED
      BY <1>1, <1>4, <2>2, <2>3 DEF RemoteInv, Remote!ReviewedIsRun
  <1> QED
    BY <1>5, <1>6

\* An installation takes the connection's status and leaves what is shown.
LEMMA InstallingKeeps ==
    ASSUME RemoteInv,
           \/ Remote!ConfirmRemoteHelperInstall
           \/ \E t \in tasks : Remote!RemoteHelperInstalled(t)
    PROVE  RemoteInv'
  <1>1. /\ UNCHANGED <<connection, hostLabel, files, document, results, runtime, alias, consent,
                       command, remoteFile>>
        /\ status' = status \/ status' = "Disconnected"
    BY DEF Remote!ConfirmRemoteHelperInstall, Remote!RemoteHelperInstalled, Remote!disk
  <1>2. \A v \in tasks' : v \in tasks \/ v \in Installs
    <2>1. /\ [kind |-> "install", result |-> Nothing] \in Installs
          /\ [kind |-> "posted", result |-> "ok"] \in Installs
      BY DEF Installs, Remaining, Replies
    <2> QED
      BY <2>1 DEF Remote!ConfirmRemoteHelperInstall, Remote!RemoteHelperInstalled
  <1>3. \A v \in Installs : v \in RemoteJobs /\ v.kind \notin Operations \cup {"connect"}
                            /\ v.kind # "open" /\ v.kind # "connect"
    BY DEF Installs, RemoteJobs, Operations, Remaining
  <1>4. RemoteTypes'
    <2>1. "Disconnected" \in Remote!RemoteStatuses /\ "Disconnected" # "Ready"
      BY DEF Remote!RemoteStatuses
    <2>2. tasks' \subseteq RemoteJobs
      BY <1>2, <1>3 DEF RemoteInv, RemoteTypes
    <2> QED
      BY <1>1, <2>1, <2>2 DEF RemoteInv, RemoteTypes
  <1>5. \A v \in tasks' : FitsTask(v)' /\ MadeAlone(v)'
    <2> SUFFICES ASSUME NEW v \in tasks'
                 PROVE  FitsTask(v)' /\ MadeAlone(v)'
      OBVIOUS
    <2>1. CASE v \in Installs
      BY <1>3, <2>1 DEF FitsTask, MadeAlone
    <2>2. CASE v \in tasks
      <3>1. FitsTask(v) /\ MadeAlone(v)
        BY <2>2 DEF RemoteInv
      <3> QED
        BY <1>1, <1>2, <1>3, <3>1 DEF FitsTask, MadeAlone
    <2> QED
      BY <1>2, <2>1, <2>2
  <1>6. Remote!ShownIsOfConnection' /\ Remote!ReviewedIsRun'
    <2>1. status' = "Ready" => status = "Ready"
      BY <1>1
    <2> QED
      BY <1>1, <2>1 DEF RemoteInv, Remote!ShownIsOfConnection, Remote!ReviewedIsRun
  <1> QED
    BY <1>4, <1>5, <1>6 DEF RemoteInv

\* Nothing is connected at the start, and every step keeps the invariant (remote.rs, app.rs).
LEMMA RemoteIsInductive ==
    ASSUME RemoteNumbers
    PROVE  /\ Remote!RemoteInit => RemoteInv
           /\ RemoteInv /\ [Remote!RemoteNext]_(Remote!remoteVars) => RemoteInv'
           /\ RemoteInv => /\ Remote!RemoteTypeOK /\ Remote!ShownIsOfConnection
                           /\ Remote!ReviewedIsRun
  <1>1. ASSUME Remote!RemoteInit PROVE RemoteInv
    <2>1. RemoteTypes
      BY <1>1 DEF Remote!RemoteInit, RemoteTypes, RemoteNumbers, Labels, Remote!RemoteStatuses
    <2> QED
      BY <1>1, <2>1 DEF Remote!RemoteInit, RemoteInv, Remote!ShownIsOfConnection,
                        Remote!ReviewedIsRun
  <1>2. ASSUME RemoteInv, Remote!RemoteMessages PROVE RemoteInv'
    BY <1>2, PickingKeeps, TypingKeeps, StartingKeeps, ConnectingKeeps, DisconnectingKeeps,
       InstallingKeeps DEF Remote!RemoteMessages
  <1>3. ASSUME RemoteInv, NEW t \in tasks, Remote!RemoteAnswers(t) PROVE RemoteInv'
    BY <1>3, FinishingKeeps, ConnectedKeeps, InstallingKeeps, ConnectingKeeps
    DEF Remote!RemoteAnswers
  <1>4. ASSUME RemoteInv, Remote!RemoteNext PROVE RemoteInv'
    BY <1>2, <1>3, <1>4, WorkingKeeps, PickingKeeps DEF Remote!RemoteNext
  <1>5. ASSUME RemoteInv, UNCHANGED Remote!remoteVars PROVE RemoteInv'
    BY <1>5 DEF Remote!remoteVars, Remote!ui, Remote!disk, RemoteInv, RemoteTypes, FitsTask,
                MadeAlone, Remote!ShownIsOfConnection, Remote!ReviewedIsRun
  <1>6. ASSUME RemoteInv PROVE Remote!RemoteTypeOK
    BY <1>6 DEF RemoteInv, RemoteTypes, Shown, Remote!RemoteTypeOK, RemoteNumbers
  <1> QED
    BY <1>1, <1>4, <1>5, <1>6 DEF RemoteInv

-----------------------------------------------------------------------------
(* The tmux provider of the helper.                                         *)

TmuxKinds == {"Catalog", "Attach", "WritePane", "ResizePane", "Snapshot"}
TmuxRequests ==
    [kind : TmuxKinds, id : Nat \cup {Nothing}, target : Targets \cup {Nothing}, left : Nat,
     size : PaneSizes \cup {Nothing}]

\* The bounds are numbers, a server has finitely many panes, and no request is Nothing.
TmuxNumbers ==
    /\ MaxOutput \in Nat /\ MaxChunks \in Nat
    /\ IsFiniteSet(Targets)
    /\ Nothing \notin TmuxRequests /\ Nothing \notin PaneSizes

Projected == [target : Targets, size : PaneSizes]

ServerFits ==
    /\ DOMAIN tmuxServer \subseteq Targets
    /\ tmuxServer \in [DOMAIN tmuxServer -> Tmux!PaneInfo]

\* Every id below the next one was shown, once; those of the projection stand for what they
\* were shown for.
IdsFit ==
    /\ attached \in BOOLEAN
    /\ nextId \in Nat \ {0}
    /\ tmuxShown \in [1..(nextId - 1) -> Targets]
    /\ DOMAIN projection \subseteq DOMAIN tmuxShown
    /\ projection \in [DOMAIN projection -> Projected]
    /\ \A id \in DOMAIN projection : projection[id].target = tmuxShown[id]
    /\ projection # << >> =>
         {projection[id].target : id \in DOMAIN projection} = DOMAIN discovered

\* A request to write or resize is for the pane that was shown under its id, and what was sent
\* went there.
RequestFits ==
    /\ request = Nothing \/ request \in TmuxRequests
    /\ request # Nothing /\ request.kind = "WritePane" =>
         request.id \in DOMAIN tmuxShown /\ request.target = tmuxShown[request.id]
    /\ request # Nothing /\ request.kind = "ResizePane" => request.size \in PaneSizes
    /\ answer \in {"none", "pending", "ok", "failed", "too_large", "timed_out"}
    /\ (answer = "none") = (request = Nothing)
    /\ \A pair \in sent : pair[1] \in DOMAIN tmuxShown /\ tmuxShown[pair[1]] = pair[2]

Children == [state : {"running", "exited", "failed", "killed"}, left : Nat, pipe : Nat, wrote : Nat]
Drains == [kept : Nat, over : BOOLEAN, done : BOOLEAN]

\* What a child wrote is kept, in the pipe or still to write, until the bound is exceeded; it
\* has written all when it exits, and its reader has read all when it ends.
Whole(c, r) ==
    /\ c \in Children /\ r \in Drains
    /\ ~r.over => r.kept + c.pipe + c.left = c.wrote
    /\ c.state # "running" => c.left = 0
    /\ r.done => c.state # "running" /\ c.pipe = 0
CommandFits ==
    /\ answer = "pending" => Whole(child, reader)
    /\ Tmux!AcceptedIsWhole

\* The inductive invariant of the tmux provider.
TmuxInv == ServerFits /\ IdsFit /\ RequestFits /\ CommandFits

\* The instance counts as the library does.
LEMMA TmuxCardinality ==
    ASSUME NEW S
    PROVE  Tmux!Cardinality(S) = Cardinality(S)
  BY DEF Tmux!Cardinality, Cardinality

\* The child and its reader go on, and the loop looks at them.
LEMMA RunningKeeps ==
    ASSUME TmuxNumbers, TmuxInv,
           \/ Tmux!ChildWrites \/ Tmux!ChildExits \/ Tmux!ReaderReads \/ Tmux!ReaderEnds
           \/ Tmux!LoopKills \/ Tmux!LoopBreaks
    PROVE  TmuxInv'
  <1>1. /\ UNCHANGED <<tmuxServer, attached, discovered, projection, nextId, tmuxShown, request,
                       sent>>
        /\ answer = "pending"
        /\ answer' \in {"pending", "ok", "failed", "too_large", "timed_out"}
    BY DEF Tmux!ChildWrites, Tmux!ChildExits, Tmux!ReaderReads, Tmux!ReaderEnds, Tmux!LoopKills,
           Tmux!LoopBreaks, Tmux!bridgeVars, Tmux!Finished
  <1>2. ServerFits' /\ IdsFit'
    BY <1>1 DEF TmuxInv, ServerFits, IdsFit
  <1>3. RequestFits'
    BY <1>1 DEF TmuxInv, RequestFits
  <1>4. Whole(child, reader)
    BY <1>1 DEF TmuxInv, CommandFits
  <1>5. CASE Tmux!ChildWrites
    <2> DEFINE d == [child EXCEPT !.left = child.left - 1]
               c == [d EXCEPT !.pipe = d.pipe + 1]
    <2>1. child' = c /\ reader' = reader /\ answer' = "pending" /\ child.left > 0
          /\ child.state = "running"
      BY <1>1, <1>5 DEF Tmux!ChildWrites
    <2>2. d \in Children /\ d.state = child.state /\ d.pipe = child.pipe /\ d.wrote = child.wrote
          /\ d.left = child.left - 1
      BY <1>4, <2>1 DEF Whole, Children
    <2> HIDE DEF d
    <2>3. c \in Children /\ c.state = d.state /\ c.pipe = d.pipe + 1 /\ c.wrote = d.wrote
          /\ c.left = d.left
      BY <2>2 DEF Children
    <2> HIDE DEF c
    <2>4. Whole(c, reader)
      BY <1>4, <2>1, <2>2, <2>3 DEF Whole, Children, Drains
    <2> QED
      BY <1>2, <1>3, <2>1, <2>4 DEF TmuxInv, CommandFits, Tmux!AcceptedIsWhole
  <1>6. CASE Tmux!ChildExits
    <2>1. PICK state_ \in {"exited", "failed"} : child' = [child EXCEPT !.state = state_]
      BY <1>6 DEF Tmux!ChildExits
    <2>2. reader' = reader /\ answer' = "pending" /\ child.left = 0
      BY <1>1, <1>6 DEF Tmux!ChildExits
    <2> DEFINE c == [child EXCEPT !.state = state_]
    <2>3. c \in Children /\ c.state = state_ /\ c.pipe = child.pipe /\ c.wrote = child.wrote
          /\ c.left = child.left /\ state_ # "running"
      BY <1>4, <2>1 DEF Whole, Children
    <2> HIDE DEF c
    <2>4. Whole(c, reader)
      BY <1>4, <2>2, <2>3 DEF Whole
    <2> QED
      BY <1>2, <1>3, <2>1, <2>2, <2>4 DEF TmuxInv, CommandFits, Tmux!AcceptedIsWhole, c
  <1>7. CASE Tmux!ReaderReads
    <2>1. PICK blocks \in 1..child.pipe :
            reader' = Tmux!Drained(blocks) /\ child' = [child EXCEPT !.pipe = @ - blocks]
      BY <1>7 DEF Tmux!ReaderReads
    <2>2. answer' = "pending" /\ ~reader.done
      BY <1>1, <1>7 DEF Tmux!ReaderReads
    <2>3. /\ child.pipe \in Nat /\ blocks \in Nat /\ blocks <= child.pipe
          /\ reader.kept \in Nat /\ reader.over \in BOOLEAN /\ MaxOutput \in Nat
      BY <1>4, <2>1 DEF Whole, Children, Drains, TmuxNumbers
    <2> DEFINE c == [child EXCEPT !.pipe = child.pipe - blocks]
               n == IF reader.kept + blocks <= MaxOutput THEN reader.kept + blocks ELSE MaxOutput
               o == reader.over \/ reader.kept + blocks > MaxOutput
               k == [reader EXCEPT !.kept = n]
               r == [k EXCEPT !.over = o]
    <2>4. n \in Nat /\ o \in BOOLEAN /\ (~o => ~reader.over /\ n = reader.kept + blocks)
      BY <2>3
    <2>5. child' = c /\ reader' = r
      BY <2>1 DEF Tmux!Drained
    <2> HIDE DEF n, o
    <2>6. k \in Drains /\ k.kept = n /\ k.done = reader.done
      BY <1>4, <2>4 DEF Whole, Drains
    <2> HIDE DEF k
    <2>7. r \in Drains /\ r.kept = n /\ r.over = o /\ r.done = reader.done
      BY <2>4, <2>6 DEF Drains
    <2> HIDE DEF r
    <2>8. /\ c \in Children /\ c.pipe = child.pipe - blocks /\ c.left = child.left
          /\ c.wrote = child.wrote /\ c.state = child.state
      BY <1>4, <2>3 DEF Whole, Children
    <2> HIDE DEF c
    <2>9. Whole(c, r)
      <3>1. ~r.over => r.kept + c.pipe + c.left = c.wrote
        <4> SUFFICES ASSUME ~r.over PROVE r.kept + c.pipe + c.left = c.wrote
          OBVIOUS
        <4>1. ~reader.over /\ r.kept = reader.kept + blocks
          BY <2>4, <2>7
        <4>2. reader.kept + child.pipe + child.left = child.wrote /\ child.left \in Nat
          BY <1>4, <4>1 DEF Whole, Children
        <4> QED
          BY <2>3, <2>8, <4>1, <4>2
      <3> QED
        BY <1>4, <2>2, <2>7, <2>8, <3>1 DEF Whole
    <2> QED
      BY <1>2, <1>3, <2>2, <2>5, <2>9 DEF TmuxInv, CommandFits, Tmux!AcceptedIsWhole
  <1>8. CASE Tmux!ReaderEnds
    <2> DEFINE r == [reader EXCEPT !.done = TRUE]
    <2>1. /\ answer' = "pending" /\ child' = child /\ reader' = r
          /\ child.state # "running" /\ child.pipe = 0
      BY <1>1, <1>8 DEF Tmux!ReaderEnds
    <2>2. r \in Drains /\ r.kept = reader.kept /\ r.over = reader.over
      BY <1>4 DEF Whole, Drains
    <2> HIDE DEF r
    <2>3. Whole(child, r)
      BY <1>4, <2>1, <2>2 DEF Whole
    <2> QED
      BY <1>2, <1>3, <2>1, <2>3 DEF TmuxInv, CommandFits, Tmux!AcceptedIsWhole
  <1>9. CASE Tmux!LoopKills
    <2>1. answer' \in {"too_large", "timed_out"}
      BY <1>9 DEF Tmux!LoopKills
    <2> QED
      BY <1>2, <1>3, <2>1 DEF TmuxInv, CommandFits, Tmux!AcceptedIsWhole
  <1>10. CASE Tmux!LoopBreaks
    <2>1. /\ UNCHANGED <<child, reader>> /\ reader.done /\ answer' = Tmux!Finished
          /\ child.state \in {"exited", "failed"}
      BY <1>10 DEF Tmux!LoopBreaks
    <2>2. answer' # "pending" /\ (answer' = "ok" => ~reader.over)
      BY <2>1 DEF Tmux!Finished
    <2>3. ASSUME ~reader.over PROVE reader.kept = child.wrote
      BY <1>4, <2>1, <2>3 DEF Whole, Children, Drains
    <2> QED
      BY <1>2, <1>3, <2>1, <2>2, <2>3 DEF TmuxInv, CommandFits, Tmux!AcceptedIsWhole
  <1> QED
    BY <1>5, <1>6, <1>7, <1>8, <1>9, <1>10

\* The server changes by itself.
LEMMA ServerKeeps ==
    ASSUME TmuxInv, Tmux!ServerChanges
    PROVE  TmuxInv'
  <1>1. UNCHANGED <<attached, discovered, projection, nextId, tmuxShown, request, sent, child,
                    reader, answer>>
    BY DEF Tmux!ServerChanges, Tmux!bridgeVars, Tmux!commandVars
  <1>2. ServerFits'
    <2> DEFINE S == DOMAIN tmuxServer
    <2>0. S \subseteq Targets /\ \A t \in S : tmuxServer[t] \in Tmux!PaneInfo
      BY DEF TmuxInv, ServerFits
    <2>1. PICK x \in Targets :
            \/ \E sz \in PaneSizes :
                 tmuxServer' = [t \in S \cup {x} |->
                    IF t = x THEN [size |-> sz, active |-> FALSE] ELSE tmuxServer[t]]
            \/ tmuxServer' = Tmux!Restrict(tmuxServer, S \ {x})
            \/ tmuxServer' = [t \in S |-> [tmuxServer[t] EXCEPT !.active = (t = x)]]
      BY Zenon DEF Tmux!ServerChanges
    <2>2. ASSUME NEW sz \in PaneSizes,
                 tmuxServer' = [t \in S \cup {x} |->
                    IF t = x THEN [size |-> sz, active |-> FALSE] ELSE tmuxServer[t]]
          PROVE  ServerFits'
      <3>1. [size |-> sz, active |-> FALSE] \in Tmux!PaneInfo
        BY DEF Tmux!PaneInfo
      <3> HIDE DEF S
      <3> QED
        BY <2>0, <2>2, <3>1 DEF ServerFits
    <2>3. CASE tmuxServer' = Tmux!Restrict(tmuxServer, S \ {x})
      <3> HIDE DEF S
      <3> QED
        BY <2>0, <2>3 DEF ServerFits, Tmux!Restrict
    <2>4. CASE tmuxServer' = [t \in S |-> [tmuxServer[t] EXCEPT !.active = (t = x)]]
      <3>1. \A t \in S : [tmuxServer[t] EXCEPT !.active = (t = x)] \in Tmux!PaneInfo
        <4> SUFFICES ASSUME NEW t \in S
                     PROVE  [tmuxServer[t] EXCEPT !.active = (t = x)] \in Tmux!PaneInfo
          OBVIOUS
        <4>1. PICK b \in BOOLEAN : b = (t = x)
          OBVIOUS
        <4>2. [tmuxServer[t] EXCEPT !.active = b] \in Tmux!PaneInfo
          BY <2>0 DEF Tmux!PaneInfo
        <4> QED
          BY <4>1, <4>2
      <3> HIDE DEF S
      <3> QED
        BY <2>0, <2>4, <3>1 DEF ServerFits
    <2> QED
      BY <2>1, <2>2, <2>3, <2>4
  <1> QED
    BY <1>1, <1>2 DEF TmuxInv, IdsFit, RequestFits, CommandFits, Tmux!AcceptedIsWhole

\* A command that starts has all to write.
LEMMA SpawnedIsWhole ==
    ASSUME NEW blocks \in Nat, Tmux!Spawned(blocks)
    PROVE  CommandFits' /\ answer' = "pending"
  <1>1. Whole(child', reader') /\ answer' = "pending"
    BY DEF Tmux!Spawned, Whole, Children, Drains
  <1> QED
    BY <1>1 DEF CommandFits, Tmux!AcceptedIsWhole

\* A request that starts is none but one for a pane that is shown.
LEMMA BeginKeeps ==
    ASSUME TmuxNumbers, TmuxInv,
           \/ \E attaches \in BOOLEAN : Tmux!BeginCatalog(attaches)
           \/ \E id \in DOMAIN tmuxShown :
                \/ \E n \in 1..MaxChunks : Tmux!BeginWrite(id, n)
                \/ \E sz \in PaneSizes : Tmux!BeginResize(id, sz)
                \/ Tmux!BeginSnapshot(id)
    PROVE  TmuxInv'
  <1>1. PICK req, blocks :
          /\ Tmux!Begin(req, blocks)
          /\ req \in TmuxRequests /\ blocks \in Nat
          /\ req.kind = "WritePane" => req.id \in DOMAIN tmuxShown /\ req.target = tmuxShown[req.id]
          /\ req.kind = "ResizePane" => req.size \in PaneSizes
    <2>1. CASE \E attaches \in BOOLEAN : Tmux!BeginCatalog(attaches)
      <3>1. PICK attaches \in BOOLEAN,
                 blocks \in {Tmux!Cardinality(DOMAIN tmuxServer), MaxOutput + 1} :
              Tmux!Begin([kind |-> IF attaches THEN "Attach" ELSE "Catalog", id |-> Nothing,
                          target |-> Nothing, left |-> 1, size |-> Nothing], blocks)
        BY <2>1 DEF Tmux!BeginCatalog
      <3>2. blocks \in Nat
        <4>1. IsFiniteSet(DOMAIN tmuxServer)
          BY FS_Subset DEF TmuxNumbers, TmuxInv, ServerFits
        <4> QED
          BY <3>1, <4>1, TmuxCardinality, FS_CardinalityType DEF TmuxNumbers
      <3> DEFINE req == [kind |-> IF attaches THEN "Attach" ELSE "Catalog", id |-> Nothing,
                         target |-> Nothing, left |-> 1, size |-> Nothing]
      <3>3. req \in TmuxRequests /\ req.kind \in {"Attach", "Catalog"}
        BY DEF TmuxRequests, TmuxKinds
      <3> QED
        BY <3>1, <3>2, <3>3
    <2>2. ASSUME NEW id \in DOMAIN tmuxShown, NEW n \in 1..MaxChunks, Tmux!BeginWrite(id, n)
          PROVE  \E req, blocks :
                   /\ Tmux!Begin(req, blocks)
                   /\ req \in TmuxRequests /\ blocks \in Nat
                   /\ req.kind = "WritePane" =>
                        req.id \in DOMAIN tmuxShown /\ req.target = tmuxShown[req.id]
                   /\ req.kind = "ResizePane" => req.size \in PaneSizes
      <3> DEFINE req == [kind |-> "WritePane", id |-> id, target |-> projection[id].target,
                         left |-> n, size |-> Nothing]
      <3>1. Tmux!Begin(req, 0) /\ id \in DOMAIN projection
        BY <2>2 DEF Tmux!BeginWrite
      <3>2. projection[id].target = tmuxShown[id] /\ tmuxShown[id] \in Targets /\ id \in Nat
        BY <3>1 DEF TmuxInv, IdsFit
      <3>3. req \in TmuxRequests
        BY <3>2 DEF TmuxRequests, TmuxKinds
      <3> QED
        BY <3>1, <3>2, <3>3
    <2>3. ASSUME NEW id \in DOMAIN tmuxShown, NEW sz \in PaneSizes, Tmux!BeginResize(id, sz)
          PROVE  \E req, blocks :
                   /\ Tmux!Begin(req, blocks)
                   /\ req \in TmuxRequests /\ blocks \in Nat
                   /\ req.kind = "WritePane" =>
                        req.id \in DOMAIN tmuxShown /\ req.target = tmuxShown[req.id]
                   /\ req.kind = "ResizePane" => req.size \in PaneSizes
      <3> DEFINE req == [kind |-> "ResizePane", id |-> id, target |-> projection[id].target,
                         left |-> 1, size |-> sz]
      <3>1. Tmux!Begin(req, 0) /\ id \in DOMAIN projection
        BY <2>3 DEF Tmux!BeginResize
      <3>2. projection[id].target = tmuxShown[id] /\ tmuxShown[id] \in Targets /\ id \in Nat
        BY <3>1 DEF TmuxInv, IdsFit
      <3>3. req \in TmuxRequests
        BY <3>2 DEF TmuxRequests, TmuxKinds
      <3> QED
        BY <3>1, <3>2, <3>3
    <2>4. ASSUME NEW id \in DOMAIN tmuxShown, Tmux!BeginSnapshot(id)
          PROVE  \E req, blocks :
                   /\ Tmux!Begin(req, blocks)
                   /\ req \in TmuxRequests /\ blocks \in Nat
                   /\ req.kind = "WritePane" =>
                        req.id \in DOMAIN tmuxShown /\ req.target = tmuxShown[req.id]
                   /\ req.kind = "ResizePane" => req.size \in PaneSizes
      <3> DEFINE req == [kind |-> "Snapshot", id |-> id, target |-> projection[id].target,
                         left |-> 1, size |-> Nothing]
      <3>1. id \in DOMAIN projection /\ \E blocks \in {1, MaxOutput + 1} : Tmux!Begin(req, blocks)
        BY <2>4 DEF Tmux!BeginSnapshot
      <3>2. projection[id].target = tmuxShown[id] /\ tmuxShown[id] \in Targets /\ id \in Nat
        BY <3>1 DEF TmuxInv, IdsFit
      <3>3. req \in TmuxRequests
        BY <3>2 DEF TmuxRequests, TmuxKinds
      <3> QED
        BY <3>1, <3>2, <3>3 DEF TmuxNumbers
    <2> QED
      BY <2>1, <2>2, <2>3, <2>4
  <1>2. /\ UNCHANGED <<tmuxServer, attached, discovered, projection, nextId, tmuxShown, sent>>
        /\ request' = req /\ Tmux!Spawned(blocks)
    BY <1>1 DEF Tmux!Begin, Tmux!bridgeVars
  <1>3. CommandFits' /\ answer' = "pending"
    BY <1>1, <1>2, SpawnedIsWhole
  <1>4. RequestFits'
    <2>1. req # Nothing
      BY <1>1 DEF TmuxNumbers
    <2> QED
      BY <1>1, <1>2, <1>3, <2>1 DEF TmuxInv, RequestFits
  <1>5. ServerFits' /\ IdsFit'
    BY <1>2 DEF TmuxInv, ServerFits, IdsFit
  <1> QED
    BY <1>3, <1>4, <1>5 DEF TmuxInv

\* A request that ends leaves no command.
LEMMA EndedFits ==
    ASSUME Tmux!Ended, request' = Nothing,
           \A pair \in sent' : pair[1] \in DOMAIN tmuxShown' /\ tmuxShown'[pair[1]] = pair[2]
    PROVE  RequestFits' /\ CommandFits'
  BY DEF Tmux!Ended, RequestFits, CommandFits, Tmux!AcceptedIsWhole

\* A discovery that differs gives every pane of the server one new id.
LEMMA RefreshedFits ==
    ASSUME TmuxNumbers, ServerFits, IdsFit, Tmux!Refreshed, attached' \in BOOLEAN
    PROVE  /\ IdsFit'
           /\ \A id \in DOMAIN tmuxShown : id \in DOMAIN tmuxShown' /\ tmuxShown'[id] = tmuxShown[id]
  <1>1. CASE discovered = tmuxServer
    <2>1. UNCHANGED <<discovered, projection, nextId, tmuxShown>>
      BY <1>1 DEF Tmux!Refreshed
    <2> QED
      BY <2>1 DEF IdsFit
  <1>2. CASE discovered # tmuxServer
    <2> DEFINE S == DOMAIN tmuxServer
               n == Cardinality(S)
               new == nextId..(nextId + n - 1)
    <2>1. IsFiniteSet(S) /\ n \in Nat /\ nextId \in Nat \ {0}
      BY FS_Subset, FS_CardinalityType DEF TmuxNumbers, ServerFits, IdsFit
    <2>2. Tmux!NewIds = new /\ Tmux!Cardinality(S) = n
      BY TmuxCardinality DEF Tmux!NewIds
    <2> DEFINE Names(fresh) ==
          \E given_ \in [fresh -> S] :
            /\ Tmux!IsInjective(given_)
            /\ projection' = [id \in fresh |->
                 [target |-> given_[id], size |-> tmuxServer[given_[id]].size]]
            /\ tmuxShown' = [id \in DOMAIN tmuxShown \cup fresh |->
                 IF id \in fresh THEN given_[id] ELSE tmuxShown[id]]
    <2>21. Names(Tmux!NewIds)
      BY <1>2, Zenon DEF Tmux!Refreshed
    <2>22. Names(new)
      <3> HIDE DEF Names, new
      <3> QED
        BY <2>2, <2>21
    <2>3. PICK given_ \in [new -> S] :
            /\ Tmux!IsInjective(given_)
            /\ projection' = [id \in new |->
                 [target |-> given_[id], size |-> tmuxServer[given_[id]].size]]
            /\ tmuxShown' = [id \in DOMAIN tmuxShown \cup new |->
                 IF id \in new THEN given_[id] ELSE tmuxShown[id]]
      BY <2>22
    <2> HIDE DEF Names
    <2>4. discovered' = tmuxServer /\ nextId' = nextId + n
      BY <1>2, <2>2 DEF Tmux!Refreshed
    <2> HIDE DEF n
    <2>5. /\ DOMAIN tmuxShown = 1..(nextId - 1) /\ S \subseteq Targets
          /\ \A id \in DOMAIN tmuxShown : tmuxShown[id] \in Targets
          /\ \A s \in S : tmuxServer[s].size \in PaneSizes
      BY DEF IdsFit, ServerFits, Tmux!PaneInfo
    <2>6. /\ DOMAIN tmuxShown \cup new = 1..(nextId' - 1)
          /\ \A id \in DOMAIN tmuxShown : id \notin new
          /\ new \subseteq 1..(nextId' - 1)
          /\ nextId' \in Nat \ {0}
      BY <2>1, <2>4, <2>5
    <2>7. {given_[id] : id \in new} = S
      <3>1. given_ \in Injection(new, S)
        BY <2>3 DEF Injection, IsInjective, Tmux!IsInjective
      <3>2. Cardinality(new) = Cardinality(S)
        <4> DEFINE last == nextId + n - 1
        <4>1. /\ nextId \in Int /\ last \in Int
              /\ (IF nextId > last THEN 0 ELSE last - nextId + 1) = n
          BY <2>1
        <4> HIDE DEF last
        <4>2. Cardinality(nextId..last) = IF nextId > last THEN 0 ELSE last - nextId + 1
          BY <4>1, FS_Interval
        <4>3. Cardinality(nextId..last) = n
          BY <4>1, <4>2
        <4> QED
          BY <4>3 DEF n, last
      <3>3. given_ \in Surjection(new, S)
        BY <2>1, <3>1, <3>2, FS_Injection
      <3> HIDE DEF new, S
      <3> QED
        BY <2>3, <3>3 DEF Surjection
    <2> HIDE DEF new, S
    <2>8. /\ tmuxShown' \in [1..(nextId' - 1) -> Targets]
          /\ \A id \in DOMAIN tmuxShown : id \in DOMAIN tmuxShown' /\ tmuxShown'[id] = tmuxShown[id]
          /\ \A id \in new : id \in DOMAIN tmuxShown' /\ tmuxShown'[id] = given_[id]
      BY <2>3, <2>5, <2>6
    <2>9. /\ DOMAIN projection' = new
          /\ \A id \in new : projection'[id].target = given_[id]
          /\ projection' \in [new -> Projected]
      BY <2>3, <2>5 DEF Projected
    <2>10. {projection'[id].target : id \in DOMAIN projection'} = DOMAIN discovered'
      BY <2>4, <2>7, <2>9 DEF S
    <2> QED
      BY <2>6, <2>8, <2>9, <2>10 DEF IdsFit
  <1> QED
    BY <1>1, <1>2

\* A catalog that was refused changes nothing.
LEMMA CatalogKeeps ==
    ASSUME TmuxNumbers, TmuxInv, Tmux!CompleteCatalog
    PROVE  TmuxInv'
  <1>1. request' = Nothing /\ Tmux!Ended /\ UNCHANGED <<tmuxServer, sent>>
    BY DEF Tmux!CompleteCatalog
  <1>2. /\ IdsFit'
        /\ \A id \in DOMAIN tmuxShown : id \in DOMAIN tmuxShown' /\ tmuxShown'[id] = tmuxShown[id]
    <2>1. CASE answer = "ok"
      <3>1. Tmux!Refreshed /\ attached' = (attached \/ request.kind = "Attach")
        BY <2>1 DEF Tmux!CompleteCatalog
      <3>2. attached' \in BOOLEAN
        BY <3>1
      <3> QED
        BY <3>1, <3>2, RefreshedFits DEF TmuxInv
    <2>2. CASE answer # "ok"
      <3>1. UNCHANGED <<attached, discovered, projection, nextId, tmuxShown>>
        BY <2>2 DEF Tmux!CompleteCatalog, Tmux!bridgeVars
      <3> QED
        BY <3>1 DEF TmuxInv, IdsFit
    <2> QED
      BY <2>1, <2>2
  <1>3. \A pair \in sent' : pair[1] \in DOMAIN tmuxShown' /\ tmuxShown'[pair[1]] = pair[2]
    BY <1>1, <1>2 DEF TmuxInv, RequestFits
  <1> QED
    BY <1>1, <1>2, <1>3, EndedFits DEF TmuxInv, ServerFits

\* Input goes on to the pane it was begun for, chunk by chunk.
LEMMA WriteKeeps ==
    ASSUME TmuxNumbers, TmuxInv, Tmux!CompleteWrite
    PROVE  TmuxInv'
  <1> DEFINE reached == answer = "ok" /\ request.target \in DOMAIN tmuxServer
  <1>1. UNCHANGED <<tmuxServer, attached, discovered, projection, nextId, tmuxShown>>
    BY DEF Tmux!CompleteWrite, Tmux!bridgeVars
  <1>2. /\ request \in TmuxRequests /\ request.kind = "WritePane"
        /\ request.id \in DOMAIN tmuxShown /\ request.target = tmuxShown[request.id]
    BY DEF TmuxInv, RequestFits, Tmux!CompleteWrite, Tmux!Idle
  <1>3. \A pair \in sent' : pair[1] \in DOMAIN tmuxShown' /\ tmuxShown'[pair[1]] = pair[2]
    <2>1. \A pair \in sent' : pair \in sent \/ pair = <<request.id, request.target>>
      BY DEF Tmux!CompleteWrite
    <2> QED
      BY <1>1, <1>2, <2>1 DEF TmuxInv, RequestFits
  <1>4. CASE reached /\ request.left > 1
    <2> DEFINE req == [request EXCEPT !.left = request.left - 1]
    <2>1. request' = req /\ Tmux!Spawned(0)
      BY <1>4 DEF Tmux!CompleteWrite
    <2>2. /\ req \in TmuxRequests /\ req.kind = "WritePane"
          /\ req.id = request.id /\ req.target = request.target
      BY <1>2, <1>4 DEF TmuxRequests
    <2> HIDE DEF req
    <2>3. CommandFits' /\ answer' = "pending"
      BY <2>1, SpawnedIsWhole
    <2>4. RequestFits'
      <3>1. req # Nothing
        BY <2>2 DEF TmuxNumbers
      <3> QED
        BY <1>1, <1>2, <1>3, <2>1, <2>2, <2>3, <3>1 DEF RequestFits
    <2> QED
      BY <1>1, <2>3, <2>4 DEF TmuxInv, ServerFits, IdsFit
  <1>5. CASE ~(reached /\ request.left > 1)
    <2>1. request' = Nothing /\ Tmux!Ended
      BY <1>5 DEF Tmux!CompleteWrite
    <2> QED
      BY <1>1, <1>3, <2>1, EndedFits DEF TmuxInv, ServerFits, IdsFit
  <1> QED
    BY <1>4, <1>5

\* A resize changes sizes only, of the server's pane and of what is shown.
LEMMA ResizeKeeps ==
    ASSUME TmuxNumbers, TmuxInv, Tmux!CompleteResize
    PROVE  TmuxInv'
  <1>1. /\ UNCHANGED <<attached, discovered, nextId, tmuxShown, sent>>
        /\ request' = Nothing /\ Tmux!Ended /\ request.size \in PaneSizes
    BY DEF Tmux!CompleteResize, Tmux!Idle, TmuxInv, RequestFits
  <1>2. ServerFits'
    <2>1. CASE tmuxServer' = tmuxServer
      BY <2>1 DEF TmuxInv, ServerFits
    <2>2. CASE tmuxServer' # tmuxServer
      <3>1. /\ request.target \in DOMAIN tmuxServer
            /\ \E sz \in {request.size, tmuxServer[request.target].size} :
                 tmuxServer' = [tmuxServer EXCEPT ![request.target].size = sz]
        BY <2>2 DEF Tmux!CompleteResize
      <3>2. PICK sz \in {request.size, tmuxServer[request.target].size} :
              tmuxServer' = [tmuxServer EXCEPT ![request.target].size = sz]
        BY <3>1
      <3>3. sz \in PaneSizes /\ tmuxServer[request.target] \in Tmux!PaneInfo
        BY <1>1, <3>1, <3>2 DEF TmuxInv, ServerFits, Tmux!PaneInfo
      <3>4. [tmuxServer[request.target] EXCEPT !.size = sz] \in Tmux!PaneInfo
        BY <3>3 DEF Tmux!PaneInfo
      <3> QED
        BY <3>1, <3>2, <3>4 DEF TmuxInv, ServerFits
    <2> QED
      BY <2>1, <2>2
  <1>3. IdsFit'
    <2>1. CASE projection' = projection
      BY <1>1, <2>1 DEF TmuxInv, IdsFit
    <2>2. CASE projection' # projection
      <3>1. /\ request.id \in DOMAIN projection
            /\ projection' = [projection EXCEPT ![request.id].size = request.size]
        BY <2>2 DEF Tmux!CompleteResize
      <3>2. PICK p : p = [projection[request.id] EXCEPT !.size = request.size]
        OBVIOUS
      <3>3. p \in Projected /\ p.target = projection[request.id].target
        BY <1>1, <3>1, <3>2 DEF TmuxInv, IdsFit, Projected
      <3>4. projection' = [projection EXCEPT ![request.id] = p]
        BY <3>1, <3>2
      <3>5. /\ DOMAIN projection' = DOMAIN projection
            /\ projection' \in [DOMAIN projection -> Projected]
            /\ \A id \in DOMAIN projection : projection'[id].target = projection[id].target
        BY <3>1, <3>3, <3>4 DEF TmuxInv, IdsFit
      <3>6. {projection'[id].target : id \in DOMAIN projection'}
              = {projection[id].target : id \in DOMAIN projection}
        BY <3>5
      <3>7. projection # << >>
        <4>1. DOMAIN << >> = {}
          OBVIOUS
        <4> QED
          BY <3>1, <4>1
      <3> QED
        BY <1>1, <3>5, <3>6, <3>7 DEF TmuxInv, IdsFit
    <2> QED
      BY <2>1, <2>2
  <1>4. \A pair \in sent' : pair[1] \in DOMAIN tmuxShown' /\ tmuxShown'[pair[1]] = pair[2]
    BY <1>1 DEF TmuxInv, RequestFits
  <1> QED
    BY <1>1, <1>2, <1>3, <1>4, EndedFits DEF TmuxInv

\* Detaching runs nothing, and a snapshot changes nothing.
LEMMA DetachKeeps ==
    ASSUME TmuxInv, Tmux!Detach \/ Tmux!CompleteSnapshot
    PROVE  TmuxInv'
  <1>1. CASE Tmux!Detach
    <2>1. /\ UNCHANGED <<tmuxServer, discovered, projection, nextId, tmuxShown, request, sent,
                         child, reader, answer>>
          /\ attached' = FALSE
      BY <1>1 DEF Tmux!Detach, Tmux!commandVars
    <2> QED
      BY <2>1 DEF TmuxInv, ServerFits, IdsFit, RequestFits, CommandFits, Tmux!AcceptedIsWhole
  <1>2. CASE Tmux!CompleteSnapshot
    <2>1. /\ UNCHANGED <<tmuxServer, attached, discovered, projection, nextId, tmuxShown, sent>>
          /\ request' = Nothing /\ Tmux!Ended
      BY <1>2 DEF Tmux!CompleteSnapshot, Tmux!bridgeVars
    <2>2. \A pair \in sent' : pair[1] \in DOMAIN tmuxShown' /\ tmuxShown'[pair[1]] = pair[2]
      BY <2>1 DEF TmuxInv, RequestFits
    <2> QED
      BY <2>1, <2>2, EndedFits DEF TmuxInv, ServerFits, IdsFit
  <1> QED
    BY <1>1, <1>2

\* Nothing is shown at the start, and every step keeps the invariant (tmux.rs).
LEMMA TmuxIsInductive ==
    ASSUME TmuxNumbers
    PROVE  /\ Tmux!TmuxInit => TmuxInv
           /\ TmuxInv /\ [Tmux!TmuxNext]_(Tmux!tmuxVars) => TmuxInv'
           /\ TmuxInv => Tmux!TmuxTypeOK /\ Tmux!InputGoesToShown /\ Tmux!AcceptedIsWhole
  <1>1. ASSUME Tmux!TmuxInit PROVE TmuxInv
    <2>1. DOMAIN << >> = {} /\ 1..(1 - 1) = {}
      OBVIOUS
    <2>2. << >> \in [{} -> Targets] /\ << >> \in [{} -> Projected] /\ << >> \in [{} -> Tmux!PaneInfo]
      OBVIOUS
    <2>3. ServerFits
      BY <1>1, <2>1, <2>2 DEF Tmux!TmuxInit, ServerFits
    <2>4. IdsFit
      <3>1. /\ tmuxShown = << >> /\ projection = << >>
            /\ nextId = 1 /\ attached = FALSE
        BY <1>1 DEF Tmux!TmuxInit
      <3>2. tmuxShown \in [1..(nextId - 1) -> Targets]
        BY <2>1, <2>2, <3>1
      <3>3. projection \in [DOMAIN projection -> Projected] /\ DOMAIN projection = {}
        BY <2>1, <2>2, <3>1
      <3>4. attached \in BOOLEAN
        BY <3>1, Zenon
      <3>7. nextId \in Nat \ {0}
        BY <3>1
      <3>5. /\ DOMAIN projection \subseteq DOMAIN tmuxShown
            /\ \A id \in DOMAIN projection : projection[id].target = tmuxShown[id]
        BY <3>3
      <3>6. projection = << >>
        BY <3>1
      <3> QED
        BY <3>2, <3>3, <3>4, <3>5, <3>6, <3>7, Zenon DEF IdsFit
    <2> QED
      BY <1>1, <2>3, <2>4 DEF Tmux!TmuxInit, Tmux!NoCommand, TmuxInv, RequestFits, CommandFits,
                              Tmux!AcceptedIsWhole
  <1>2. ASSUME TmuxInv, Tmux!TmuxNext PROVE TmuxInv'
    BY <1>2, RunningKeeps, ServerKeeps, BeginKeeps, CatalogKeeps, WriteKeeps, ResizeKeeps,
       DetachKeeps DEF Tmux!TmuxNext
  <1>3. ASSUME TmuxInv, UNCHANGED Tmux!tmuxVars PROVE TmuxInv'
    BY <1>3 DEF Tmux!tmuxVars, TmuxInv, ServerFits, IdsFit, RequestFits, CommandFits,
                Tmux!AcceptedIsWhole
  <1>4. ASSUME TmuxInv PROVE Tmux!TmuxTypeOK
    <2>1. \A x \in DOMAIN tmuxServer : tmuxServer[x] \in Tmux!PaneInfo
      BY <1>4 DEF TmuxInv, ServerFits
    <2> QED
      BY <1>4, <2>1 DEF TmuxInv, ServerFits, IdsFit, RequestFits, Tmux!TmuxTypeOK, Tmux!Idle
  <1>5. ASSUME TmuxInv PROVE Tmux!InputGoesToShown
    BY <1>5 DEF TmuxInv, RequestFits, Tmux!InputGoesToShown
  <1> QED
    BY <1>1, <1>2, <1>3, <1>4, <1>5 DEF TmuxInv, CommandFits

-----------------------------------------------------------------------------
(* What holds of each part, and of all in one run.                         *)

\* A helper at the path that connections execute is whole, and a desktop that is told it is
\* installed finds one (install.rs).
THEOREM InstalledHelperIsWhole ==
    ASSUME AbsentIsNothing
    PROVE  Install!InstallSpec => []Install!InstalledIsWhole
  <1>1. Install!InstallInit => InstallInv
    BY InstallIsInductive
  <1>2. InstallInv /\ [Install!InstallNext]_(Install!installVars) => InstallInv'
    BY InstallIsInductive
  <1>3. InstallInv => Install!InstalledIsWhole
    BY DEF InstallInv
  <1> QED
    BY <1>1, <1>2, <1>3, PTL DEF Install!InstallSpec

\* Every frame a task reads is the answer to what it asked on the connection it asked on, and
\* every connection has somebody who will end its ssh (client.rs; remote.rs).
THEOREM ConnectionsStayInStep ==
    ASSUME LinkNumbers
    PROVE  Link!LinkSpec => [](Link!AnswersInStep /\ Link!NothingIsLeftRunning)
  <1>1. Link!LinkInit => LinkInv
    BY LinkIsInductive
  <1>2. LinkInv /\ [Link!LinkNext]_(Link!linkVars) => LinkInv'
    BY LinkIsInductive
  <1>3. LinkInv => Link!AnswersInStep /\ Link!NothingIsLeftRunning
    BY LinkIsInductive DEF LinkInv
  <1> QED
    BY <1>1, <1>2, <1>3, PTL DEF Link!LinkSpec

\* In the run of all parts, what is installed and what is saved is whole, wherever an
\* installation or a save was cut off (install.rs, remote_store.rs).
THEOREM StoredStaysWhole ==
    ASSUME AbsentIsNothing
    PROVE  MCSpec => []StoredIsWhole
  <1>1. MCInit => InstallInv /\ RecordsInv
    BY InstallIsInductive, RecordsAreInductive DEF MCInit
  <1>2. InstallInv /\ RecordsInv /\ [MCNext]_allVars => InstallInv' /\ RecordsInv'
    <2>1. ASSUME [MCNext]_allVars
          PROVE  [Install!InstallNext]_(Install!installVars)
                 /\ [Records!RecordsNext]_(Records!recordVars)
      BY <2>1 DEF MCNext, allVars, CatalogActs, SurfaceActs, LanguageActs, MovedActs,
                  StreamActs, RemoteActs, TmuxActs, ProcessesActs, InstallActs, LinkActs,
                  RecordsActs, installPart, recordsPart, Install!installVars,
                  Records!recordVars
    <2> QED
      BY <2>1, InstallIsInductive, RecordsAreInductive
  <1>3. InstallInv /\ RecordsInv => StoredIsWhole
    BY DEF InstallInv, RecordsInv, StoredIsWhole
  <1> QED
    BY <1>1, <1>2, <1>3, PTL DEF MCSpec

\* In the run of all parts, no ssh and no language server is left running with nobody to end
\* it, however a handshake, an exchange or a diagnosis ended (client.rs, helper.rs).
THEOREM NothingStaysRunning ==
    ASSUME LinkNumbers, NothingIsNoJob
    PROVE  MCSpec => []NothingIsLeftRunning
  <1>1. MCInit => LinkInv /\ ServersInv
    BY LinkIsInductive, ServersAreInductive DEF MCInit
  <1>2. LinkInv /\ ServersInv /\ [MCNext]_allVars => LinkInv' /\ ServersInv'
    <2>1. ASSUME [MCNext]_allVars
          PROVE  [Link!LinkNext]_(Link!linkVars)
                 /\ [Processes!TasksNext]_(Processes!taskVars)
      BY <2>1 DEF MCNext, allVars, CatalogActs, SurfaceActs, LanguageActs, MovedActs,
                  StreamActs, RemoteActs, TmuxActs, ProcessesActs, InstallActs, LinkActs,
                  RecordsActs, linkPart, helperPart, Link!linkVars, Processes!taskVars
    <2> QED
      BY <2>1, LinkIsInductive, ServersAreInductive
  <1>3. LinkInv /\ ServersInv => NothingIsLeftRunning
    BY ServersAreInductive DEF LinkInv, NothingIsLeftRunning
  <1> QED
    BY <1>1, <1>2, <1>3, PTL DEF MCSpec

\* In the run of all parts, the files, the document and the runtime are of the connection there
\* is, results come in from no other, and input and frames belong to the pane and the request
\* they are for, whatever is answered late; the output of a task comes in order.  Results and
\* consent that are kept from an earlier connection are not claimed about (remote.rs, tmux.rs,
\* client.rs, process.rs).
THEOREM RemoteStaysCurrent ==
    ASSUME RemoteNumbers, TmuxNumbers, LinkNumbers, TaskNumbers, NothingIsNoJob
    PROVE  MCSpec => []RemoteIsCurrent
  <1> DEFINE PartsInv == RemoteInv /\ TmuxInv /\ LinkInv /\ TasksInv
  <1>1. MCInit => PartsInv
    BY RemoteIsInductive, TmuxIsInductive, LinkIsInductive, TasksAreInductive DEF MCInit
  <1>2. PartsInv /\ [MCNext]_allVars => PartsInv'
    <2> SUFFICES ASSUME PartsInv, [MCNext]_allVars
                 PROVE  PartsInv'
      OBVIOUS
    <2>0. [MCNext]_allVars
      OBVIOUS
    <2>1. [Remote!RemoteNext]_(Remote!remoteVars)
      BY <2>0 DEF MCNext, allVars, CatalogActs, SurfaceActs, LanguageActs, MovedActs,
                  StreamActs, RemoteActs, TmuxActs, ProcessesActs, InstallActs, LinkActs,
                  RecordsActs, remotePart, Remote!remoteVars, Remote!ui, Remote!disk
    <2>2. [Tmux!TmuxNext]_(Tmux!tmuxVars)
      BY <2>0 DEF MCNext, allVars, CatalogActs, SurfaceActs, LanguageActs, MovedActs,
                  StreamActs, RemoteActs, TmuxActs, ProcessesActs, InstallActs, LinkActs,
                  RecordsActs, tmuxPart, Tmux!tmuxVars
    <2>3. [Link!LinkNext]_(Link!linkVars)
      BY <2>0 DEF MCNext, allVars, CatalogActs, SurfaceActs, LanguageActs, MovedActs,
                  StreamActs, RemoteActs, TmuxActs, ProcessesActs, InstallActs, LinkActs,
                  RecordsActs, linkPart, Link!linkVars
    <2>4. [Processes!TasksNext]_(Processes!taskVars)
      BY <2>0 DEF MCNext, allVars, CatalogActs, SurfaceActs, LanguageActs, MovedActs,
                  StreamActs, RemoteActs, TmuxActs, ProcessesActs, InstallActs, LinkActs,
                  RecordsActs, helperPart, Processes!taskVars
    <2> QED
      BY <2>1, <2>2, <2>3, <2>4, RemoteIsInductive, TmuxIsInductive, LinkIsInductive,
         TasksAreInductive
  <1>3. PartsInv => RemoteIsCurrent
    BY RemoteIsInductive, TmuxIsInductive, LinkIsInductive, TasksAreInductive, LinkIsTyped
    DEF RemoteIsCurrent
  <1> QED
    BY <1>1, <1>2, <1>3, PTL DEF MCSpec
=============================================================================
