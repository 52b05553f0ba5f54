-------------------------- MODULE EditorDocuments --------------------------
(***************************************************************************)
(* A file of the workspace and the document that shows it: Document and    *)
(* EditorWorkspace of crates/strukt-editor, the handlers of app.rs that    *)
(* open, edit, save, observe, close and recover it, the save adapter of    *)
(* crates/strukt-fs/src/document.rs on its worker thread, other programs   *)
(* that write the file, and the recovery record of the document            *)
(* (crates/strukt-persistence/src/editor_store.rs).                        *)
(*                                                                         *)
(* A revision of the file is a hash of its contents and is represented by  *)
(* them.  Contents in Large are opened as a preview, whose text is Cut.    *)
(***************************************************************************)
EXTENDS Naturals, Sequences, FiniteSets, SequencesExt

CONSTANTS
    None,
    Missing,      \* the contents of a file that is not there
    Texts,        \* contents
    Large,        \* contents too large to be edited
    Cut,          \* the beginning of them, which a preview shows
    Empty,        \* the text of a document that is restored without its file
    MaxRevision,  \* bound: changes of a buffer, redone ones not counted
    MaxDocuments, \* bound: documents opened
    MaxWrites,    \* bound: writes by other programs
    MaxJobs,      \* bound: tasks at the same time, without timers
    MaxHistory    \* History's budget

ASSUME TextAssumption ==
    /\ Large \subseteq Texts
    /\ {Cut, Empty} \subseteq Texts \ Large
    /\ Missing \notin Texts
ASSUME NoneAssumption == None \notin {"saved", "failed", "deleted"}
ASSUME BoundAssumption == {MaxRevision, MaxHistory} \subseteq Nat

VARIABLES
    doc,          \* the document that is open, or None
    file,
    jobs,         \* tasks and timers that have not been answered
    pendingClose, \* whether the document waits for a decision
    recent,       \* recent_save_revisions of the document
    generation,   \* recovery_generations of the document, 0 if there is none
    store,        \* the recovery record and the one before it
    opened,       \* documents opened so far
    tab,          \* editor_restore_tabs: the baseline the session has for the path, or None
    writes,       \* writes by other programs so far
    onDisk,       \* history: the contents the file has had
    readOnlySaved \* history: a document that is read-only was saved

vars == <<doc, file, jobs, pendingClose, recent, generation, store, opened, tab, writes,
          onDisk, readOnlySaved>>
app == <<doc, pendingClose, recent, generation, opened, tab>>

Statuses == {"Clean", "Dirty", "Conflict", "Missing"}

OpenJob(preview, full) ==
    [kind |-> "open", preview |-> preview, full |-> full, result |-> None]

\* What the session before left: its tab is opened again, and may have been recorded.
Restoring(baseline) ==
    IF baseline = None THEN {{}} ELSE {{OpenJob(preview, full)} : preview, full \in BOOLEAN}
Kept(baseline) ==
    [backup : {None},
     current : {None} \cup IF baseline = None THEN {}
                           ELSE {[baseline |-> baseline, text |-> text] : text \in Texts}]

Init ==
    /\ doc = None
    /\ file \in Texts \cup {Missing}
    /\ tab \in Texts \cup {None}
    /\ jobs \in Restoring(tab)
    /\ store \in Kept(tab)
    /\ pendingClose = FALSE
    /\ recent = None
    /\ generation = 0
    /\ opened = 0
    /\ writes = 0
    /\ onDisk = {file} \cup ({tab} \ {None})
    /\ readOnlySaved = FALSE

-----------------------------------------------------------------------------
(* Document.  theirs is what a conflict found on disk.  seen and standIn    *)
(* are history: the contents of the file the tab has shown, and whether the *)
(* buffer still stands in for a file that was not there when it was opened. *)

NewDocument(id, text, disk, readOnly, preview) ==
    [id |-> id, text |-> text, revision |-> 0, saved |-> text, disk |-> disk,
     status |-> "Clean", theirs |-> None, readOnly |-> readOnly, recovered |-> FALSE,
     preview |-> preview, undo |-> <<>>, redo |-> <<>>, seen |-> {disk}, standIn |-> FALSE]

IsRecoverable(d) == d.recovered \/ d.status # "Clean"

Pinned(d) == [d EXCEPT !.preview = FALSE]
Apply(d, text) == [d EXCEPT !.text = text, !.revision = @ + 1]

RefreshDirtyStatus(d) ==
    IF d.status \in {"Clean", "Dirty"}
    THEN [d EXCEPT !.status = IF d.text = d.saved THEN "Clean" ELSE "Dirty"] ELSE d

\* Faulty variant: nothing is ever dropped.
RecordedForever(d) == [d EXCEPT !.undo = Append(@, d.text), !.redo = <<>>]
\* History::record: the oldest entry is dropped; typing may go on with the last one.
Recorded(d) ==
    LET longer == Append(d.undo, d.text)
    IN [d EXCEPT !.undo = IF Len(longer) > MaxHistory THEN Tail(longer) ELSE longer,
                 !.redo = <<>>]
Coalesced(d) == IF d.undo = <<>> THEN {} ELSE {[d EXCEPT !.redo = <<>>]}

Edit(d, text) ==
    {RefreshDirtyStatus(Pinned(Apply(r, text))) : r \in {Recorded(d)} \cup Coalesced(d)}

Undo(d) ==
    RefreshDirtyStatus(Pinned(Apply([d EXCEPT !.undo = Front(@), !.redo = Append(@, d.text)],
                                    Last(d.undo))))
Redo(d) ==
    RefreshDirtyStatus(Pinned(Apply([d EXCEPT !.redo = Front(@), !.undo = Append(@, d.text)],
                                    Last(d.redo))))

\* Faulty variant: an answer is taken whatever was typed since it was asked for.
EnsureAnyRevision(d, expected) == TRUE
\* An answer about another revision of the buffer changes nothing.
EnsureRevision(d, expected) == expected = d.revision

CompleteSave(d, disk) ==
    [d EXCEPT !.saved = d.text, !.disk = disk, !.status = "Clean", !.recovered = FALSE,
              !.seen = @ \cup {disk}, !.standIn = FALSE]

ObserveDiskChange(d, expected, disk) ==
    CASE ~EnsureRevision(d, expected) -> d
      [] EnsureRevision(d, expected) /\ d.status = "Clean" ->
           [Apply(d, disk) EXCEPT !.undo = <<>>, !.redo = <<>>, !.saved = disk, !.disk = disk,
                                  !.seen = @ \cup {disk}, !.standIn = FALSE,
                                  !.preview = @ /\ ~d.recovered]
      [] EnsureRevision(d, expected) /\ d.status # "Clean" ->
           Pinned([d EXCEPT !.status = "Conflict", !.theirs = disk])

ObserveMissing(d, expected) ==
    IF ~EnsureRevision(d, expected) THEN d ELSE Pinned([d EXCEPT !.status = "Missing"])

ReloadFromDisk(d) ==
    Pinned([Apply(Recorded(d), d.theirs) EXCEPT !.saved = d.theirs, !.disk = d.theirs,
                                                !.status = "Clean", !.recovered = FALSE,
                                                !.seen = @ \cup {d.theirs},
                                                !.standIn = FALSE])

\* Faulty variant: what is on disk becomes the baseline of the next save.
KeepEditingRebased(d) == Pinned([d EXCEPT !.status = "Dirty", !.disk = d.theirs])
KeepEditing(d) == Pinned([d EXCEPT !.status = "Dirty"])

RestoreRecovery(d, text) ==
    LET shown == IF d.text = text THEN d
                 ELSE [Apply(d, text) EXCEPT !.undo = <<>>, !.redo = <<>>]
    IN Pinned([shown EXCEPT !.recovered = TRUE,
                            !.status = IF @ = "Clean" THEN "Dirty" ELSE @])

\* Opening a file that is open selects its document; a preview becomes editable.
Reopen(d, text, disk, readOnly, preview) ==
    LET full == IF d.readOnly /\ ~readOnly
                THEN [d EXCEPT !.text = text, !.revision = 0, !.undo = <<>>, !.redo = <<>>,
                               !.saved = text, !.disk = disk, !.status = "Clean",
                               !.readOnly = FALSE, !.seen = @ \cup {disk}, !.standIn = FALSE]
                ELSE d
    IN [full EXCEPT !.preview = @ /\ preview]

-----------------------------------------------------------------------------
(* EditorRecoveryStore: one record for the path, readable only with the     *)
(* baseline it was made for, and the record before it.                      *)

Readable(record, baseline) == record # None /\ record.baseline = baseline

StoreSave(record) ==
    [current |-> record,
     backup |-> IF Readable(store.current, record.baseline) THEN store.current ELSE store.backup]

StoreLoad(baseline) ==
    CASE Readable(store.current, baseline) -> store.current.text
      [] ~Readable(store.current, baseline) /\ Readable(store.backup, baseline) ->
           store.backup.text
      [] OTHER -> None

-----------------------------------------------------------------------------
(* Tasks.  A task is answered after it ran.                                 *)

CanStart == Cardinality({job \in jobs : job.kind # "due"}) < MaxJobs
Answered(job) == job.result # None
Replaced(job, new) == (jobs \ {job}) \cup {new}

\* The saves on their way have not seen what the file has now.
Racing(others) == {IF j.kind = "save" THEN [j EXCEPT !.raced = TRUE] ELSE j : j \in others}

\* save_document_task: it asks neither whether the document is read-only nor whether
\* another save is on its way.
SaveJob(d, force) ==
    [kind |-> "save", id |-> d.id, revision |-> d.revision, text |-> d.text, disk |-> d.disk,
     force |-> force, stage |-> "check", result |-> None, seen |-> d.seen, raced |-> FALSE,
     readOnly |-> d.readOnly]

ObserveJob(d) ==
    [kind |-> "observe", id |-> d.id, revision |-> d.revision, result |-> None]

DueTimer(d, number) ==
    [kind |-> "due", id |-> d.id, revision |-> d.revision, generation |-> number]

KeepJob(d) ==
    [kind |-> "keep", record |-> [baseline |-> d.disk, text |-> d.text]]

LoadJob(d) ==
    [kind |-> "load", id |-> d.id, revision |-> d.revision, baseline |-> d.disk, result |-> None]

DeleteJob(d) == [kind |-> "delete", id |-> d.id, result |-> None]

\* schedule_recovery, after a change of the buffer.
Scheduled(d, others) ==
    IF IsRecoverable(d)
    THEN generation' = generation + 1 /\ jobs' = others \cup {DueTimer(d, generation + 1)}
    ELSE jobs' = others /\ UNCHANGED generation

\* read_document.
Read(full) ==
    IF file \in Large /\ ~full
    THEN [text |-> Cut, disk |-> file, readOnly |-> TRUE]
    ELSE [text |-> file, disk |-> file, readOnly |-> FALSE]

RunOpen(job) ==
    /\ job.kind = "open"
    /\ ~Answered(job)
    /\ jobs' = Replaced(job, [job EXCEPT !.result = IF file = Missing THEN Missing
                                                    ELSE Read(job.full)])
    /\ UNCHANGED <<app, file, store, writes, onDisk, readOnlySaved>>

RunObserve(job) ==
    /\ job.kind = "observe"
    /\ ~Answered(job)
    /\ jobs' = Replaced(job, [job EXCEPT !.result = IF file = Missing THEN Missing
                                                    ELSE Read(FALSE)])
    /\ UNCHANGED <<app, file, store, writes, onDisk, readOnlySaved>>

\* save_document: check, stage, check again, replace, check what was published.  A save
\* by force only needs a file to replace.
Agrees(job) == file # Missing /\ (job.force \/ file = job.disk)

Check(job) ==
    /\ job.kind = "save"
    /\ job.stage = "check"
    /\ jobs' = Replaced(job, IF Agrees(job) THEN [job EXCEPT !.stage = "recheck"]
                             ELSE [job EXCEPT !.stage = "done", !.result = "failed"])
    /\ UNCHANGED <<app, file, store, writes, onDisk, readOnlySaved>>

Recheck(job) ==
    /\ job.kind = "save"
    /\ job.stage = "recheck"
    /\ jobs' = Replaced(job, IF job.force \/ Agrees(job)
                             THEN [job EXCEPT !.stage = "replace", !.raced = FALSE]
                             ELSE [job EXCEPT !.stage = "done", !.result = "failed"])
    /\ UNCHANGED <<app, file, store, writes, onDisk, readOnlySaved>>

Replace(job) ==
    /\ job.kind = "save"
    /\ job.stage = "replace"
    /\ file' = job.text
    /\ onDisk' = onDisk \cup {job.text}
    /\ jobs' = Racing(jobs \ {job}) \cup {[job EXCEPT !.stage = "verify"]}
    /\ readOnlySaved' = (readOnlySaved \/ job.readOnly)
    /\ UNCHANGED <<app, store, writes>>

Verify(job) ==
    /\ job.kind = "save"
    /\ job.stage = "verify"
    /\ jobs' = Replaced(job, [job EXCEPT !.stage = "done",
                                         !.result = IF file = job.text THEN "saved"
                                                    ELSE "failed"])
    /\ UNCHANGED <<app, file, store, writes, onDisk, readOnlySaved>>

RunKeep(job) ==
    /\ job.kind = "keep"
    /\ store' = StoreSave(job.record)
    /\ jobs' = jobs \ {job}
    /\ UNCHANGED <<app, file, writes, onDisk, readOnlySaved>>

RunLoad(job) ==
    /\ job.kind = "load"
    /\ ~Answered(job)
    /\ LET text == StoreLoad(job.baseline)
       IN jobs' = IF text = None THEN jobs \ {job}
                  ELSE Replaced(job, [job EXCEPT !.result = text])
    /\ UNCHANGED <<app, file, store, writes, onDisk, readOnlySaved>>

RunDelete(job) ==
    /\ job.kind = "delete"
    /\ ~Answered(job)
    /\ store' = [current |-> None, backup |-> None]
    /\ jobs' = Replaced(job, [job EXCEPT !.result = "deleted"])
    /\ UNCHANGED <<app, file, writes, onDisk, readOnlySaved>>

-----------------------------------------------------------------------------
(* Messages of the user.                                                    *)

\* SelectExplorerEntry opens a preview, OpenDocument a pinned document and, from a
\* preview of a large file, the whole of it.
OpenDocument(preview, full) ==
    /\ CanStart
    /\ full => ~preview
    /\ jobs' = jobs \cup {OpenJob(preview, full)}
    /\ UNCHANGED <<app, file, store, writes, onDisk, readOnlySaved>>

\* Another file is opened as a preview and takes the place of this one.
OpenOther ==
    /\ doc # None
    /\ doc.preview
    /\ doc' = IF IsRecoverable(doc) THEN Pinned(doc) ELSE None
    /\ UNCHANGED <<file, jobs, pendingClose, recent, generation, store, opened, tab, writes, onDisk,
                   readOnlySaved>>

Changes(new) ==
    /\ doc' \in new
    /\ Scheduled(doc', jobs)
    /\ UNCHANGED <<file, pendingClose, recent, store, opened, tab, writes, onDisk, readOnlySaved>>

EditorAction(text) ==
    /\ doc # None
    /\ ~doc.readOnly
    /\ doc.revision < MaxRevision
    /\ text \in Texts \ (Large \cup {doc.text})
    /\ Changes(Edit(doc, text))
UndoDocument ==
    doc # None /\ doc.undo # <<>> /\ doc.revision < MaxRevision /\ Changes({Undo(doc)})
RedoDocument == doc # None /\ doc.redo # <<>> /\ Changes({Redo(doc)})

\* SaveDocument, by the shortcut or the command.
SaveDocument(force) ==
    /\ doc # None
    /\ CanStart
    /\ force => doc.status = "Conflict"
    /\ jobs' = jobs \cup {SaveJob(doc, force)}
    /\ UNCHANGED <<app, file, store, writes, onDisk, readOnlySaved>>

PinDocument ==
    /\ doc # None
    /\ doc.preview
    /\ doc' = Pinned(doc)
    /\ UNCHANGED <<file, jobs, pendingClose, recent, generation, store, opened, tab, writes, onDisk,
                   readOnlySaved>>

CloseDocument ==
    /\ doc # None
    /\ IF IsRecoverable(doc) THEN pendingClose' = TRUE /\ UNCHANGED doc
       ELSE doc' = None /\ UNCHANGED pendingClose
    /\ UNCHANGED <<file, jobs, recent, generation, store, opened, tab, writes, onDisk, readOnlySaved>>

\* ResolveDocumentClose with Save: the decision stays open until a save succeeds.
CloseWithSave ==
    /\ doc # None
    /\ pendingClose
    /\ SaveDocument(FALSE)

\* With Discard or Cancel the recovery record is deleted; only Discard closes.
CloseWithout(decision) ==
    /\ doc # None
    /\ pendingClose
    /\ CanStart
    /\ jobs' = jobs \cup {DeleteJob(doc)}
    /\ doc' = IF decision = "Discard" THEN None ELSE doc
    /\ pendingClose' = FALSE
    /\ UNCHANGED <<file, recent, generation, store, opened, tab, writes, onDisk, readOnlySaved>>

ReloadDocumentFromDisk ==
    /\ doc # None
    /\ doc.status = "Conflict"
    /\ doc.revision < MaxRevision
    /\ doc' = ReloadFromDisk(doc)
    /\ UNCHANGED <<file, jobs, pendingClose, recent, generation, store, opened, tab, writes, onDisk,
                   readOnlySaved>>

KeepEditingDocument ==
    /\ doc # None
    /\ doc.status = "Conflict"
    /\ doc' = KeepEditing(doc)
    /\ UNCHANGED <<file, jobs, pendingClose, recent, generation, store, opened, tab, writes, onDisk,
                   readOnlySaved>>

\* editor_session_snapshot: what the session keeps of a document, and how it opens it again.
SessionTab(d) == [baseline |-> d.disk, reopens |-> OpenJob(d.preview, ~d.readOnly)]

\* WorkspaceOpened, on the same folder or after a crash: the tabs are opened again, and of
\* the tasks those that run on may still finish.
WorkspaceOpened(crash) ==
    /\ doc # None
    /\ CanStart
    /\ doc' = None
    /\ tab' = SessionTab(doc).baseline
    /\ pendingClose' = FALSE
    /\ recent' = None
    /\ generation' = 0
    /\ jobs' = (IF crash THEN {} ELSE jobs) \cup {SessionTab(doc).reopens}
    /\ UNCHANGED <<file, store, opened, writes, onDisk, readOnlySaved>>

-----------------------------------------------------------------------------
(* Answers.                                                                 *)

\* A document that is opened loses what the application kept for one before it.
Shows(d) ==
    /\ doc' = d
    /\ opened' = IF doc = None THEN opened + 1 ELSE opened
    /\ recent' = IF doc = None THEN None ELSE recent
    /\ generation' = IF doc = None THEN 0 ELSE generation
    /\ pendingClose' = (doc # None /\ pendingClose)

\* A tab whose file is not there is shown all the same, empty and as missing.
StandIn(preview) ==
    LET shown == IF doc = None
                 THEN [NewDocument(opened + 1, Empty, tab, FALSE, preview)
                         EXCEPT !.standIn = TRUE]
                 ELSE [Reopen(doc, Empty, tab, FALSE, preview)
                         EXCEPT !.standIn = @ \/ doc.readOnly]
    IN ObserveMissing(shown, shown.revision)

\* DocumentOpened, which looks for a recovery record whether or not the document was open.
DocumentOpened(job) ==
    /\ job.kind = "open"
    /\ Answered(job)
    /\ doc = None => opened < MaxDocuments
    /\ LET others == jobs \ {job}
           r == job.result
           found == IF doc = None
                    THEN NewDocument(opened + 1, r.text, r.disk, r.readOnly, job.preview)
                    ELSE Reopen(doc, r.text, r.disk, r.readOnly, job.preview)
       IN \/ r # Missing /\ Shows(found) /\ jobs' = others \cup {LoadJob(found)}
          \/ /\ r = Missing
             /\ tab # None
             /\ Shows(StandIn(job.preview))
             /\ jobs' = others \cup {LoadJob(StandIn(job.preview))}
          \/ /\ r = Missing
             /\ tab = None
             /\ jobs' = others
             /\ UNCHANGED app
    /\ UNCHANGED <<file, store, tab, writes, onDisk, readOnlySaved>>

\* DocumentSaved: a save the document accepts deletes the recovery record, and closes the
\* document if a decision is open.
DocumentSaved(job) ==
    /\ job.kind = "save"
    /\ Answered(job)
    /\ LET others == jobs \ {job}
           applies == /\ job.result = "saved"
                      /\ doc # None
                      /\ doc.id = job.id
                      /\ EnsureRevision(doc, job.revision)
       IN IF applies
          THEN /\ doc' = IF pendingClose THEN None ELSE CompleteSave(doc, job.text)
               /\ pendingClose' = FALSE
               /\ recent' = job.text
               /\ jobs' = others \cup {DeleteJob(doc)}
          ELSE jobs' = others /\ UNCHANGED <<doc, pendingClose, recent>>
    /\ UNCHANGED <<file, generation, store, opened, tab, writes, onDisk, readOnlySaved>>

\* DocumentDiskObserved: what the document saved itself is passed over once.  A file that
\* is too large to edit is taken for missing.
DocumentDiskObserved(job) ==
    /\ job.kind = "observe"
    /\ Answered(job)
    /\ jobs' = jobs \ {job}
    /\ LET r == job.result
           own == r # Missing /\ recent = r.disk
           text == r # Missing /\ ~r.readOnly
           live == doc # None /\ doc.id = job.id
       IN /\ recent' = IF live THEN None ELSE recent
          /\ doc' = CASE ~live \/ own -> doc
                      [] live /\ ~own /\ text -> ObserveDiskChange(doc, job.revision, r.disk)
                      [] live /\ ~own /\ ~text -> ObserveMissing(doc, job.revision)
    /\ doc' # None => doc'.revision <= MaxRevision + MaxHistory
    /\ UNCHANGED <<file, pendingClose, generation, store, opened, tab, writes, onDisk, readOnlySaved>>

\* RecoveryDue, two seconds after a change: only the last change is kept.
RecoveryDue(job) ==
    /\ job.kind = "due"
    /\ LET others == jobs \ {job}
           current == /\ doc # None
                      /\ doc.id = job.id
                      /\ generation = job.generation
                      /\ doc.revision = job.revision
                      /\ IsRecoverable(doc)
       IN jobs' = IF current THEN others \cup {KeepJob(doc)} ELSE others
    /\ UNCHANGED <<app, file, store, writes, onDisk, readOnlySaved>>

RecoveryLoaded(job) ==
    /\ job.kind = "load"
    /\ Answered(job)
    /\ jobs' = jobs \ {job}
    /\ doc' = IF doc # None /\ doc.id = job.id /\ doc.revision = job.revision
              THEN RestoreRecovery(doc, job.result) ELSE doc
    /\ doc' # None => doc'.revision <= MaxRevision + MaxHistory
    /\ UNCHANGED <<file, pendingClose, recent, generation, store, opened, tab, writes, onDisk,
                   readOnlySaved>>

RecoveryDeleted(job) ==
    /\ job.kind = "delete"
    /\ Answered(job)
    /\ jobs' = jobs \ {job}
    /\ generation' = IF doc # None /\ doc.id = job.id THEN 0 ELSE generation
    /\ UNCHANGED <<doc, file, pendingClose, recent, store, opened, tab, writes, onDisk, readOnlySaved>>

-----------------------------------------------------------------------------
\* Another program writes or removes the file.  The watcher reports it, and what is open
\* is looked at again; a report may be lost.
ExternalWrite(contents) ==
    /\ writes < MaxWrites
    /\ contents # file
    /\ file' = contents
    /\ onDisk' = onDisk \cup {contents}
    /\ writes' = writes + 1
    /\ jobs' \in {Racing(jobs)} \cup IF doc # None /\ CanStart
                                      THEN {Racing(jobs) \cup {ObserveJob(doc)}} ELSE {}
    /\ UNCHANGED <<app, store, readOnlySaved>>

Messages ==
    \/ \E preview, full \in BOOLEAN : OpenDocument(preview, full)
    \/ OpenOther
    \/ \E text \in Texts : EditorAction(text)
    \/ UndoDocument
    \/ RedoDocument
    \/ \E force \in BOOLEAN : SaveDocument(force)
    \/ PinDocument
    \/ CloseDocument
    \/ CloseWithSave
    \/ \E decision \in {"Discard", "Cancel"} : CloseWithout(decision)
    \/ ReloadDocumentFromDisk
    \/ KeepEditingDocument
    \/ \E crash \in BOOLEAN : WorkspaceOpened(crash)

Work(job) ==
    \/ RunOpen(job)
    \/ RunObserve(job)
    \/ Check(job)
    \/ Recheck(job)
    \/ Replace(job)
    \/ Verify(job)
    \/ RunKeep(job)
    \/ RunLoad(job)
    \/ RunDelete(job)

Answers(job) ==
    \/ DocumentOpened(job)
    \/ DocumentSaved(job)
    \/ DocumentDiskObserved(job)
    \/ RecoveryDue(job)
    \/ RecoveryLoaded(job)
    \/ RecoveryDeleted(job)

Next ==
    \/ Messages
    \/ \E job \in jobs : Work(job) \/ Answers(job)
    \/ \E contents \in Texts \cup {Missing} : ExternalWrite(contents)

Spec == Init /\ [][Next]_vars

-----------------------------------------------------------------------------
TypeOK ==
    /\ file \in Texts \cup {Missing}
    /\ store \in [{"current", "backup"} ->
                    {None} \cup [baseline : Texts, text : Texts]]
    /\ doc # None =>
         /\ doc.id \in 1..opened
         /\ doc.text \in Texts
         /\ doc.status \in Statuses
         /\ doc.revision \in 0..MaxRevision + MaxHistory
         /\ Len(doc.undo) <= MaxHistory

\* A document that is marked clean shows what the file had at the revision the document
\* will save against: however saves, observations, undo and recovery interleave, the mark
\* never hides an edit.  (Not so once a read-only document was saved: its buffer starts
\* again at the first revision when it becomes editable, and the answer to an older save
\* passes for an answer to a later one.  Nor for a tab that stands in for a file that was
\* not there: its saved text is empty, whatever the baseline it would save against, and a
\* user who keeps editing after the file came back can make it clean by emptying it.)
CleanIsSaved ==
    doc # None /\ doc.status = "Clean" /\ ~readOnlySaved =>
      /\ doc.text = doc.saved
      /\ \/ doc.saved = doc.disk
         \/ doc.readOnly /\ doc.saved = Cut /\ doc.disk \in Large
         \/ doc.standIn

\* A document that is closed, by the user, by a preview that takes its place or by a save
\* that was to close it, leaves nothing behind that was never on disk; only Discard and a
\* workspace that is opened again may (and the answer that passes for another, as above).
\* An empty text is nothing to lose.
CloseLosesNothing ==
    [][doc # None /\ doc' = None =>
         \/ doc.text \in onDisk \cup {Empty} \/ doc.readOnly \/ readOnlySaved
         \/ CloseWithout("Discard")
         \/ \E crash \in BOOLEAN : WorkspaceOpened(crash)]_vars

\* docs/specs/0004-m2-editor.md:252: "A known external change returns `SaveConflict`
\* instead of overwriting."  An ordinary save replaces only contents its document, or the
\* tab it restores, has shown, or contents written after the last check.
SaveKeepsOthersWork ==
    [][\A job \in jobs : Replace(job) /\ ~job.force => file \in job.seen \/ job.raced]_vars

\* docs/specs/0004-m2-editor.md:274: "**Oversized file:** show bounded read-only preview
\* and explicit override."  The text of a preview never takes the place of the file.
PreviewIsNotSaved ==
    [][\A job \in jobs : Replace(job) => ~(job.readOnly /\ job.disk \in Large)]_vars

\* docs/specs/0004-m2-editor.md:66: "A dirty, conflicted, missing, or recovery-backed document
\* is always pinned and is never replaced implicitly."  (Opening a dirty document again loads
\* its recovery record, which is as old as its last two idle seconds, over what was typed.)
EditsSurvive ==
    [][\A job \in jobs : RecoveryLoaded(job) /\ doc # None /\ doc.status = "Dirty"
          => doc'.text = doc.text]_vars
=============================================================================
