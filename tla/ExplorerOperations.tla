------------------------- MODULE ExplorerOperations -------------------------
(***************************************************************************)
(* File operations from the explorer: its selection, dialog and the one    *)
(* operation in flight (crates/strukt-app/src/app.rs), and how each        *)
(* operation changes the folder step by step                               *)
(* (crates/strukt-fs/src/operations.rs) while other programs change it.    *)
(*                                                                         *)
(* A path is a sequence of names.  A folder maps the paths that exist to   *)
(* "dir", "link" or the contents of a file.  On Windows publication fails  *)
(* closed before anything is touched; the model is of Unix.                *)
(***************************************************************************)
EXTENDS Naturals, Sequences, SequencesExt, FiniteSets, Functions

CONSTANTS
    None,
    Folders,      \* workspace roots
    Paths,        \* paths inside a folder
    Contents,     \* contents of files
    Trees,        \* what a folder may hold at first
    MaxOperations, \* bound: operations submitted
    MaxOutside,   \* bound: changes by other programs
    MaxSwitches,  \* bound: workspaces opened after the first one
    MaxFaults     \* bound: steps that fail for a reason outside the model

VARIABLES
    folder,       \* what each root holds
    staging,      \* staging directories left or in use: their root and payload
    current,      \* the root of the workspace that is open
    listed,       \* the paths the explorer shows
    selected,     \* selected_entry
    dialog,       \* explorer_dialog
    operation,    \* operation_in_flight
    generation,   \* operation_generation
    failure,      \* operation_error
    work,         \* the operations that run: the one in flight.  `seen` records for the
                  \* properties what each entry of a copy's plan has held since preflight_copy
    outside, switches, faults

explorerUi == <<current, listed, selected, dialog, operation, generation, failure>>
explorerVars == <<folder, staging, explorerUi, work, outside, switches, faults>>

NoDialog == [kind |-> "None", from |-> None, to |-> None]
Below(dir, p) == Len(p) >= Len(dir) /\ SubSeq(p, 1, Len(dir)) = dir
Parent(p) == SubSeq(p, 1, Len(p) - 1)
Exists(f, p) == p \in DOMAIN f
HasParent(f, p) == Len(p) = 1 \/ (Exists(f, Parent(p)) /\ f[Parent(p)] = "dir")
\* A rename that replaces its destination.
CanPlaceOver(f, p) == HasParent(f, p)

\* RenameFlags::NOREPLACE: the kernel refuses a destination that exists.
CanPlace(f, p) == HasParent(f, p) /\ ~Exists(f, p)
Subtree(f, p) == {q \in DOMAIN f : Below(p, q)}
Moved(from, to, q) == to \o SubSeq(q, Len(from) + 1, Len(q))

ExplorerInit ==
    /\ folder \in [Folders -> Trees]
    /\ staging = {}
    /\ current \in Folders
    /\ listed = DOMAIN folder[current]
    /\ selected = None
    /\ dialog = NoDialog
    /\ operation = None
    /\ generation = 0
    /\ failure = FALSE
    /\ work = {}
    /\ outside = 0 /\ switches = 0 /\ faults = 0

-----------------------------------------------------------------------------
(* The explorer.                                                            *)

\* can_begin_operation
CanBegin == dialog = NoDialog /\ operation = None

SelectExplorerEntry(p) ==
    /\ CanBegin
    /\ p \in listed
    /\ selected' = p
    /\ UNCHANGED <<folder, staging, current, listed, dialog, operation, generation, failure, work,
                   outside, switches, faults>>

Show(d) ==
    /\ dialog' = d
    /\ UNCHANGED <<folder, staging, current, listed, selected, operation, generation, failure,
                   work, outside, switches, faults>>

\* BeginCreateFile and BeginCreateDirectory start with an empty name.
BeginCreate(kind) == CanBegin /\ Show([kind |-> kind, from |-> None, to |-> None])

\* BeginRename and BeginDuplicate start with the name of the selected entry.
BeginCopy(kind) ==
    CanBegin /\ selected # None /\ Show([kind |-> kind, from |-> selected, to |-> selected])

BeginTrash ==
    CanBegin /\ selected # None /\ Show([kind |-> "Trash", from |-> selected, to |-> None])

\* From the trash dialog, or with no dialog from the selection.
BeginPermanentDelete ==
    /\ operation = None
    /\ LET p == IF dialog.kind = "Trash" THEN dialog.from
                ELSE IF dialog = NoDialog THEN selected ELSE None
       IN  p # None /\ Show([kind |-> "Delete", from |-> p, to |-> None])

\* The dialog takes text while its operation runs.
InputAnytime(p) ==
    /\ dialog.kind \in {"CreateFile", "CreateDirectory", "Rename", "Duplicate"}
    /\ Show([dialog EXCEPT !.to = p])

ExplorerDialogInput(p) ==
    /\ operation = None
    /\ dialog.kind \in {"CreateFile", "CreateDirectory", "Rename", "Duplicate"}
    /\ Show([dialog EXCEPT !.to = p])

CancelExplorerDialog ==
    /\ operation = None
    /\ dialog # NoDialog
    /\ dialog' = NoDialog
    /\ failure' = FALSE
    /\ UNCHANGED <<folder, staging, current, listed, selected, operation, generation, work,
                   outside, switches, faults>>

\* operation_from_dialog: nothing for a name that is empty.
Submittable(d) ==
    /\ d.kind # "None"
    /\ d.kind \in {"CreateFile", "CreateDirectory", "Rename", "Duplicate"} => d.to # None

SubmitExplorerDialog ==
    /\ operation = None
    /\ Submittable(dialog)
    /\ generation < MaxOperations
    /\ generation' = generation + 1
    /\ operation' = [generation |-> generation + 1, root |-> current]
    /\ failure' = FALSE
    /\ work' = work \cup
               {[generation |-> generation + 1, root |-> current, op |-> dialog,
                 step |-> "start", plan |-> <<>>, seen |-> <<>>, result |-> None]}
    /\ UNCHANGED <<folder, staging, current, listed, selected, dialog, outside, switches, faults>>

\* reconcile_explorer_targets, when a listing has come in.
FilesListed ==
    LET now == DOMAIN folder[current]
        gone(p) == p # None /\ p \notin now
    IN  /\ listed # now
        /\ listed' = now
        /\ selected' = IF gone(selected) THEN None ELSE selected
        /\ LET closes == operation = None /\ dialog.kind # "None" /\ gone(dialog.from) IN
           /\ dialog' = IF closes THEN NoDialog ELSE dialog
           /\ failure' = IF closes THEN FALSE ELSE failure
        /\ UNCHANGED <<folder, staging, current, operation, generation, work, outside, switches,
                       faults>>

\* The answer of an operation in another workspace is ignored altogether.
CompletedHere(w) ==
    /\ w.result # None
    /\ work' = work \ {w}
    /\ operation' = IF operation = [generation |-> w.generation, root |-> current]
                    THEN None ELSE operation
    /\ UNCHANGED <<folder, staging, current, listed, selected, dialog, generation, failure,
                   outside, switches, faults>>

\* FileOperationCompleted
FileOperationCompleted(w) ==
    /\ w.result # None
    /\ work' = work \ {w}
    /\ operation' = IF operation = [generation |-> w.generation, root |-> w.root]
                    THEN None ELSE operation
    /\ LET applies == operation # operation' /\ current = w.root IN
       /\ dialog' = IF applies /\ w.result = "ok" THEN NoDialog ELSE dialog
       /\ selected' = IF applies /\ w.result = "ok" THEN None ELSE selected
       /\ failure' = IF applies THEN w.result # "ok" ELSE failure
    /\ UNCHANGED <<folder, staging, current, listed, generation, outside, switches, faults>>

\* WorkspaceOpened: the selection and the dialog go, the operation in flight stays.
WorkspaceOpened(root) ==
    /\ switches < MaxSwitches
    /\ switches' = switches + 1
    /\ current' = root
    /\ listed' = DOMAIN folder[root]
    /\ selected' = None
    /\ dialog' = NoDialog
    /\ failure' = FALSE
    /\ UNCHANGED <<folder, staging, operation, generation, work, outside, faults>>

-----------------------------------------------------------------------------
(* apply_operation, on a thread of its own.                                 *)

Becomes(w, new) == work' = (work \ {w}) \cup {new}
Ends(w, result) == Becomes(w, [w EXCEPT !.result = result])
Fault == faults < MaxFaults /\ faults' = faults + 1

\* Every step that only touches the folder and its own operation.
Works(w) ==
    w.result = None /\ UNCHANGED <<explorerUi, outside, switches>>

\* The operations that are one call: it happens whole or fails.
CreateEntry(w) ==
    /\ Works(w) /\ w.op.kind \in {"CreateFile", "CreateDirectory"}
    /\ LET f == folder[w.root]
           p == w.op.to
           can == CanPlace(f, p)
       IN  \/ /\ can
              /\ \E v \in IF w.op.kind = "CreateFile" THEN Contents ELSE {"dir"} :
                   folder' = [folder EXCEPT ![w.root] = f @@ (p :> v)]
              /\ Ends(w, "ok")
           \/ ~can /\ Ends(w, "failed") /\ UNCHANGED folder
    /\ UNCHANGED <<staging, faults>>

\* rename_noreplace: a directory moves with everything below it.
RenameEntry(w) ==
    /\ Works(w) /\ w.op.kind = "Rename"
    /\ LET f == folder[w.root]
           from == w.op.from
           to == w.op.to
           can == Exists(f, from) /\ CanPlace(f, to) /\ ~Below(from, to)
           kept == DOMAIN f \ Subtree(f, from)
       IN  \/ /\ can
              /\ folder' = [folder EXCEPT ![w.root] =
                   [q \in {Moved(from, to, s) : s \in Subtree(f, from)} |-> f[Moved(to, from, q)]]
                   @@ Restrict(f, kept)]
              /\ Ends(w, "ok")
           \/ ~can /\ Ends(w, "failed") /\ UNCHANGED folder
    /\ UNCHANGED <<staging, faults>>

\* trash_confined: the platform's trash is never used.
TrashEntry(w) ==
    /\ Works(w) /\ w.op.kind = "Trash"
    /\ Ends(w, "failed")
    /\ UNCHANGED <<folder, staging, faults>>

\* delete_permanently: one entry after another for a directory, which may stop half way.
DeleteEntry(w) ==
    /\ Works(w) /\ w.op.kind = "Delete"
    /\ LET f == folder[w.root]
           all == Subtree(f, w.op.from)
           leaves == {q \in all : \A r \in all : Below(q, r) => r = q}
       IN  \/ /\ ~Exists(f, w.op.from)
              /\ Ends(w, "failed") /\ UNCHANGED <<folder, faults>>
           \/ \E q \in leaves :
                /\ folder' = [folder EXCEPT ![w.root] = Restrict(f, DOMAIN f \ {q})]
                /\ IF all = {q} THEN Ends(w, "ok") ELSE UNCHANGED work
                /\ UNCHANGED faults
           \/ /\ all # {} /\ Fault
              /\ Ends(w, "failed") /\ UNCHANGED folder
    /\ UNCHANGED staging

\* The entries of a directory are left out of the plan.
CopyPlanShallow(f, from) == <<from>>

\* duplicate: a directory is not copied into itself, and nothing but files and directories is
\* copied.  The plan is every entry with its path below the source.
CopyPlan(f, from) == SetToSortSeq(Subtree(f, from), LAMBDA p, q : Len(p) < Len(q))

PlanCopy(w) ==
    /\ Works(w) /\ w.op.kind = "Duplicate" /\ w.step = "start"
    /\ LET f == folder[w.root]
           from == w.op.from
           can == /\ Exists(f, from)
                  /\ f[from] = "dir" => ~Below(from, w.op.to)
                  /\ \A q \in Subtree(f, from) : f[q] # "link"
                  /\ HasParent(f, w.op.to)
       IN  \/ /\ can
              /\ Becomes(w, [w EXCEPT !.step = "copy", !.plan = CopyPlan(f, from),
                                      !.seen = [q \in Subtree(f, from) |-> {f[q]}]])
              /\ staging' = staging \cup {[generation |-> w.generation, payload |-> <<>>]}
           \/ ~can /\ Ends(w, "failed") /\ UNCHANGED staging
    /\ UNCHANGED <<folder, faults>>

Stage(w) == CHOOSE s \in staging : s.generation = w.generation
Restaged(w, payload) == (staging \ {Stage(w)}) \cup {[Stage(w) EXCEPT !.payload = payload]}

\* A failed copy leaves its staging directory.
AbandonKeeping(w) == Ends(w, "failed") /\ UNCHANGED <<staging, faults>>

\* cleanup_failed_staging, which may fail too.
Abandon(w) ==
    /\ Ends(w, "failed")
    /\ \/ staging' = staging \ {Stage(w)} /\ UNCHANGED faults
       \/ Fault /\ UNCHANGED staging

\* execute_copy_plan: the next entry; open_regular_source looks at the entry again.
CopyNext(w) ==
    /\ Works(w) /\ w.step = "copy" /\ w.plan # <<>>
    /\ LET f == folder[w.root]
           p == Head(w.plan)
           part == [path |-> SubSeq(p, Len(w.op.from) + 1, Len(p)), value |-> f[p]]
       IN  \/ /\ Exists(f, p) /\ f[p] # "link"
              /\ staging' = Restaged(w, Append(Stage(w).payload, part))
              /\ Becomes(w, [w EXCEPT !.plan = Tail(@)])
              /\ UNCHANGED faults
           \/ ~(Exists(f, p) /\ f[p] # "link") /\ Abandon(w)
    /\ UNCHANGED folder

\* The payload is renamed to the destination, which must not exist.
Publish(w) ==
    /\ Works(w) /\ w.step = "copy" /\ w.plan = <<>>
    /\ LET f == folder[w.root]
           to == w.op.to
           payload == ToSet(Stage(w).payload)
           at(path) == (CHOOSE part \in payload : part.path = path).value
       IN  \/ /\ CanPlace(f, to)
              /\ folder' = [folder EXCEPT ![w.root] =
                   [q \in {to \o part.path : part \in payload} |-> at(Moved(to, <<>>, q))] @@ f]
              /\ staging' = Restaged(w, <<>>)
              /\ Becomes(w, [w EXCEPT !.step = "published"])
              /\ UNCHANGED faults
           \/ ~CanPlace(f, to) /\ Abandon(w) /\ UNCHANGED folder

\* The permissions of a copied directory, then the empty staging directory: either may fail
\* after the copy is there.
FinishCopy(w) ==
    /\ Works(w) /\ w.step = "published"
    /\ \/ /\ Ends(w, "ok")
          /\ staging' = staging \ {Stage(w)}
          /\ UNCHANGED faults
       \/ /\ Fault
          /\ Ends(w, "failed")
          /\ staging' \in {staging, staging \ {Stage(w)}}
    /\ UNCHANGED folder

\* The source of a copy that runs has been seen to hold v at p.
Seeing(w, root, p, v) ==
    IF w.root = root /\ w.step = "copy" /\ p \in DOMAIN w.seen
    THEN [w EXCEPT !.seen[p] = @ \cup {v}] ELSE w

\* Another program creates, changes or removes an entry that is not a directory.
OutsideChanges(root, p) ==
    /\ outside < MaxOutside
    /\ outside' = outside + 1
    /\ LET f == folder[root] IN
       \/ /\ HasParent(f, p) /\ (Exists(f, p) => f[p] # "dir")
          /\ \E v \in Contents \cup {"link"} :
               /\ folder' = [folder EXCEPT ![root] = (p :> v) @@ f]
               /\ work' = {Seeing(w, root, p, v) : w \in work}
       \/ /\ Exists(f, p) /\ f[p] # "dir"
          /\ folder' = [folder EXCEPT ![root] = Restrict(f, DOMAIN f \ {p})]
          /\ UNCHANGED work
    /\ UNCHANGED <<staging, explorerUi, switches, faults>>

WorkStep(w) ==
    CreateEntry(w) \/ RenameEntry(w) \/ TrashEntry(w) \/ DeleteEntry(w) \/ PlanCopy(w)
    \/ CopyNext(w) \/ Publish(w) \/ FinishCopy(w)

ExplorerNext ==
    \/ \E p \in Paths : SelectExplorerEntry(p) \/ ExplorerDialogInput(p)
    \/ \E kind \in {"CreateFile", "CreateDirectory"} : BeginCreate(kind)
    \/ \E kind \in {"Rename", "Duplicate"} : BeginCopy(kind)
    \/ BeginTrash \/ BeginPermanentDelete \/ CancelExplorerDialog \/ SubmitExplorerDialog
    \/ FilesListed
    \/ \E w \in work : FileOperationCompleted(w) \/ WorkStep(w)
    \/ \E root \in Folders : WorkspaceOpened(root)
    \/ \E root \in Folders, p \in Paths : OutsideChanges(root, p)

ExplorerSpec == ExplorerInit /\ [][ExplorerNext]_explorerVars

-----------------------------------------------------------------------------
\* The state is well formed, and every folder is a tree.
ExplorerTypeOK ==
    /\ \A r \in Folders : \A p \in DOMAIN folder[r] :
         /\ p \in Paths /\ folder[r][p] \in Contents \cup {"dir", "link"}
         /\ HasParent(folder[r], p)
    /\ Cardinality(work) <= 1
    /\ operation # None <=> work # {}

\* No operation overwrites or removes anything but what it was asked to rename or delete,
\* whatever other programs create while it runs: submit_explorer_dialog and apply_operation.
NothingElseIsLost ==
    [][\A w \in work : WorkStep(w) =>
         \A r \in Folders : \A p \in DOMAIN folder[r] :
           \/ p \in DOMAIN folder'[r] /\ folder'[r][p] = folder[r][p]
           \/ r = w.root /\ w.op.kind \in {"Rename", "Delete"} /\ Below(w.op.from, p)]_explorerVars

\* A copy appears whole, whatever other programs do to the source meanwhile: in one step come
\* exactly the entries that preflight_copy found, each with contents that the source has had
\* there since then, and no link.  An entry created after the preflight is not in the copy, and
\* two entries may be of different moments: a copy is no snapshot.
CopiesAreWhole ==
    [][\A w \in work : Publish(w) /\ folder' # folder =>
         LET copyOf(q) == Moved(w.op.from, w.op.to, q)
             now == folder'[w.root] IN
         /\ DOMAIN now \ DOMAIN folder[w.root] = {copyOf(q) : q \in DOMAIN w.seen}
         /\ \A q \in DOMAIN w.seen : now[copyOf(q)] \in w.seen[q] \ {"link"}]_explorerVars

\* A staging directory is left behind only when removing it failed.
StagingIsRemoved ==
    \A s \in staging : faults > 0 \/ \E w \in work : w.generation = s.generation /\ w.step # "start"

\* While an operation of the open workspace runs, the dialog shows that operation.
DialogIsOperation ==
    \A w \in work : (switches = 0 /\ w.root = current) => dialog = w.op

=============================================================================
