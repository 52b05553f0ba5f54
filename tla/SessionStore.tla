---------------------------- MODULE SessionStore ----------------------------
(***************************************************************************)
(* SessionStore of crates/strukt-session/src/store.rs: the catalog file    *)
(* and the copy of the last valid one.  Each file is replaced atomically;  *)
(* a save writes first the copy and then the file, and the process may be  *)
(* killed in between.  A file may be damaged from outside.                 *)
(***************************************************************************)
CONSTANTS
    Records,
    Absent,
    Damaged  \* bytes that decode_record refuses

ASSUME StoreAssumption == Absent \notin Records /\ Damaged \notin Records /\ Absent # Damaged

VARIABLES
    current,  \* session-catalog.json
    backup    \* session-catalog.last-valid.json

files == <<current, backup>>

StoreInit == current = Absent /\ backup = Absent

\* load: the file, or the copy if it cannot be read or decoded.
Load ==
    CASE current \in Records -> current
      [] current \notin Records /\ backup \in Records -> backup
      [] current = Absent /\ backup = Absent -> Absent
      [] OTHER -> Damaged

\* Faulty variant: a copy of a file that does not decode.
SaveBackupUnchecked ==
    /\ current # Absent
    /\ backup' = current
    /\ UNCHANGED current

\* save, its first write: a copy of what can be decoded.  If there is nothing to copy,
\* the save goes on with SaveCurrent.
SaveBackup ==
    /\ current \in Records
    /\ backup' = current
    /\ UNCHANGED current
NothingToCopy == current \notin Records

\* Its second write; a record that is too large is refused before it.
SaveCurrent(record) ==
    /\ current' = record
    /\ UNCHANGED backup

Damage ==
    /\ current' = Damaged
    /\ UNCHANGED backup

Record == INSTANCE SessionRecord
            WITH durable <- Load,
                 previous <- IF backup \in Records THEN backup ELSE Damaged,
                 Empty <- Absent, Unreadable <- Damaged

\* What save and load promise, whatever interrupts a save: a reader finds the last record
\* saved whole, and the one before it once the file is damaged.
SavesAreAtomic == Record!Spec
=============================================================================
