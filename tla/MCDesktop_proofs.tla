------------------------- MODULE MCDesktop_proofs -------------------------
(***************************************************************************)
(* Proofs about the editor of the desktop and the sessions it shows.       *)
(*                                                                         *)
(* What a document of the editor keeps, for every file, every number of    *)
(* saves on their way and every program that writes beside them: a mark    *)
(* that says clean says the truth, a save takes the place of nothing that  *)
(* its document has not shown, and a document that is closed leaves        *)
(* nothing behind.                                                         *)
(*                                                                         *)
(* Of the sessions, whatever answers cross, whichever links fail and       *)
(* however often a service is started again: a client is never left        *)
(* waiting for nothing, a client that says it is ready can ask, and the    *)
(* screens are those of the catalog shown.                                 *)
(***************************************************************************)
EXTENDS MCDesktop, SequenceTheorems, FiniteSetTheorems, TLAPS

-----------------------------------------------------------------------------
(* The editor: the inductive invariant.                                     *)

Documents ==
    [id : Nat, text : Texts, revision : Nat, saved : Texts, disk : Texts, status : Statuses,
     theirs : Texts \cup {None}, readOnly : BOOLEAN, recovered : BOOLEAN, preview : BOOLEAN,
     undo : Seq(Texts), redo : Seq(Texts), seen : SUBSET Texts, standIn : BOOLEAN]

Records == [baseline : Texts, text : Texts]
Reads == [text : Texts, disk : Texts, readOnly : BOOLEAN]

OpenJobs ==
    [kind : {"open"}, preview : BOOLEAN, full : BOOLEAN, result : {None, Missing} \cup Reads]
SaveJobs ==
    [kind : {"save"}, id : Nat, revision : Nat, text : Texts, disk : Texts, force : BOOLEAN,
     stage : {"check", "recheck", "replace", "verify", "done"},
     result : {None, "saved", "failed"}, seen : SUBSET Texts, raced : BOOLEAN,
     readOnly : BOOLEAN]
ObserveJobs ==
    [kind : {"observe"}, id : Nat, revision : Nat, result : {None, Missing} \cup Reads]
DueTimers == [kind : {"due"}, id : Nat, revision : Nat, generation : Nat]
KeepJobs == [kind : {"keep"}, record : Records]
LoadJobs ==
    [kind : {"load"}, id : Nat, revision : Nat, baseline : Texts, result : {None} \cup Texts]
DeleteJobs == [kind : {"delete"}, id : Nat, result : {None, "deleted"}]
Jobs ==
    OpenJobs \cup SaveJobs \cup ObserveJobs \cup DueTimers \cup KeepJobs \cup LoadJobs
      \cup DeleteJobs

\* What is known of the file, of the record beside it and of the counters.
WorldInv ==
    /\ file \in onDisk
    /\ onDisk \subseteq Texts \cup {Missing}
    /\ store \in [current : {None} \cup Records, backup : {None} \cup Records]
    /\ opened \in Nat
    /\ generation \in Nat
    /\ tab \in {None} \cup Texts
    /\ readOnlySaved \in BOOLEAN

\* The text of a document that is not edited was on disk, and is what it would save against.
Baseline(d) ==
    \/ d.saved = d.disk
    \/ d.readOnly /\ d.saved = Cut /\ d.disk \in Large
    \/ d.standIn

Good(d) ==
    /\ d \in Documents
    /\ Len(d.undo) + Len(d.redo) <= MaxHistory
    /\ d.revision + Len(d.redo) <= MaxRevision + MaxHistory
    /\ d.disk \in d.seen
    /\ d.status = "Clean" => d.text = d.saved
    /\ d.status = "Conflict" => d.theirs \in onDisk \cap Texts
    /\ ~readOnlySaved => Baseline(d)
    /\ d.saved \in onDisk \cup {Empty} \/ d.readOnly \/ readOnlySaved

DocumentInv == doc # None => Good(doc) /\ doc.id \in 1..opened

\* What was read is what the file had.
WasRead(r) ==
    /\ r.disk \in onDisk
    /\ r.readOnly => r.text = Cut /\ r.disk \in Large
    /\ ~r.readOnly => r.text = r.disk

\* A save is of a document that was opened, has seen the baseline it goes by, has seen what
\* it is about to replace if no one came between, and has published what it says it saved.
SaveIsSound(job) ==
    /\ job.id <= opened
    /\ job.disk \in job.seen
    /\ job.stage = "replace" /\ ~job.force => file \in job.seen \/ job.raced
    /\ job.stage = "verify" \/ job.result = "saved" =>
         job.text \in onDisk /\ (job.readOnly => readOnlySaved)

JobIsSound(job) ==
    /\ job \in Jobs
    /\ job.kind = "save" => SaveIsSound(job)
    /\ job.kind \in {"open", "observe"} /\ job.result \notin {None, Missing} =>
         WasRead(job.result)

JobsInv == \A job \in jobs : JobIsSound(job)

\* A save of an editable document is of this text or of an earlier revision.
Matches(d, job) ==
    job.kind = "save" /\ job.id = d.id /\ ~job.readOnly =>
      /\ ~d.readOnly
      /\ job.revision <= d.revision
      /\ job.revision = d.revision => job.text = d.text

MatchInv == doc # None => \A job \in jobs : Matches(doc, job)

EditorInv == WorldInv /\ DocumentInv /\ JobsInv /\ MatchInv

\* What becomes of a document: its revision moves on with its text, and an editable document
\* stays editable.
Follows(d, e) ==
    /\ e.id = d.id
    /\ ~d.readOnly =>
         /\ ~e.readOnly
         /\ d.revision <= e.revision
         /\ d.revision = e.revision => d.text = e.text

-----------------------------------------------------------------------------
(* The operations of a document.                                            *)

\* A save that is acknowledged makes the text the baseline.
LEMMA CompleteSaveKeeps ==
    ASSUME NEW d, Good(d), NEW disk \in Texts, disk \in onDisk,
           ~readOnlySaved => disk = d.text
    PROVE  Good(CompleteSave(d, disk)) /\ Follows(d, CompleteSave(d, disk))
  <1> DEFINE e == CompleteSave(d, disk)
  <1>1. e \in Documents
    BY DEF Good, Documents, CompleteSave, Statuses
  <1> QED
    BY <1>1 DEF Good, Documents, CompleteSave, Follows, Baseline

\* Adding to a sequence, and taking its first or its last entry away.
LEMMA EntryFacts ==
    ASSUME NEW s \in Seq(Texts), NEW text \in Texts
    PROVE  /\ Append(s, text) \in Seq(Texts) /\ Len(Append(s, text)) = Len(s) + 1
           /\ s # <<>> => /\ Tail(s) \in Seq(Texts) /\ Len(Tail(s)) = Len(s) - 1
                          /\ Front(s) \in Seq(Texts) /\ Len(Front(s)) = Len(s) - 1
                          /\ Last(s) \in Texts /\ Len(s) \in Nat \ {0}
  <1>1. Append(s, text) \in Seq(Texts) /\ Len(Append(s, text)) = Len(s) + 1
    OBVIOUS
  <1>2. ASSUME s # <<>>
        PROVE  /\ Tail(s) \in Seq(Texts) /\ Len(Tail(s)) = Len(s) - 1
               /\ Front(s) \in Seq(Texts) /\ Len(Front(s)) = Len(s) - 1
               /\ Last(s) \in Texts /\ Len(s) \in Nat \ {0}
    <2>1. Len(s) \in Nat \ {0}
      BY <1>2, EmptySeq
    <2>2. Tail(s) \in Seq(Texts) /\ Len(Tail(s)) = Len(s) - 1
      BY <1>2, HeadTailProperties
    <2>3. Front(s) \in Seq(Texts) /\ Len(Front(s)) = Len(s) - 1
      <3>1. 1 \in Int /\ Len(s) - 1 \in Int /\ \A i \in 1 .. Len(s) - 1 : s[i] \in Texts
        BY <2>1
      <3>2. /\ SubSeq(s, 1, Len(s) - 1) \in Seq(Texts)
            /\ Len(SubSeq(s, 1, Len(s) - 1)) = IF 1 <= Len(s) - 1 THEN Len(s) - 1 - 1 + 1 ELSE 0
        BY <3>1, SubSeqProperties
      <3>3. \A n \in Nat \ {0} : (IF 1 <= n - 1 THEN n - 1 - 1 + 1 ELSE 0) = n - 1
        OBVIOUS
      <3>4. Front(s) = SubSeq(s, 1, Len(s) - 1)
        BY DEF Front
      <3> QED
        BY <2>1, <3>2, <3>3, <3>4
    <2> QED
      BY <2>1, <2>2, <2>3 DEF Last
  <1> QED
    BY <1>1, <1>2

\* Two documents that differ in their tab and in what can be undone and redone.
SameText(d, e) ==
    /\ e.id = d.id /\ e.text = d.text /\ e.revision = d.revision /\ e.saved = d.saved
    /\ e.disk = d.disk /\ e.status = d.status /\ e.theirs = d.theirs
    /\ e.readOnly = d.readOnly /\ e.recovered = d.recovered /\ e.seen = d.seen
    /\ e.standIn = d.standIn

\* A document that is pinned is the same document.
LEMMA PinnedKeeps ==
    ASSUME NEW d, Good(d)
    PROVE  Good(Pinned(d)) /\ Follows(d, Pinned(d)) /\ Pinned(d).status = d.status
  <1>1. d \in Documents
    BY DEF Good
  <1>2. Pinned(d) \in Documents
    BY <1>1 DEF Documents, Pinned
  <1>3. /\ SameText(d, Pinned(d)) /\ Pinned(d).undo = d.undo /\ Pinned(d).redo = d.redo
    BY <1>1 DEF Documents, Pinned, SameText
  <1>4. Follows(d, Pinned(d)) /\ (Baseline(d) => Baseline(Pinned(d)))
    BY <1>1, <1>3 DEF Documents, Follows, Baseline, SameText
  <1> QED
    BY <1>2, <1>3, <1>4 DEF Good, SameText

\* What the history records of a change: it stays within its budget.
LEMMA RecordedKeeps ==
    ASSUME NEW d, Good(d)
    PROVE  Good(Recorded(d)) /\ Recorded(d).redo = <<>> /\ SameText(d, Recorded(d))
  <1> DEFINE longer == Append(d.undo, d.text)
             kept == IF Len(longer) > MaxHistory THEN Tail(longer) ELSE longer
  <1>1. d.undo \in Seq(Texts) /\ d.text \in Texts /\ d.redo \in Seq(Texts)
    BY DEF Good, Documents
  <1>2. Len(d.undo) <= MaxHistory /\ d.revision <= MaxRevision + MaxHistory
    BY <1>1, BoundAssumption, LenProperties DEF Good, Documents
  <1>3. longer \in Seq(Texts) /\ Len(longer) = Len(d.undo) + 1
    BY <1>1, EntryFacts
  <1>4. kept \in Seq(Texts) /\ Len(kept) <= MaxHistory
    <2>1. CASE Len(longer) > MaxHistory
      <3>1. longer # <<>>
        BY <1>1, <1>3, LenProperties
      <3> QED
        BY <1>1, <1>2, <1>3, <2>1, <3>1, EntryFacts, BoundAssumption, LenProperties
    <2>2. CASE ~(Len(longer) > MaxHistory)
      BY <1>1, <1>3, <2>2, BoundAssumption, LenProperties
    <2> QED
      BY <2>1, <2>2
  <1>5. Recorded(d) = [d EXCEPT !.undo = kept, !.redo = <<>>]
    BY DEF Recorded
  <1> HIDE DEF kept
  <1>6. <<>> \in Seq(Texts) /\ Len(<<>>) = 0
    OBVIOUS
  <1>7. [d EXCEPT !.undo = kept, !.redo = <<>>] \in Documents
    BY <1>4, <1>6 DEF Good, Documents
  <1>8. Recorded(d).undo = kept /\ Recorded(d).redo = <<>> /\ SameText(d, Recorded(d))
    BY <1>5 DEF Good, Documents, SameText
  <1>9. Good(Recorded(d))
    BY <1>2, <1>4, <1>5, <1>6, <1>7, <1>8, BoundAssumption, LenProperties
       DEF Good, Documents, Baseline, SameText
  <1> QED
    BY <1>8, <1>9

\* A new text is a new revision; its status is what a comparison with the saved text says.
LEMMA AppliedKeeps ==
    ASSUME NEW d, Good(d), NEW text \in Texts,
           d.revision + 1 + Len(d.redo) <= MaxRevision + MaxHistory
    PROVE  LET e == RefreshDirtyStatus(Pinned(Apply(d, text)))
           IN Good(e) /\ Follows(d, e)
  <1> DEFINE a == Apply(d, text)
             p == Pinned(a)
             e == RefreshDirtyStatus(p)
  <1>0. d \in Documents /\ d.revision \in Nat /\ d.disk \in d.seen
    BY DEF Good, Documents
  <1>1. a \in Documents
    <2>1. d.revision + 1 \in Nat
      BY <1>0
    <2> DEFINE next == d.revision + 1
    <2>2. a = [[d EXCEPT !.text = text] EXCEPT !.revision = next]
      BY DEF Apply
    <2>3. next \in Nat
      BY <2>1
    <2> HIDE DEF next, a
    <2> QED
      BY <1>0, <2>2, <2>3 DEF Documents
  <1>2. /\ a.text = text /\ a.revision = d.revision + 1
        /\ a.id = d.id /\ a.saved = d.saved /\ a.disk = d.disk /\ a.status = d.status
        /\ a.theirs = d.theirs /\ a.readOnly = d.readOnly /\ a.undo = d.undo
        /\ a.redo = d.redo /\ a.seen = d.seen /\ a.standIn = d.standIn
    BY <1>0 DEF Documents, Apply
  <1> HIDE DEF a
  <1>9. p \in Documents
    BY <1>1 DEF Documents, Pinned
  <1>3. /\ p.id = d.id /\ p.text = text /\ p.revision = d.revision + 1 /\ p.saved = d.saved
        /\ p.disk = d.disk /\ p.status = d.status /\ p.theirs = d.theirs
        /\ p.readOnly = d.readOnly /\ p.undo = d.undo /\ p.redo = d.redo /\ p.seen = d.seen
        /\ p.standIn = d.standIn
    BY <1>1, <1>2 DEF Documents, Pinned
  <1> HIDE DEF p
  <1>4. e \in Documents /\ e.status \in Statuses
        /\ (e.status = "Clean" => e.text = e.saved)
        /\ (e.status = "Conflict" => d.status = "Conflict")
    BY <1>9, <1>3 DEF RefreshDirtyStatus, Documents, Statuses
  <1>5. /\ e.id = d.id /\ e.text = text /\ e.revision = d.revision + 1 /\ e.saved = d.saved
        /\ e.disk = d.disk /\ e.theirs = d.theirs
        /\ e.readOnly = d.readOnly /\ e.undo = d.undo /\ e.redo = d.redo /\ e.seen = d.seen
        /\ e.standIn = d.standIn
    BY <1>9, <1>3 DEF RefreshDirtyStatus, Documents
  <1> HIDE DEF e
  <1>6. Follows(d, e)
    BY <1>0, <1>5 DEF Follows
  <1>7. Baseline(d) => Baseline(e)
    BY <1>5 DEF Baseline
  <1>8. Good(e)
    BY <1>0, <1>4, <1>5, <1>7 DEF Good
  <1> QED
    BY <1>6, <1>8 DEF p, a, e

\* What can be undone and redone may move within the budget.
LEMMA HistoryKeeps ==
    ASSUME NEW d, Good(d), NEW e \in Documents, SameText(d, e),
           Len(e.undo) + Len(e.redo) <= MaxHistory,
           e.revision + Len(e.redo) <= MaxRevision + MaxHistory
    PROVE  Good(e)
  <1>1. Baseline(d) => Baseline(e)
    BY DEF Baseline, SameText
  <1> QED
    BY <1>1 DEF Good, SameText

\* What follows a document that differs in its tab only follows the document.
LEMMA SameFollows ==
    ASSUME NEW d, NEW e, NEW f, SameText(d, e), Follows(e, f)
    PROVE  Follows(d, f)
  BY DEF SameText, Follows

\* An edit, recorded or joined to the one before.
LEMMA EditKeeps ==
    ASSUME NEW d, Good(d), NEW text \in Texts, d.revision < MaxRevision, NEW e \in Edit(d, text)
    PROVE  Good(e) /\ Follows(d, e)
  <1>1. ASSUME NEW r, Good(r), SameText(d, r), r.redo = <<>>
        PROVE  LET f == RefreshDirtyStatus(Pinned(Apply(r, text))) IN Good(f) /\ Follows(d, f)
    <2>1. r.revision + 1 + Len(r.redo) <= MaxRevision + MaxHistory
      <3>1. Len(<<>>) = 0 /\ d.revision \in Nat
        BY DEF Good, Documents
      <3> QED
        BY <1>1, <3>1, BoundAssumption DEF SameText
    <2> QED
      BY <1>1, <2>1, AppliedKeeps, SameFollows
  <1>2. Good(Recorded(d)) /\ SameText(d, Recorded(d)) /\ Recorded(d).redo = <<>>
    BY RecordedKeeps
  <1>3. ASSUME NEW r \in Coalesced(d)
        PROVE  Good(r) /\ SameText(d, r) /\ r.redo = <<>>
    <2>1. r = [d EXCEPT !.redo = <<>>]
      BY <1>3 DEF Coalesced
    <2>2. d \in Documents /\ d.redo \in Seq(Texts) /\ d.undo \in Seq(Texts) /\ d.revision \in Nat
      BY DEF Good, Documents
    <2>3. <<>> \in Seq(Texts) /\ Len(<<>>) = 0 /\ Len(d.redo) \in Nat /\ Len(d.undo) \in Nat
      BY <2>2
    <2>4. r \in Documents
      BY <2>1, <2>2, <2>3 DEF Documents
    <2>5. SameText(d, r) /\ r.redo = <<>> /\ r.undo = d.undo
      BY <2>1, <2>2 DEF Documents, SameText
    <2>6. Baseline(d) => Baseline(r)
      BY <2>5 DEF Baseline, SameText
    <2>7. /\ Len(r.undo) + Len(r.redo) <= MaxHistory
          /\ r.revision + Len(r.redo) <= MaxRevision + MaxHistory
      <3>1. /\ Len(d.undo) + Len(d.redo) <= MaxHistory
            /\ d.revision + Len(d.redo) <= MaxRevision + MaxHistory
        BY DEF Good
      <3>2. Len(r.undo) = Len(d.undo) /\ Len(r.redo) = 0 /\ r.revision = d.revision
        BY <2>3, <2>5 DEF SameText
      <3>3. \A u, n, v, m, h \in Nat :
              u + n <= h /\ v + n <= m + h => u + 0 <= h /\ v + 0 <= m + h
        OBVIOUS
      <3>4. MaxRevision \in Nat /\ MaxHistory \in Nat
        BY BoundAssumption
      <3>5. Len(d.undo) + 0 <= MaxHistory /\ d.revision + 0 <= MaxRevision + MaxHistory
        BY <2>2, <2>3, <3>1, <3>3, <3>4
      <3> QED
        BY <3>2, <3>5
    <2>8. Good(r)
      BY <2>4, <2>5, <2>6, <2>7 DEF Good, SameText
    <2> QED
      BY <2>5, <2>8
  <1>4. PICK r \in {Recorded(d)} \cup Coalesced(d) :
              e = RefreshDirtyStatus(Pinned(Apply(r, text)))
    BY DEF Edit
  <1> QED
    BY <1>1, <1>2, <1>3, <1>4

\* An undo gives what was there before its revision to the next one.
LEMMA UndoKeeps ==
    ASSUME NEW d, Good(d), d.undo # <<>>, d.revision < MaxRevision
    PROVE  Good(Undo(d)) /\ Follows(d, Undo(d))
  <1> DEFINE moved == [d EXCEPT !.undo = Front(d.undo), !.redo = Append(d.redo, d.text)]
  <1>1. d.undo \in Seq(Texts) /\ d.redo \in Seq(Texts) /\ d.text \in Texts /\ d.revision \in Nat
    BY DEF Good, Documents
  <1>2. /\ Front(d.undo) \in Seq(Texts) /\ Len(Front(d.undo)) = Len(d.undo) - 1
        /\ Last(d.undo) \in Texts /\ Len(d.undo) \in Nat
    BY <1>1, EntryFacts
  <1>3. Append(d.redo, d.text) \in Seq(Texts) /\ Len(Append(d.redo, d.text)) = Len(d.redo) + 1
        /\ Len(d.redo) \in Nat
    BY <1>1, EntryFacts
  <1>4. Len(d.undo) + Len(d.redo) <= MaxHistory
    BY DEF Good
  <1>5. /\ Len(Front(d.undo)) + Len(Append(d.redo, d.text)) <= MaxHistory
        /\ d.revision + 1 + Len(Append(d.redo, d.text)) <= MaxRevision + MaxHistory
        /\ d.revision + Len(Append(d.redo, d.text)) <= MaxRevision + MaxHistory
    <2> DEFINE u == Len(d.undo)
               r == Len(d.redo)
               front == Len(Front(d.undo))
               longer == Len(Append(d.redo, d.text))
    <2>1. u \in Nat /\ r \in Nat /\ front = u - 1 /\ longer = r + 1 /\ u + r <= MaxHistory
      BY <1>2, <1>3, <1>4
    <2>2. u >= 1
      BY <1>1, EntryFacts
    <2> HIDE DEF u, r, front, longer
    <2>3. /\ front + longer <= MaxHistory /\ d.revision + 1 + longer <= MaxRevision + MaxHistory
          /\ d.revision + longer <= MaxRevision + MaxHistory
      BY <1>1, <2>1, <2>2, BoundAssumption
    <2> QED
      BY <2>3 DEF front, longer
  <1>6. Good(moved) /\ SameText(d, moved) /\ moved.redo = Append(d.redo, d.text)
    <2> DEFINE front == Front(d.undo)
               longer == Append(d.redo, d.text)
    <2>1. moved = [d EXCEPT !.undo = front, !.redo = longer]
      OBVIOUS
    <2>2. /\ front \in Seq(Texts) /\ longer \in Seq(Texts)
          /\ Len(front) + Len(longer) <= MaxHistory
          /\ d.revision + Len(longer) <= MaxRevision + MaxHistory
      BY <1>2, <1>3, <1>5
    <2> HIDE DEF moved, front, longer
    <2>3. d \in Documents
      BY DEF Good
    <2>4. /\ moved \in Documents /\ SameText(d, moved)
          /\ moved.undo = front /\ moved.redo = longer
      BY <2>1, <2>2, <2>3 DEF Documents, SameText
    <2>5. moved.revision = d.revision
      BY <2>4 DEF SameText
    <2>6. Good(moved)
      BY <2>2, <2>4, <2>5, HistoryKeeps
    <2> QED
      BY <2>4, <2>6 DEF longer
  <1>7. Undo(d) = RefreshDirtyStatus(Pinned(Apply(moved, Last(d.undo))))
    BY DEF Undo
  <1>8. moved.revision + 1 + Len(moved.redo) <= MaxRevision + MaxHistory
    BY <1>5, <1>6 DEF SameText
  <1> HIDE DEF moved
  <1> QED
    BY <1>2, <1>6, <1>7, <1>8, AppliedKeeps, SameFollows

\* A redo likewise; it may go beyond the bound of the revisions by what can be redone.
LEMMA RedoKeeps ==
    ASSUME NEW d, Good(d), d.redo # <<>>
    PROVE  Good(Redo(d)) /\ Follows(d, Redo(d))
  <1> DEFINE moved == [d EXCEPT !.redo = Front(d.redo), !.undo = Append(d.undo, d.text)]
             turned == [d EXCEPT !.undo = Append(d.undo, d.text), !.redo = Front(d.redo)]
  <1>1. d.undo \in Seq(Texts) /\ d.redo \in Seq(Texts) /\ d.text \in Texts /\ d.revision \in Nat
        /\ d \in Documents
    BY DEF Good, Documents
  <1>2. /\ Front(d.redo) \in Seq(Texts) /\ Len(Front(d.redo)) = Len(d.redo) - 1
        /\ Last(d.redo) \in Texts /\ Len(d.redo) \in Nat
    BY <1>1, EntryFacts
  <1>3. Append(d.undo, d.text) \in Seq(Texts) /\ Len(Append(d.undo, d.text)) = Len(d.undo) + 1
        /\ Len(d.undo) \in Nat
    BY <1>1, EntryFacts
  <1>4. /\ Len(d.undo) + Len(d.redo) <= MaxHistory
        /\ d.revision + Len(d.redo) <= MaxRevision + MaxHistory
    BY DEF Good
  <1>5. /\ Len(Append(d.undo, d.text)) + Len(Front(d.redo)) <= MaxHistory
        /\ d.revision + 1 + Len(Front(d.redo)) <= MaxRevision + MaxHistory
        /\ d.revision + Len(Front(d.redo)) <= MaxRevision + MaxHistory
    <2> DEFINE u == Len(d.undo)
               r == Len(d.redo)
               front == Len(Front(d.redo))
               longer == Len(Append(d.undo, d.text))
    <2>1. u \in Nat /\ r \in Nat /\ front = r - 1 /\ longer = u + 1 /\ u + r <= MaxHistory
          /\ d.revision + r <= MaxRevision + MaxHistory
      BY <1>2, <1>3, <1>4
    <2> HIDE DEF u, r, front, longer
    <2>2. /\ longer + front <= MaxHistory /\ d.revision + 1 + front <= MaxRevision + MaxHistory
          /\ d.revision + front <= MaxRevision + MaxHistory
      BY <1>1, <2>1, BoundAssumption
    <2> QED
      BY <2>2 DEF front, longer
  <1>6. Good(turned) /\ SameText(d, turned) /\ turned.redo = Front(d.redo)
    <2> DEFINE front == Front(d.redo)
               longer == Append(d.undo, d.text)
    <2>1. turned = [d EXCEPT !.undo = longer, !.redo = front]
      OBVIOUS
    <2>2. /\ front \in Seq(Texts) /\ longer \in Seq(Texts)
          /\ Len(longer) + Len(front) <= MaxHistory
          /\ d.revision + Len(front) <= MaxRevision + MaxHistory
      BY <1>2, <1>3, <1>5
    <2> HIDE DEF turned, front, longer
    <2>3. d \in Documents
      BY DEF Good
    <2>4. /\ turned \in Documents /\ SameText(d, turned)
          /\ turned.undo = longer /\ turned.redo = front
      BY <2>1, <2>2, <2>3 DEF Documents, SameText
    <2>5. turned.revision = d.revision
      BY <2>4 DEF SameText
    <2>6. Good(turned)
      BY <2>2, <2>4, <2>5, HistoryKeeps
    <2> QED
      BY <2>4, <2>6 DEF front
  <1>7. moved = turned
    BY <1>1, <1>2, <1>3 DEF Documents
  <1>8. Redo(d) = RefreshDirtyStatus(Pinned(Apply(moved, Last(d.redo))))
    BY DEF Redo
  <1>9. turned.revision + 1 + Len(turned.redo) <= MaxRevision + MaxHistory
    BY <1>5, <1>6 DEF SameText
  <1> HIDE DEF moved, turned
  <1> QED
    BY <1>2, <1>6, <1>7, <1>8, <1>9, AppliedKeeps, SameFollows

\* What is on disk is shown by a document that is clean and a conflict for one that is not.
LEMMA ObserveKeeps ==
    ASSUME NEW d, Good(d), NEW disk \in Texts, disk \in onDisk, NEW expected,
           ObserveDiskChange(d, expected, disk).revision <= MaxRevision + MaxHistory
    PROVE  /\ Good(ObserveDiskChange(d, expected, disk))
           /\ Follows(d, ObserveDiskChange(d, expected, disk))
  <1> DEFINE e == ObserveDiskChange(d, expected, disk)
  <1>1. d \in Documents /\ d.revision \in Nat /\ Follows(d, d)
    BY DEF Good, Documents, Follows
  <1>2. CASE ~EnsureRevision(d, expected)
    BY <1>1, <1>2 DEF ObserveDiskChange
  <1>3. CASE EnsureRevision(d, expected) /\ d.status = "Clean"
    <2> DEFINE a == Apply(d, disk)
               kept == a.preview /\ ~d.recovered
               seen == a.seen \cup {disk}
    <2>1. a \in Documents
      <3> DEFINE next == d.revision + 1
      <3>1. a = [[d EXCEPT !.text = disk] EXCEPT !.revision = next] /\ next \in Nat
        BY <1>1 DEF Apply
      <3> HIDE DEF next, a
      <3> QED
        BY <1>1, <3>1 DEF Documents
    <2>2. /\ a.id = d.id /\ a.text = disk /\ a.revision = d.revision + 1
          /\ a.status = "Clean" /\ a.readOnly = d.readOnly
      BY <1>1, <1>3 DEF Documents, Apply
    <2>3. e = [a EXCEPT !.undo = <<>>, !.redo = <<>>, !.saved = disk, !.disk = disk,
                        !.seen = seen, !.standIn = FALSE, !.preview = kept]
      BY <1>3 DEF ObserveDiskChange
    <2>4. kept \in BOOLEAN /\ seen \in SUBSET Texts
      BY <2>1 DEF Documents
    <2>5. disk \in seen
      OBVIOUS
    <2>6. <<>> \in Seq(Texts) /\ Len(<<>>) = 0
      OBVIOUS
    <2> HIDE DEF a, e, kept, seen
    <2>7. e \in Documents
      BY <2>1, <2>3, <2>4, <2>6 DEF Documents
    <2>8. /\ e.id = d.id /\ e.text = disk /\ e.revision = d.revision + 1
          /\ e.status = "Clean" /\ e.readOnly = d.readOnly
      BY <2>1, <2>2, <2>3 DEF Documents
    <2>9. /\ e.undo = <<>> /\ e.redo = <<>> /\ e.saved = disk /\ e.disk = disk
          /\ e.seen = seen
      BY <2>1, <2>3 DEF Documents
    <2>10. Follows(d, e)
      BY <1>1, <2>8 DEF Follows
    <2>11. Baseline(e)
      BY <2>9 DEF Baseline
    <2>12. /\ Len(e.undo) + Len(e.redo) <= MaxHistory
           /\ e.revision + Len(e.redo) <= MaxRevision + MaxHistory
      <3>1. Len(e.undo) = 0 /\ Len(e.redo) = 0 /\ e.revision \in Nat
        BY <2>6, <2>7, <2>9 DEF Documents
      <3>2. e.revision <= MaxRevision + MaxHistory
        BY DEF e
      <3> QED
        BY <3>1, <3>2, BoundAssumption
    <2>13. Good(e)
      BY <2>5, <2>7, <2>8, <2>9, <2>11, <2>12 DEF Good
    <2> QED
      BY <2>10, <2>13 DEF e
  <1>4. CASE EnsureRevision(d, expected) /\ d.status # "Clean"
    <2> DEFINE c == [d EXCEPT !.status = "Conflict", !.theirs = disk]
    <2>1. e = Pinned(c)
      BY <1>4 DEF ObserveDiskChange
    <2>2. c \in Documents /\ c.status = "Conflict" /\ c.theirs = disk
      BY <1>1 DEF Documents, Statuses
    <2>3. /\ c.id = d.id /\ c.text = d.text /\ c.revision = d.revision /\ c.saved = d.saved
          /\ c.disk = d.disk /\ c.readOnly = d.readOnly /\ c.undo = d.undo
          /\ c.redo = d.redo /\ c.seen = d.seen /\ c.standIn = d.standIn
      BY <1>1 DEF Documents
    <2> HIDE DEF c
    <2>4. Baseline(d) => Baseline(c)
      BY <2>3 DEF Baseline
    <2>5. Good(c)
      BY <2>2, <2>3, <2>4 DEF Good
    <2>6. Good(Pinned(c)) /\ Follows(c, Pinned(c))
      BY <2>5, PinnedKeeps
    <2>7. Follows(d, Pinned(c))
      BY <2>3, <2>6 DEF Follows
    <2> QED
      BY <2>1, <2>6, <2>7
  <1> QED
    BY <1>2, <1>3, <1>4

\* Another status of a document that is not clean keeps its text and its baseline.
LEMMA StatusKeeps ==
    ASSUME NEW d, Good(d), NEW status \in {"Dirty", "Missing"}
    PROVE  LET e == Pinned([d EXCEPT !.status = status]) IN Good(e) /\ Follows(d, e)
  <1> DEFINE s == [d EXCEPT !.status = status]
  <1>1. d \in Documents /\ status \in Statuses
    BY DEF Good, Statuses
  <1>2. s \in Documents /\ s.status = status
    BY <1>1 DEF Documents
  <1>3. /\ s.id = d.id /\ s.text = d.text /\ s.revision = d.revision /\ s.saved = d.saved
        /\ s.disk = d.disk /\ s.readOnly = d.readOnly /\ s.undo = d.undo
        /\ s.redo = d.redo /\ s.seen = d.seen /\ s.standIn = d.standIn
    BY <1>1 DEF Documents
  <1> HIDE DEF s
  <1>4. Baseline(d) => Baseline(s)
    BY <1>3 DEF Baseline
  <1>5. Good(s)
    BY <1>2, <1>3, <1>4 DEF Good
  <1>6. Good(Pinned(s)) /\ Follows(s, Pinned(s))
    BY <1>5, PinnedKeeps
  <1>7. Follows(d, Pinned(s))
    BY <1>3, <1>6 DEF Follows
  <1> QED
    BY <1>6, <1>7 DEF s

\* A file that is missing, and edits that go on after a conflict.
LEMMA MissingKeeps ==
    ASSUME NEW d, Good(d), NEW expected
    PROVE  /\ Good(ObserveMissing(d, expected)) /\ Follows(d, ObserveMissing(d, expected))
           /\ Good(KeepEditing(d)) /\ Follows(d, KeepEditing(d))
  <1>1. Follows(d, d)
    BY DEF Good, Documents, Follows
  <1> QED
    BY <1>1, StatusKeeps DEF ObserveMissing, KeepEditing

\* A document that is reloaded shows what the conflict found on disk.
LEMMA ReloadKeeps ==
    ASSUME NEW d, Good(d), d.status = "Conflict", d.revision < MaxRevision
    PROVE  Good(ReloadFromDisk(d)) /\ Follows(d, ReloadFromDisk(d))
  <1> DEFINE r == Recorded(d)
             a == Apply(r, d.theirs)
             seen == a.seen \cup {d.theirs}
             e == [a EXCEPT !.saved = d.theirs, !.disk = d.theirs, !.status = "Clean",
                            !.recovered = FALSE, !.seen = seen, !.standIn = FALSE]
  <1>1. d.theirs \in onDisk /\ d.theirs \in Texts /\ d.revision \in Nat
    BY DEF Good, Documents
  <1>2. Good(r) /\ r.redo = <<>> /\ SameText(d, r)
    BY RecordedKeeps
  <1>3. r \in Documents /\ r.id = d.id /\ r.revision = d.revision /\ r.readOnly = d.readOnly
    BY <1>2 DEF Good, SameText
  <1>4. Len(<<>>) = 0 /\ Len(r.undo) + Len(r.redo) <= MaxHistory
    BY <1>2 DEF Good
  <1>5. ReloadFromDisk(d) = Pinned(e)
    BY DEF ReloadFromDisk
  <1> HIDE DEF r
  <1>6. a \in Documents
    <2> DEFINE next == r.revision + 1
    <2>1. a = [[r EXCEPT !.text = d.theirs] EXCEPT !.revision = next] /\ next \in Nat
      BY <1>1, <1>3 DEF Apply
    <2> HIDE DEF next, a
    <2> QED
      BY <1>1, <1>3, <2>1 DEF Documents
  <1>7. /\ a.id = d.id /\ a.text = d.theirs /\ a.revision = d.revision + 1
        /\ a.readOnly = d.readOnly /\ a.undo = r.undo /\ a.redo = <<>>
    BY <1>2, <1>3 DEF Documents, Apply
  <1>8. seen \in SUBSET Texts /\ d.theirs \in seen
    BY <1>1, <1>6 DEF Documents
  <1> HIDE DEF a, seen
  <1>9. e \in Documents
    BY <1>1, <1>6, <1>8 DEF Documents, Statuses
  <1>10. /\ e.id = d.id /\ e.text = d.theirs /\ e.revision = d.revision + 1
         /\ e.readOnly = d.readOnly /\ e.undo = r.undo /\ e.redo = <<>>
    BY <1>6, <1>7 DEF Documents
  <1>11. /\ e.saved = d.theirs /\ e.disk = d.theirs /\ e.status = "Clean" /\ e.seen = seen
    BY <1>6 DEF Documents
  <1> HIDE DEF e
  <1>12. Baseline(e) /\ Follows(d, e)
    BY <1>1, <1>10, <1>11 DEF Baseline, Follows
  <1>13. /\ Len(e.undo) + Len(e.redo) <= MaxHistory
         /\ e.revision + Len(e.redo) <= MaxRevision + MaxHistory
    <2>1. Len(e.redo) = 0 /\ Len(e.undo) + Len(e.redo) <= MaxHistory
      BY <1>2, <1>4, <1>10
    <2> QED
      BY <1>1, <1>10, <2>1, BoundAssumption
  <1>14. Good(e)
    BY <1>1, <1>8, <1>9, <1>10, <1>11, <1>12, <1>13 DEF Good
  <1>15. Good(Pinned(e)) /\ Follows(e, Pinned(e))
    BY <1>14, PinnedKeeps
  <1>16. Follows(d, Pinned(e))
    <2>1. Pinned(e).revision \in Nat /\ e.revision \in Nat
      BY <1>9, <1>15 DEF Good, Documents
    <2> QED
      BY <1>1, <1>10, <1>15, <2>1 DEF Follows
  <1> QED
    BY <1>5, <1>15, <1>16

\* A recovered text is an edit that was not saved.
LEMMA RecoveryKeeps ==
    ASSUME NEW d, Good(d), NEW text \in Texts,
           RestoreRecovery(d, text).revision <= MaxRevision + MaxHistory
    PROVE  Good(RestoreRecovery(d, text)) /\ Follows(d, RestoreRecovery(d, text))
  <1> DEFINE shown == IF d.text = text THEN d
                      ELSE [Apply(d, text) EXCEPT !.undo = <<>>, !.redo = <<>>]
             status == IF shown.status = "Clean" THEN "Dirty" ELSE shown.status
             r == [shown EXCEPT !.recovered = TRUE, !.status = status]
  <1>1. d \in Documents /\ d.revision \in Nat
    BY DEF Good, Documents
  <1>2. /\ shown \in Documents
        /\ shown.id = d.id /\ shown.saved = d.saved /\ shown.disk = d.disk
        /\ shown.status = d.status /\ shown.theirs = d.theirs /\ shown.readOnly = d.readOnly
        /\ shown.seen = d.seen /\ shown.standIn = d.standIn
        /\ Len(shown.undo) + Len(shown.redo) <= MaxHistory
        /\ shown.revision + Len(shown.redo) <= MaxRevision + MaxHistory \/ shown.redo = <<>>
        /\ Follows(d, shown)
    <2>1. CASE d.text = text
      <3>1. shown = d
        BY <2>1
      <3> HIDE DEF shown
      <3>2. Follows(d, d)
        BY <1>1 DEF Follows
      <3> QED
        BY <1>1, <3>1, <3>2 DEF Good
    <2>2. CASE d.text # text
      <3> DEFINE a == Apply(d, text)
                 s == [a EXCEPT !.undo = <<>>, !.redo = <<>>]
      <3>1. a \in Documents
        <4> DEFINE next == d.revision + 1
        <4>1. a = [[d EXCEPT !.text = text] EXCEPT !.revision = next] /\ next \in Nat
          BY <1>1 DEF Apply
        <4> HIDE DEF next, a
        <4> QED
          BY <1>1, <4>1 DEF Documents
      <3>2. /\ a.id = d.id /\ a.saved = d.saved /\ a.disk = d.disk /\ a.status = d.status
            /\ a.theirs = d.theirs /\ a.readOnly = d.readOnly /\ a.seen = d.seen
            /\ a.standIn = d.standIn /\ a.revision = d.revision + 1
        BY <1>1 DEF Documents, Apply
      <3>3. <<>> \in Seq(Texts) /\ Len(<<>>) = 0
        OBVIOUS
      <3> HIDE DEF a
      <3>4. s \in Documents
        BY <3>1, <3>3 DEF Documents
      <3>5. /\ s.id = d.id /\ s.saved = d.saved /\ s.disk = d.disk /\ s.status = d.status
            /\ s.theirs = d.theirs /\ s.readOnly = d.readOnly /\ s.seen = d.seen
            /\ s.standIn = d.standIn /\ s.revision = d.revision + 1
            /\ s.undo = <<>> /\ s.redo = <<>>
        BY <3>1, <3>2 DEF Documents
      <3>6. shown = s
        BY <2>2 DEF a
      <3> HIDE DEF s, shown
      <3>7. Follows(d, s)
        BY <1>1, <3>5 DEF Follows
      <3>8. Len(s.undo) + Len(s.redo) <= MaxHistory
        BY <3>3, <3>5, BoundAssumption
      <3> QED
        BY <3>4, <3>5, <3>6, <3>7, <3>8
    <2> QED
      BY <2>1, <2>2
  <1>3. RestoreRecovery(d, text) = Pinned(r)
    BY DEF RestoreRecovery
  <1> HIDE DEF shown
  <1>4. status \in Statuses /\ status # "Clean" /\ (status = "Conflict" => d.status = "Conflict")
    BY <1>2 DEF Documents, Statuses
  <1> HIDE DEF status
  <1>5. r \in Documents
    BY <1>2, <1>4 DEF Documents
  <1>6. /\ r.id = d.id /\ r.saved = d.saved /\ r.disk = d.disk /\ r.status = status
        /\ r.theirs = d.theirs /\ r.readOnly = d.readOnly /\ r.seen = d.seen
        /\ r.standIn = d.standIn /\ r.revision = shown.revision /\ r.undo = shown.undo
        /\ r.redo = shown.redo /\ r.text = shown.text
    BY <1>2 DEF Documents
  <1> HIDE DEF r
  <1>7. Pinned(r).revision = r.revision
    BY <1>5 DEF Documents, Pinned
  <1>8. r.revision + Len(r.redo) <= MaxRevision + MaxHistory
    <2>1. Len(<<>>) = 0 /\ r.revision \in Nat
      BY <1>5 DEF Documents
    <2>2. r.revision <= MaxRevision + MaxHistory
      BY <1>3, <1>7
    <2>3. CASE r.redo = <<>>
      BY <2>1, <2>2, <2>3, BoundAssumption
    <2>4. CASE r.redo # <<>>
      BY <1>2, <1>6, <2>4
    <2> QED
      BY <2>3, <2>4
  <1>9. (Baseline(d) => Baseline(r)) /\ Follows(d, r)
    BY <1>2, <1>6 DEF Baseline, Follows
  <1>10. Good(r)
    BY <1>2, <1>4, <1>5, <1>6, <1>8, <1>9 DEF Good
  <1>11. Good(Pinned(r)) /\ Follows(r, Pinned(r))
    BY <1>10, PinnedKeeps
  <1>12. Follows(d, Pinned(r))
    <2>1. d.revision \in Nat /\ r.revision \in Nat /\ Pinned(r).revision = r.revision
          /\ Pinned(r).text = r.text /\ Pinned(r).readOnly = r.readOnly /\ Pinned(r).id = r.id
      BY <1>1, <1>5 DEF Documents, Pinned
    <2> QED
      BY <1>9, <2>1 DEF Follows
  <1> QED
    BY <1>3, <1>11, <1>12

\* A document that was not touched yet is good when it has its baseline.
LEMMA FreshIsGood ==
    ASSUME NEW d \in Documents, d.text = d.saved, d.revision = 0, d.undo = <<>>, d.redo = <<>>,
           d.status = "Clean", d.seen = {d.disk}, Baseline(d),
           d.saved \in onDisk \cup {Empty} \/ d.readOnly
    PROVE  Good(d)
  <1>1. Len(<<>>) = 0
    OBVIOUS
  <1>2. /\ Len(d.undo) + Len(d.redo) <= MaxHistory
        /\ d.revision + Len(d.redo) <= MaxRevision + MaxHistory
    BY <1>1, BoundAssumption
  <1> QED
    BY <1>2 DEF Good

\* A document that is opened shows what was read, or the beginning of it.
LEMMA NewFacts ==
    ASSUME NEW id \in Nat, NEW text \in Texts, NEW disk \in Texts, NEW readOnly \in BOOLEAN,
           NEW preview \in BOOLEAN
    PROVE  LET n == NewDocument(id, text, disk, readOnly, preview)
           IN /\ n \in Documents /\ n.id = id /\ n.text = text /\ n.revision = 0
              /\ n.saved = text /\ n.disk = disk /\ n.status = "Clean"
              /\ n.readOnly = readOnly /\ n.undo = <<>> /\ n.redo = <<>> /\ n.seen = {disk}
  <1>1. <<>> \in Seq(Texts) /\ 0 \in Nat
    OBVIOUS
  <1> QED
    BY <1>1 DEF NewDocument, Statuses, Documents

\* A preview that is opened in full starts again with what was read; nothing else changes.
LEMMA ReopenKeeps ==
    ASSUME NEW d, Good(d), NEW text \in Texts, NEW disk \in Texts, NEW readOnly \in BOOLEAN,
           NEW preview \in BOOLEAN, NEW standIn \in BOOLEAN,
           ~readOnly => text \in onDisk \cup {Empty} /\ (text = disk \/ standIn),
           (d.readOnly /\ ~readOnly) \/ standIn = d.standIn
    PROVE  LET e == [Reopen(d, text, disk, readOnly, preview) EXCEPT !.standIn = standIn]
           IN Good(e) /\ Follows(d, e)
  <1> DEFINE full == IF d.readOnly /\ ~readOnly
                     THEN [d EXCEPT !.text = text, !.revision = 0, !.undo = <<>>, !.redo = <<>>,
                                    !.saved = text, !.disk = disk, !.status = "Clean",
                                    !.readOnly = FALSE, !.seen = @ \cup {disk},
                                    !.standIn = FALSE]
                     ELSE d
             kept == full.preview /\ preview
             p == [full EXCEPT !.preview = kept]
             e == [p EXCEPT !.standIn = standIn]
  <1>1. d \in Documents /\ d.revision \in Nat
    BY DEF Good, Documents
  <1>2. Reopen(d, text, disk, readOnly, preview) = p
    BY DEF Reopen
  <1>3. CASE d.readOnly /\ ~readOnly
    <2>1. <<>> \in Seq(Texts) /\ Len(<<>>) = 0 /\ 0 \in Nat
      OBVIOUS
    <2> DEFINE seen == d.seen \cup {disk}
    <2>2. full = [d EXCEPT !.text = text, !.revision = 0, !.undo = <<>>, !.redo = <<>>,
                           !.saved = text, !.disk = disk, !.status = "Clean",
                           !.readOnly = FALSE, !.seen = seen, !.standIn = FALSE]
      BY <1>3
    <2>3. seen \in SUBSET Texts /\ disk \in seen
      BY <1>1 DEF Documents
    <2> HIDE DEF full, seen
    <2>4. full \in Documents
      BY <1>1, <2>1, <2>2, <2>3 DEF Documents, Statuses
    <2>5. /\ full.id = d.id /\ full.text = text /\ full.revision = 0 /\ full.undo = <<>>
          /\ full.redo = <<>> /\ full.saved = text /\ full.disk = disk
          /\ full.status = "Clean" /\ full.readOnly = FALSE /\ full.seen = seen
      BY <1>1, <2>2 DEF Documents
    <2>6. kept \in BOOLEAN
      BY <2>4 DEF Documents
    <2> HIDE DEF kept
    <2>7. p \in Documents
      BY <2>4, <2>6 DEF Documents
    <2>8. /\ p.id = d.id /\ p.text = text /\ p.revision = 0 /\ p.undo = <<>>
          /\ p.redo = <<>> /\ p.saved = text /\ p.disk = disk
          /\ p.status = "Clean" /\ p.readOnly = FALSE /\ p.seen = seen
      BY <2>4, <2>5 DEF Documents
    <2> HIDE DEF p
    <2>9. e \in Documents
      BY <2>7 DEF Documents
    <2>10. /\ e.id = d.id /\ e.text = text /\ e.revision = 0 /\ e.undo = <<>>
           /\ e.redo = <<>> /\ e.saved = text /\ e.disk = disk /\ e.standIn = standIn
           /\ e.status = "Clean" /\ e.readOnly = FALSE /\ e.seen = seen
      BY <2>7, <2>8 DEF Documents
    <2> HIDE DEF e
    <2>11. Baseline(e) /\ Follows(d, e)
      BY <1>3, <2>10 DEF Baseline, Follows
    <2>12. /\ Len(e.undo) + Len(e.redo) <= MaxHistory
           /\ e.revision + Len(e.redo) <= MaxRevision + MaxHistory
      BY <2>1, <2>10, BoundAssumption
    <2>13. Good(e)
      BY <1>3, <2>3, <2>9, <2>10, <2>11, <2>12 DEF Good
    <2> QED
      BY <1>2, <2>11, <2>13 DEF e
  <1>4. CASE ~(d.readOnly /\ ~readOnly)
    <2>1. full = d /\ standIn = d.standIn
      BY <1>4
    <2>2. kept \in BOOLEAN
      BY <1>1, <2>1 DEF Documents
    <2> HIDE DEF full, kept
    <2>3. p \in Documents /\ SameText(d, p) /\ p.undo = d.undo /\ p.redo = d.redo
      BY <1>1, <2>1, <2>2 DEF Documents, SameText
    <2> HIDE DEF p
    <2>4. e \in Documents /\ SameText(p, e) /\ e.undo = p.undo /\ e.redo = p.redo
      BY <2>1, <2>3 DEF Documents, SameText
    <2> HIDE DEF e
    <2>5. SameText(d, e) /\ e.undo = d.undo /\ e.redo = d.redo
      BY <2>3, <2>4 DEF SameText
    <2>6. /\ Len(e.undo) + Len(e.redo) <= MaxHistory
          /\ e.revision + Len(e.redo) <= MaxRevision + MaxHistory
      BY <2>5 DEF Good, SameText
    <2>7. Good(e)
      BY <2>4, <2>5, <2>6, HistoryKeeps
    <2>8. Follows(d, e)
      BY <1>1, <2>5 DEF Follows, SameText
    <2> QED
      BY <1>2, <2>7, <2>8 DEF e
  <1> QED
    BY <1>3, <1>4

-----------------------------------------------------------------------------
(* The steps.                                                               *)

\* What was sound stays sound while the file is what it was and its past grows.
LEMMA JobLasts ==
    ASSUME NEW job, JobIsSound(job), file' = file, onDisk \subseteq onDisk',
           readOnlySaved => readOnlySaved', opened \in Nat, opened' \in Nat, opened <= opened'
    PROVE  JobIsSound(job)'
  <1>1. ASSUME job.kind = "save"
        PROVE  SaveIsSound(job)'
    <2>1. job.id \in Nat
      BY <1>1 DEF JobIsSound, Jobs, OpenJobs, SaveJobs, ObserveJobs, DueTimers, KeepJobs,
                  LoadJobs, DeleteJobs
    <2>2. SaveIsSound(job)
      BY <1>1 DEF JobIsSound
    <2> QED
      BY <2>1, <2>2 DEF SaveIsSound
  <1> QED
    BY <1>1 DEF JobIsSound, WasRead

\* A step of the application: the file is what it was, and the document follows the one
\* before, is gone or is a new one.
LEMMA AppStep ==
    ASSUME EditorInv, UNCHANGED <<file, onDisk, readOnlySaved>>, WorldInv',
           \/ doc' = None /\ opened' = opened
           \/ doc' = doc /\ opened' = opened
           \/ doc # None /\ Good(doc') /\ Follows(doc, doc') /\ opened' = opened
           \/ Good(doc') /\ doc'.id = opened + 1 /\ opened' = opened + 1,
           \A job \in jobs' : job \in jobs \/
             (JobIsSound(job) /\ (job.kind = "save" => doc' = doc /\ Matches(doc, job)))
    PROVE  EditorInv'
  <1>1. opened \in Nat /\ opened' \in Nat /\ opened <= opened'
    BY DEF EditorInv, WorldInv
  <1>2. ASSUME NEW job \in jobs'
        PROVE  JobIsSound(job)'
    <2>1. JobIsSound(job)
      BY DEF EditorInv, JobsInv
    <2> QED
      BY <1>1, <2>1, JobLasts
  <1>3. ASSUME NEW d, Good(d)
        PROVE  Good(d)'
    BY <1>3 DEF Good, Baseline
  <1>4. DocumentInv'
    <2> SUFFICES ASSUME doc' # None
                 PROVE  Good(doc)' /\ doc'.id \in 1..opened'
      BY DEF DocumentInv
    <2>1. CASE doc' = doc /\ opened' = opened
      BY <1>3, <2>1 DEF EditorInv, DocumentInv
    <2>2. CASE doc # None /\ Good(doc') /\ Follows(doc, doc') /\ opened' = opened
      BY <1>3, <2>2 DEF EditorInv, DocumentInv, Follows
    <2>3. CASE Good(doc') /\ doc'.id = opened + 1 /\ opened' = opened + 1
      BY <1>1, <1>3, <2>3
    <2> QED
      BY <2>1, <2>2, <2>3
  <1>5. ASSUME doc' # None, NEW job \in jobs'
        PROVE  Matches(doc', job)
    <2>1. CASE doc' = doc
      BY <1>5, <2>1 DEF EditorInv, MatchInv, Matches
    <2>2. CASE doc' # doc /\ doc # None /\ Good(doc') /\ Follows(doc, doc')
      <3> SUFFICES ASSUME job.kind = "save", job.id = doc'.id, ~job.readOnly
                   PROVE  /\ ~doc'.readOnly
                          /\ job.revision <= doc'.revision
                          /\ job.revision = doc'.revision => job.text = doc'.text
        BY DEF Matches
      <3>1. job \in jobs /\ Matches(doc, job) /\ JobIsSound(job)
        BY <2>2 DEF EditorInv, MatchInv, JobsInv
      <3>2. job.revision \in Nat
        BY <3>1 DEF JobIsSound, Jobs, OpenJobs, SaveJobs, ObserveJobs, DueTimers, KeepJobs,
                    LoadJobs, DeleteJobs
      <3>3. doc.revision \in Nat /\ doc'.revision \in Nat
        BY <2>2 DEF EditorInv, DocumentInv, Good, Documents
      <3>4. doc'.id = doc.id
        BY <2>2 DEF Follows
      <3>5. ~doc.readOnly /\ job.revision <= doc.revision
            /\ (job.revision = doc.revision => job.text = doc.text)
        BY <3>1, <3>4 DEF Matches
      <3>6. ~doc'.readOnly /\ doc.revision <= doc'.revision
            /\ (doc.revision = doc'.revision => doc.text = doc'.text)
        BY <2>2, <3>5 DEF Follows
      <3> QED
        BY <3>2, <3>3, <3>5, <3>6
    <2>3. CASE doc' # doc /\ doc'.id = opened + 1
      <3>1. ASSUME job.kind = "save"
            PROVE  job.id <= opened /\ job.id \in Nat
        <4>1. JobIsSound(job)
          BY <2>3 DEF EditorInv, JobsInv
        <4> QED
          BY <3>1, <4>1 DEF JobIsSound, SaveIsSound, Jobs, OpenJobs, SaveJobs, ObserveJobs,
                            DueTimers, KeepJobs, LoadJobs, DeleteJobs
      <3> QED
        BY <1>1, <2>3, <3>1 DEF Matches
    <2> QED
      BY <1>5, <2>1, <2>2, <2>3
  <1>6. MatchInv'
    BY <1>5 DEF MatchInv, Matches
  <1>7. JobsInv'
    BY <1>2 DEF JobsInv
  <1> QED
    BY <1>4, <1>6, <1>7 DEF EditorInv

\* A step of the tasks or of another program: the application is as it was, and a save is of
\* the same document, revision and text as it was.
LEMMA WorkStep ==
    ASSUME EditorInv, UNCHANGED app, WorldInv', onDisk \subseteq onDisk',
           readOnlySaved => readOnlySaved',
           \A job \in jobs' :
             /\ JobIsSound(job)'
             /\ job.kind = "save" =>
                  \E old \in jobs : /\ old.kind = "save" /\ job.id = old.id
                                    /\ job.revision = old.revision /\ job.text = old.text
                                    /\ job.readOnly = old.readOnly
    PROVE  EditorInv'
  <1>1. readOnlySaved \in BOOLEAN /\ readOnlySaved' \in BOOLEAN
    BY DEF EditorInv, WorldInv
  <1>2. DocumentInv'
    BY <1>1 DEF EditorInv, DocumentInv, Good, Baseline, app
  <1>3. MatchInv'
    <2> SUFFICES ASSUME doc' # None, NEW job \in jobs'
                 PROVE  Matches(doc', job)
      BY DEF MatchInv, Matches
    <2>1. doc' = doc
      BY DEF app
    <2>2. CASE job.kind # "save"
      BY <2>2 DEF Matches
    <2>3. CASE job.kind = "save"
      <3>1. PICK old \in jobs : /\ old.kind = "save" /\ job.id = old.id
                                /\ job.revision = old.revision /\ job.text = old.text
                                /\ job.readOnly = old.readOnly
        BY <2>3
      <3>2. Matches(doc, old)
        BY <2>1 DEF EditorInv, MatchInv
      <3> QED
        BY <2>1, <3>1, <3>2 DEF Matches
    <2> QED
      BY <2>2, <2>3
  <1>4. JobsInv'
    BY DEF JobsInv
  <1> QED
    BY <1>2, <1>3, <1>4 DEF EditorInv

\* A task is one of its kind.
LEMMA KindOf ==
    ASSUME NEW job \in Jobs
    PROVE  /\ job.kind = "open" => job \in OpenJobs
           /\ job.kind = "save" => job \in SaveJobs
           /\ job.kind = "observe" => job \in ObserveJobs
           /\ job.kind = "due" => job \in DueTimers
           /\ job.kind = "keep" => job \in KeepJobs
           /\ job.kind = "load" => job \in LoadJobs
           /\ job.kind = "delete" => job \in DeleteJobs
  BY DEF Jobs, OpenJobs, SaveJobs, ObserveJobs, DueTimers, KeepJobs, LoadJobs, DeleteJobs

\* What a task reads is what the file has, or the beginning of it.
LEMMA ReadFacts ==
    ASSUME WorldInv, file # Missing, NEW full
    PROVE  Read(full) \in Reads /\ WasRead(Read(full))
  <1>1. file \in Texts /\ file \in onDisk /\ Cut \in Texts
    BY TextAssumption DEF WorldInv
  <1>2. CASE file \in Large /\ ~full
    <2>1. Read(full) = [text |-> Cut, disk |-> file, readOnly |-> TRUE]
      BY <1>2 DEF Read
    <2> QED
      BY <1>1, <1>2, <2>1 DEF Reads, WasRead
  <1>3. CASE ~(file \in Large /\ ~full)
    <2>1. Read(full) = [text |-> file, disk |-> file, readOnly |-> FALSE]
      BY <1>3 DEF Read
    <2> QED
      BY <1>1, <2>1 DEF Reads, WasRead
  <1> QED
    BY <1>2, <1>3

\* The answer of a task takes its place, while the file and the application stay.
LEMMA AnswerStep ==
    ASSUME EditorInv, UNCHANGED <<app, file, onDisk, readOnlySaved>>, WorldInv',
           NEW job \in jobs, NEW new, jobs' = Replaced(job, new), JobIsSound(new),
           new.kind = "save" =>
             /\ job.kind = "save" /\ new.id = job.id /\ new.revision = job.revision
             /\ new.text = job.text /\ new.readOnly = job.readOnly
    PROVE  EditorInv'
  <1>1. opened \in Nat /\ opened' = opened
    BY DEF EditorInv, WorldInv, app
  <1>2. ASSUME NEW j \in jobs'
        PROVE  /\ JobIsSound(j)'
               /\ j.kind = "save" =>
                    \E old \in jobs : /\ old.kind = "save" /\ j.id = old.id
                                      /\ j.revision = old.revision /\ j.text = old.text
                                      /\ j.readOnly = old.readOnly
    <2>1. j \in jobs \/ j = new
      BY DEF Replaced
    <2>2. JobIsSound(j)
      BY <2>1 DEF EditorInv, JobsInv
    <2>3. JobIsSound(j)'
      BY <1>1, <2>2, JobLasts
    <2> QED
      BY <2>1, <2>3
  <1> QED
    BY <1>2, WorkStep

\* Nothing but tasks changes.
LEMMA WorldStays ==
    ASSUME WorldInv, UNCHANGED <<app, file, store, onDisk, readOnlySaved>>
    PROVE  WorldInv'
  BY DEF WorldInv, app

\* A task that opens or observes the file.
LEMMA RunReadKeeps ==
    ASSUME EditorInv, NEW job \in jobs, RunOpen(job) \/ RunObserve(job)
    PROVE  EditorInv'
  <1>1. WorldInv /\ JobIsSound(job) /\ job \in Jobs
    BY DEF EditorInv, JobsInv, JobIsSound
  <1>2. WorldInv'
    BY <1>1, WorldStays DEF RunOpen, RunObserve
  <1>3. PICK full :
          /\ UNCHANGED <<app, file, onDisk, readOnlySaved>>
          /\ job.kind \in {"open", "observe"}
          /\ jobs' = Replaced(job, [job EXCEPT !.result = IF file = Missing THEN Missing
                                                          ELSE Read(full)])
    BY DEF RunOpen, RunObserve
  <1> DEFINE result == IF file = Missing THEN Missing ELSE Read(full)
             new == [job EXCEPT !.result = result]
  <1>4. result \in {None, Missing} \cup Reads /\ (result \notin {None, Missing} => WasRead(result))
    BY <1>1, ReadFacts
  <1> HIDE DEF result
  <1>5. new \in Jobs /\ new.kind = job.kind /\ new.result = result
    <2>1. CASE job.kind = "open"
      <3>1. job \in OpenJobs
        BY <1>1, <2>1, KindOf
      <3> QED
        BY <1>4, <3>1 DEF OpenJobs, Jobs
    <2>2. CASE job.kind = "observe"
      <3>1. job \in ObserveJobs
        BY <1>1, <2>2, KindOf
      <3> QED
        BY <1>4, <3>1 DEF ObserveJobs, Jobs
    <2> QED
      BY <1>3, <2>1, <2>2
  <1>6. jobs' = Replaced(job, new)
    BY <1>3 DEF result
  <1> HIDE DEF new
  <1>7. JobIsSound(new) /\ new.kind # "save"
    BY <1>3, <1>4, <1>5 DEF JobIsSound
  <1> QED
    BY <1>2, <1>3, <1>6, <1>7, AnswerStep

\* The steps of a save that leave the file alone: a save that goes on to replace the file has
\* seen what it has, and one that says it saved has published its text.
LEMMA SaveStagesKeep ==
    ASSUME EditorInv, NEW job \in jobs, Check(job) \/ Recheck(job) \/ Verify(job)
    PROVE  EditorInv'
  <1>1. WorldInv /\ JobIsSound(job) /\ job \in Jobs /\ job.kind = "save"
    BY DEF EditorInv, JobsInv, JobIsSound, Check, Recheck, Verify
  <1>2. job \in SaveJobs /\ SaveIsSound(job)
    BY <1>1, KindOf DEF JobIsSound
  <1>3. WorldInv' /\ UNCHANGED <<app, file, onDisk, readOnlySaved>>
    BY <1>1, WorldStays DEF Check, Recheck, Verify
  <1>4. ASSUME NEW new, jobs' = Replaced(job, new), new \in SaveJobs, SaveIsSound(new),
               /\ new.id = job.id /\ new.revision = job.revision /\ new.text = job.text
               /\ new.readOnly = job.readOnly
        PROVE  EditorInv'
    <2>1. new \in Jobs /\ new.kind = "save"
      BY <1>4 DEF Jobs, SaveJobs
    <2>2. JobIsSound(new)
      BY <1>4, <2>1 DEF JobIsSound
    <2> QED
      BY <1>1, <1>3, <1>4, <2>2, AnswerStep
  <1> DEFINE stopped(result) == [job EXCEPT !.stage = "done", !.result = result]
             passed == [job EXCEPT !.stage = "recheck"]
             ready == [job EXCEPT !.stage = "replace", !.raced = FALSE]
  <1>5. ASSUME NEW result \in {"failed", "saved"}, jobs' = Replaced(job, stopped(result)),
               result = "saved" => job.stage = "verify"
        PROVE  EditorInv'
    <2> DEFINE new == stopped(result)
    <2>1. new \in SaveJobs
      BY <1>2, <1>5 DEF SaveJobs
    <2>2. /\ new.id = job.id /\ new.revision = job.revision /\ new.text = job.text
          /\ new.readOnly = job.readOnly /\ new.disk = job.disk /\ new.seen = job.seen
          /\ new.force = job.force /\ new.raced = job.raced
          /\ new.stage = "done" /\ new.result = result
      BY <1>2 DEF SaveJobs
    <2>3. jobs' = Replaced(job, new)
      BY <1>5
    <2> HIDE DEF new
    <2>4. SaveIsSound(new)
      BY <1>2, <1>5, <2>2 DEF SaveIsSound
    <2> QED
      BY <1>4, <2>1, <2>2, <2>3, <2>4
  <1>6. CASE Check(job)
    <2>1. CASE Agrees(job)
      <3>1. jobs' = Replaced(job, passed)
        BY <1>6, <2>1 DEF Check
      <3>2. passed \in SaveJobs
        BY <1>2 DEF SaveJobs
      <3>3. /\ passed.id = job.id /\ passed.revision = job.revision /\ passed.text = job.text
            /\ passed.readOnly = job.readOnly /\ passed.disk = job.disk
            /\ passed.seen = job.seen /\ passed.stage = "recheck"
            /\ passed.result = job.result
        BY <1>2 DEF SaveJobs
      <3> HIDE DEF passed
      <3>4. SaveIsSound(passed)
        BY <1>2, <3>3 DEF SaveIsSound
      <3> QED
        BY <1>4, <3>1, <3>2, <3>3, <3>4
    <2>2. CASE ~Agrees(job)
      <3>1. jobs' = Replaced(job, stopped("failed"))
        BY <1>6, <2>2 DEF Check
      <3> QED
        BY <1>5, <3>1
    <2> QED
      BY <2>1, <2>2
  <1>7. CASE Recheck(job)
    <2>1. CASE job.force \/ Agrees(job)
      <3>1. jobs' = Replaced(job, ready)
        BY <1>7, <2>1 DEF Recheck
      <3>2. ready \in SaveJobs
        BY <1>2 DEF SaveJobs
      <3>3. /\ ready.id = job.id /\ ready.revision = job.revision /\ ready.text = job.text
            /\ ready.readOnly = job.readOnly /\ ready.disk = job.disk
            /\ ready.seen = job.seen /\ ready.stage = "replace"
            /\ ready.result = job.result /\ ready.force = job.force
        BY <1>2 DEF SaveJobs
      <3>4. ~job.force => file \in job.seen
        BY <1>2, <2>1 DEF Agrees, SaveIsSound
      <3> HIDE DEF ready
      <3>5. SaveIsSound(ready)
        BY <1>2, <3>3, <3>4 DEF SaveIsSound
      <3> QED
        BY <1>4, <3>1, <3>2, <3>3, <3>5
    <2>2. CASE ~(job.force \/ Agrees(job))
      <3>1. jobs' = Replaced(job, stopped("failed"))
        BY <1>7, <2>2 DEF Recheck
      <3> QED
        BY <1>5, <3>1
    <2> QED
      BY <2>1, <2>2
  <1>8. CASE Verify(job)
    <2> DEFINE result == IF file = job.text THEN "saved" ELSE "failed"
    <2>1. jobs' = Replaced(job, stopped(result)) /\ job.stage = "verify"
      BY <1>8 DEF Verify
    <2>2. result \in {"failed", "saved"}
      OBVIOUS
    <2> HIDE DEF result
    <2> QED
      BY <1>5, <2>1, <2>2
  <1> QED
    BY <1>6, <1>7, <1>8

\* A save that has not replaced the file knows that another one came between.
LEMMA RacingKeeps ==
    ASSUME EditorInv, NEW others \in SUBSET jobs, NEW j \in Racing(others),
           onDisk \subseteq onDisk', readOnlySaved => readOnlySaved', opened' = opened
    PROVE  /\ JobIsSound(j)'
           /\ j.kind = "save" =>
                \E old \in jobs : /\ old.kind = "save" /\ j.id = old.id
                                  /\ j.revision = old.revision /\ j.text = old.text
                                  /\ j.readOnly = old.readOnly
  <1>1. PICK old \in others : j = IF old.kind = "save" THEN [old EXCEPT !.raced = TRUE] ELSE old
    BY DEF Racing
  <1>2. old \in jobs /\ JobIsSound(old) /\ old \in Jobs
    BY DEF EditorInv, JobsInv, JobIsSound
  <1>3. CASE old.kind # "save"
    <2>1. j = old
      BY <1>1, <1>3
    <2> QED
      BY <1>2, <1>3, <2>1 DEF JobIsSound, WasRead
  <1>4. CASE old.kind = "save"
    <2>1. old \in SaveJobs /\ SaveIsSound(old) /\ j = [old EXCEPT !.raced = TRUE]
      BY <1>1, <1>2, <1>4, KindOf DEF JobIsSound
    <2>2. /\ j \in SaveJobs /\ j.kind = "save" /\ j.id = old.id /\ j.revision = old.revision
          /\ j.text = old.text /\ j.readOnly = old.readOnly /\ j.disk = old.disk
          /\ j.seen = old.seen /\ j.stage = old.stage /\ j.result = old.result /\ j.raced = TRUE
      BY <2>1 DEF SaveJobs
    <2>3. SaveIsSound(j)'
      BY <2>1, <2>2 DEF SaveIsSound
    <2>4. JobIsSound(j)'
      BY <2>2, <2>3 DEF JobIsSound, Jobs
    <2> QED
      BY <1>2, <1>4, <2>2, <2>4
  <1> QED
    BY <1>3, <1>4

\* The file is replaced, which the saves beside it are to notice.
LEMMA ReplaceKeeps ==
    ASSUME EditorInv, NEW job \in jobs, Replace(job)
    PROVE  EditorInv'
  <1>1. WorldInv /\ JobIsSound(job) /\ job \in Jobs /\ job.kind = "save"
    BY DEF EditorInv, JobsInv, JobIsSound, Replace
  <1>2. job \in SaveJobs /\ SaveIsSound(job) /\ job.text \in Texts /\ job.readOnly \in BOOLEAN
    BY <1>1, KindOf DEF JobIsSound, SaveJobs
  <1> DEFINE new == [job EXCEPT !.stage = "verify"]
  <1>3. /\ UNCHANGED app /\ onDisk \subseteq onDisk' /\ (readOnlySaved => readOnlySaved')
        /\ opened' = opened /\ file' = job.text /\ job.text \in onDisk'
        /\ (job.readOnly => readOnlySaved')
        /\ jobs' = Racing(jobs \ {job}) \cup {new}
    BY DEF Replace, app
  <1>4. WorldInv'
    BY <1>1, <1>2 DEF Replace, WorldInv, app
  <1>5. /\ new \in SaveJobs /\ new.kind = "save" /\ new.id = job.id
        /\ new.revision = job.revision /\ new.text = job.text /\ new.readOnly = job.readOnly
        /\ new.disk = job.disk /\ new.seen = job.seen /\ new.stage = "verify"
    BY <1>2 DEF SaveJobs
  <1> HIDE DEF new
  <1>6. JobIsSound(new)'
    <2>1. SaveIsSound(new)'
      BY <1>2, <1>3, <1>5 DEF SaveIsSound
    <2> QED
      BY <1>5, <2>1 DEF JobIsSound, Jobs
  <1>7. ASSUME NEW j \in jobs'
        PROVE  /\ JobIsSound(j)'
               /\ j.kind = "save" =>
                    \E old \in jobs : /\ old.kind = "save" /\ j.id = old.id
                                      /\ j.revision = old.revision /\ j.text = old.text
                                      /\ j.readOnly = old.readOnly
    <2>1. CASE j = new
      BY <1>1, <1>5, <1>6, <2>1
    <2>2. CASE j \in Racing(jobs \ {job})
      <3>1. jobs \ {job} \in SUBSET jobs
        OBVIOUS
      <3> QED
        BY <1>3, <2>2, <3>1, RacingKeeps
    <2> QED
      BY <1>3, <2>1, <2>2
  <1> QED
    BY <1>3, <1>4, <1>7, WorkStep

\* Another program writes the file or removes it, and it may be looked at again.
LEMMA ExternalWriteKeeps ==
    ASSUME EditorInv, NEW contents \in Texts \cup {Missing}, ExternalWrite(contents)
    PROVE  EditorInv'
  <1>1. /\ UNCHANGED app /\ onDisk' = onDisk \cup {contents} /\ readOnlySaved' = readOnlySaved
        /\ opened' = opened /\ file' = contents /\ store' = store
    BY DEF ExternalWrite, app
  <1>2. WorldInv'
    BY <1>1 DEF EditorInv, WorldInv, app
  <1>3. ASSUME NEW j \in jobs'
        PROVE  /\ JobIsSound(j)'
               /\ j.kind = "save" =>
                    \E old \in jobs : /\ old.kind = "save" /\ j.id = old.id
                                      /\ j.revision = old.revision /\ j.text = old.text
                                      /\ j.readOnly = old.readOnly
    <2>1. CASE j \in Racing(jobs)
      BY <1>1, <2>1, RacingKeeps
    <2>2. CASE doc # None /\ j = ObserveJob(doc)
      <3>1. j = [kind |-> "observe", id |-> doc.id, revision |-> doc.revision, result |-> None]
        BY <2>2 DEF ObserveJob
      <3>2. doc.id \in Nat /\ doc.revision \in Nat
        BY <2>2 DEF EditorInv, DocumentInv, Good, Documents
      <3>3. j \in ObserveJobs /\ j.kind = "observe" /\ j.result = None
        BY <3>1, <3>2 DEF ObserveJobs
      <3> QED
        BY <3>3 DEF JobIsSound, Jobs
    <2> QED
      BY <2>1, <2>2 DEF ExternalWrite
  <1> QED
    BY <1>1, <1>2, <1>3, WorkStep

\* A record that is read is one that was made for the baseline.
LEMMA StoreFacts ==
    ASSUME WorldInv, NEW baseline
    PROVE  StoreLoad(baseline) \in Texts \cup {None}
  <1>1. /\ store.current # None => store.current \in Records
        /\ store.backup # None => store.backup \in Records
    BY DEF WorldInv
  <1>2. CASE Readable(store.current, baseline)
    <2>1. StoreLoad(baseline) = store.current.text
      BY <1>2 DEF StoreLoad
    <2> QED
      BY <1>1, <1>2, <2>1 DEF Readable, Records
  <1>3. CASE ~Readable(store.current, baseline) /\ Readable(store.backup, baseline)
    <2>1. StoreLoad(baseline) = store.backup.text
      BY <1>3 DEF StoreLoad
    <2> QED
      BY <1>1, <1>3, <2>1 DEF Readable, Records
  <1>4. CASE ~Readable(store.current, baseline) /\ ~Readable(store.backup, baseline)
    BY <1>4 DEF StoreLoad
  <1> QED
    BY <1>2, <1>3, <1>4

\* The tasks of the recovery record.
LEMMA StoreTasksKeep ==
    ASSUME EditorInv, NEW job \in jobs, RunKeep(job) \/ RunLoad(job) \/ RunDelete(job)
    PROVE  EditorInv'
  <1>1. WorldInv /\ JobIsSound(job) /\ job \in Jobs
    BY DEF EditorInv, JobsInv, JobIsSound
  <1>2. /\ UNCHANGED <<app, file, onDisk, readOnlySaved>>
        /\ opened \in Nat /\ opened' = opened
    BY <1>1 DEF RunKeep, RunLoad, RunDelete, app, WorldInv
  <1>3. ASSUME WorldInv', jobs' \subseteq jobs
        PROVE  EditorInv'
    <2>1. ASSUME NEW j \in jobs'
          PROVE  JobIsSound(j)' /\ j \in jobs
      <3>1. j \in jobs /\ JobIsSound(j)
        BY <1>3 DEF EditorInv, JobsInv
      <3> QED
        BY <1>2, <3>1, JobLasts
    <2> QED
      BY <1>2, <1>3, <2>1, WorkStep
  <1>4. CASE RunKeep(job)
    <2>1. job \in KeepJobs
      BY <1>1, <1>4, KindOf DEF RunKeep
    <2>2. job.record \in Records
      BY <2>1 DEF KeepJobs
    <2>3. /\ store.current \in {None} \cup Records /\ store.backup \in {None} \cup Records
      BY <1>1 DEF WorldInv
    <2>4. store' \in [current : {None} \cup Records, backup : {None} \cup Records]
      BY <1>4, <2>2, <2>3 DEF RunKeep, StoreSave
    <2>5. WorldInv'
      BY <1>1, <1>4, <2>4 DEF RunKeep, WorldInv, app
    <2> QED
      BY <1>3, <1>4, <2>5 DEF RunKeep
  <1>5. CASE RunLoad(job)
    <2>1. job \in LoadJobs
      BY <1>1, <1>5, KindOf DEF RunLoad
    <2>2. WorldInv'
      BY <1>1, <1>5, WorldStays DEF RunLoad
    <2> DEFINE text == StoreLoad(job.baseline)
               new == [job EXCEPT !.result = text]
    <2>3. CASE text = None
      BY <1>3, <1>5, <2>2, <2>3 DEF RunLoad
    <2>4. CASE text # None
      <3>1. jobs' = Replaced(job, new)
        BY <1>5, <2>4 DEF RunLoad
      <3>2. text \in Texts \cup {None}
        BY <1>1, StoreFacts
      <3> HIDE DEF text
      <3>3. new \in LoadJobs /\ new.kind = "load"
        BY <2>1, <3>2 DEF LoadJobs
      <3> HIDE DEF new
      <3>4. JobIsSound(new)
        BY <3>3 DEF JobIsSound, Jobs
      <3> QED
        BY <1>2, <2>2, <3>1, <3>3, <3>4, AnswerStep
    <2> QED
      BY <2>3, <2>4
  <1>6. CASE RunDelete(job)
    <2>1. job \in DeleteJobs
      BY <1>1, <1>6, KindOf DEF RunDelete
    <2> DEFINE new == [job EXCEPT !.result = "deleted"]
    <2>2. new \in DeleteJobs /\ new.kind = "delete"
      BY <2>1 DEF DeleteJobs
    <2>3. jobs' = Replaced(job, new)
      BY <1>6 DEF RunDelete
    <2>4. store' \in [current : {None} \cup Records, backup : {None} \cup Records]
      BY <1>6 DEF RunDelete
    <2>5. WorldInv'
      BY <1>1, <1>6, <2>4 DEF RunDelete, WorldInv, app
    <2> HIDE DEF new
    <2>6. JobIsSound(new)
      BY <2>2 DEF JobIsSound, Jobs
    <2> QED
      BY <1>2, <2>2, <2>3, <2>5, <2>6, AnswerStep
  <1> QED
    BY <1>4, <1>5, <1>6

\* A task that is not a save and has not read the file yet is sound.
LEMMA NewTaskIsSound ==
    ASSUME NEW d \in Documents, NEW preview \in BOOLEAN, NEW full \in BOOLEAN,
           NEW number \in Nat
    PROVE  /\ JobIsSound(OpenJob(preview, full)) /\ OpenJob(preview, full).kind # "save"
           /\ JobIsSound(ObserveJob(d)) /\ ObserveJob(d).kind # "save"
           /\ JobIsSound(DueTimer(d, number)) /\ DueTimer(d, number).kind # "save"
           /\ JobIsSound(KeepJob(d)) /\ KeepJob(d).kind # "save"
           /\ JobIsSound(LoadJob(d)) /\ LoadJob(d).kind # "save"
           /\ JobIsSound(DeleteJob(d)) /\ DeleteJob(d).kind # "save"
  <1>1. d.id \in Nat /\ d.revision \in Nat /\ d.disk \in Texts /\ d.text \in Texts
    BY DEF Documents
  <1>2. JobIsSound(OpenJob(preview, full)) /\ OpenJob(preview, full).kind # "save"
    BY DEF OpenJob, JobIsSound, Jobs, OpenJobs
  <1>3. JobIsSound(ObserveJob(d)) /\ ObserveJob(d).kind # "save"
    BY <1>1 DEF ObserveJob, JobIsSound, Jobs, ObserveJobs
  <1>4. JobIsSound(DueTimer(d, number)) /\ DueTimer(d, number).kind # "save"
    BY <1>1 DEF DueTimer, JobIsSound, Jobs, DueTimers
  <1>5. JobIsSound(KeepJob(d)) /\ KeepJob(d).kind # "save"
    BY <1>1 DEF KeepJob, JobIsSound, Jobs, KeepJobs, Records
  <1>6. JobIsSound(LoadJob(d)) /\ LoadJob(d).kind # "save"
    BY <1>1 DEF LoadJob, JobIsSound, Jobs, LoadJobs
  <1>7. JobIsSound(DeleteJob(d)) /\ DeleteJob(d).kind # "save"
    BY <1>1 DEF DeleteJob, JobIsSound, Jobs, DeleteJobs
  <1> QED
    BY <1>2, <1>3, <1>4, <1>5, <1>6, <1>7

\* A save that is asked for carries the text, the revision and the baseline of its document.
LEMMA SaveJobIsSound ==
    ASSUME EditorInv, doc # None, NEW force \in BOOLEAN
    PROVE  JobIsSound(SaveJob(doc, force)) /\ Matches(doc, SaveJob(doc, force))
  <1>1. /\ doc.id \in Nat /\ doc.revision \in Nat /\ doc.disk \in Texts /\ doc.text \in Texts
        /\ doc.seen \in SUBSET Texts /\ doc.readOnly \in BOOLEAN /\ doc.disk \in doc.seen
        /\ doc.id <= opened
    BY DEF EditorInv, DocumentInv, Good, Documents
  <1> DEFINE new == SaveJob(doc, force)
  <1>2. new \in SaveJobs
    BY <1>1 DEF SaveJob, SaveJobs
  <1>3. /\ new.kind = "save" /\ new.id = doc.id /\ new.revision = doc.revision
        /\ new.text = doc.text /\ new.disk = doc.disk /\ new.stage = "check"
        /\ new.result = None /\ new.seen = doc.seen /\ new.readOnly = doc.readOnly
    BY DEF SaveJob
  <1> HIDE DEF new
  <1>4. SaveIsSound(new)
    BY <1>1, <1>3, NoneAssumption DEF SaveIsSound
  <1>5. JobIsSound(new)
    BY <1>2, <1>3, <1>4 DEF JobIsSound, Jobs
  <1>6. Matches(doc, new)
    BY <1>1, <1>3 DEF Matches
  <1> QED
    BY <1>5, <1>6 DEF new

\* A change of the buffer that may schedule a recovery.
LEMMA ScheduledKeeps ==
    ASSUME EditorInv, doc # None, NEW d, Good(d), Follows(doc, d), doc' = d,
           Scheduled(doc', jobs),
           UNCHANGED <<file, pendingClose, recent, store, opened, tab, writes, onDisk,
                       readOnlySaved>>
    PROVE  EditorInv'
  <1>1. generation + 1 \in Nat /\ d \in Documents
    BY DEF EditorInv, WorldInv, Good
  <1>2. /\ generation' \in {generation, generation + 1}
        /\ \A job \in jobs' : job \in jobs \/ job = DueTimer(d, generation + 1)
    BY DEF Scheduled
  <1>3. WorldInv'
    BY <1>1, <1>2 DEF EditorInv, WorldInv
  <1>4. \A job \in jobs' : job \in jobs \/ (JobIsSound(job) /\ job.kind # "save")
    BY <1>1, <1>2, NewTaskIsSound
  <1> QED
    BY <1>3, <1>4, AppStep

\* Nothing but the document changes, and perhaps its tab or what waits for it.
LEMMA OnlyDocument ==
    ASSUME EditorInv, UNCHANGED <<file, jobs, generation, store, opened, tab, onDisk,
                                  readOnlySaved>>,
           \/ doc' = None
           \/ doc' = doc
           \/ doc # None /\ Good(doc') /\ Follows(doc, doc')
    PROVE  EditorInv'
  <1>1. WorldInv'
    BY DEF EditorInv, WorldInv
  <1> QED
    BY <1>1, AppStep

\* A task that is not a save is started, and nothing else changes but what waits for it.
LEMMA OnlyTask ==
    ASSUME EditorInv, UNCHANGED <<doc, file, generation, store, opened, tab, onDisk,
                                  readOnlySaved>>,
           \A job \in jobs' : job \in jobs \/
             (JobIsSound(job) /\ (job.kind = "save" => Matches(doc, job)))
    PROVE  EditorInv'
  <1>1. WorldInv'
    BY DEF EditorInv, WorldInv
  <1> QED
    BY <1>1, AppStep

\* The messages of the user.
LEMMA MessagesKeep ==
    ASSUME EditorInv, Messages
    PROVE  EditorInv'
  <1>1. doc # None => Good(doc) /\ doc \in Documents
    BY DEF EditorInv, DocumentInv, Good
  <1>2. ASSUME NEW preview \in BOOLEAN, NEW full \in BOOLEAN, OpenDocument(preview, full)
        PROVE  EditorInv'
    <2>1. JobIsSound(OpenJob(preview, full)) /\ OpenJob(preview, full).kind # "save"
      BY DEF OpenJob, JobIsSound, Jobs, OpenJobs
    <2> QED
      BY <1>2, <2>1, OnlyTask DEF OpenDocument, app
  <1>3. CASE OpenOther
    <2>1. Good(Pinned(doc)) /\ Follows(doc, Pinned(doc))
      BY <1>1, <1>3, PinnedKeeps DEF OpenOther
    <2> QED
      BY <1>3, <2>1, OnlyDocument DEF OpenOther
  <1>4. ASSUME NEW text \in Texts, EditorAction(text)
        PROVE  EditorInv'
    <2>1. doc # None /\ doc.revision < MaxRevision /\ Changes(Edit(doc, text))
      BY <1>4 DEF EditorAction
    <2>2. doc' \in Edit(doc, text)
      BY <2>1 DEF Changes
    <2>3. Good(doc') /\ Follows(doc, doc')
      BY <1>1, <2>1, <2>2, EditKeeps
    <2> QED
      BY <2>1, <2>3, ScheduledKeeps DEF Changes
  <1>5. CASE UndoDocument
    <2>1. doc # None /\ doc.undo # <<>> /\ doc.revision < MaxRevision /\ Changes({Undo(doc)})
      BY <1>5 DEF UndoDocument
    <2>2. Good(Undo(doc)) /\ Follows(doc, Undo(doc)) /\ doc' = Undo(doc)
      BY <1>1, <2>1, UndoKeeps DEF Changes
    <2> QED
      BY <2>1, <2>2, ScheduledKeeps DEF Changes
  <1>6. CASE RedoDocument
    <2>1. doc # None /\ doc.redo # <<>> /\ Changes({Redo(doc)})
      BY <1>6 DEF RedoDocument
    <2>2. Good(Redo(doc)) /\ Follows(doc, Redo(doc)) /\ doc' = Redo(doc)
      BY <1>1, <2>1, RedoKeeps DEF Changes
    <2> QED
      BY <2>1, <2>2, ScheduledKeeps DEF Changes
  <1>7. ASSUME NEW force \in BOOLEAN, SaveDocument(force)
        PROVE  EditorInv'
    <2>1. JobIsSound(SaveJob(doc, force)) /\ Matches(doc, SaveJob(doc, force))
      BY <1>7, SaveJobIsSound DEF SaveDocument
    <2> QED
      BY <1>7, <2>1, OnlyTask DEF SaveDocument, app
  <1>8. CASE PinDocument
    <2>1. Good(Pinned(doc)) /\ Follows(doc, Pinned(doc))
      BY <1>1, <1>8, PinnedKeeps DEF PinDocument
    <2> QED
      BY <1>8, <2>1, OnlyDocument DEF PinDocument
  <1>9. CASE CloseDocument
    BY <1>9, OnlyDocument DEF CloseDocument
  <1>10. CASE CloseWithSave
    BY <1>7, <1>10 DEF CloseWithSave
  <1>11. ASSUME NEW decision \in {"Discard", "Cancel"}, CloseWithout(decision)
         PROVE  EditorInv'
    <2>1. JobIsSound(DeleteJob(doc)) /\ DeleteJob(doc).kind # "save"
      BY <1>1, <1>11 DEF CloseWithout, DeleteJob, JobIsSound, Jobs, DeleteJobs, Documents
    <2>2. WorldInv'
      BY <1>11 DEF EditorInv, WorldInv, CloseWithout
    <2> QED
      BY <1>11, <2>1, <2>2, AppStep DEF CloseWithout
  <1>12. CASE ReloadDocumentFromDisk
    <2>1. Good(ReloadFromDisk(doc)) /\ Follows(doc, ReloadFromDisk(doc))
      BY <1>1, <1>12, ReloadKeeps DEF ReloadDocumentFromDisk
    <2> QED
      BY <1>12, <2>1, OnlyDocument DEF ReloadDocumentFromDisk
  <1>13. CASE KeepEditingDocument
    <2>1. Good(KeepEditing(doc)) /\ Follows(doc, KeepEditing(doc))
      BY <1>1, <1>13, MissingKeeps DEF KeepEditingDocument
    <2> QED
      BY <1>13, <2>1, OnlyDocument DEF KeepEditingDocument
  <1>14. ASSUME NEW crash \in BOOLEAN, WorkspaceOpened(crash)
         PROVE  EditorInv'
    <2>1. doc \in Documents
      BY <1>1, <1>14 DEF WorkspaceOpened
    <2>2. doc.preview \in BOOLEAN /\ (~doc.readOnly) \in BOOLEAN /\ doc.disk \in Texts
      BY <2>1 DEF Documents
    <2> DEFINE new == OpenJob(doc.preview, ~doc.readOnly)
    <2>3. JobIsSound(new) /\ new.kind # "save"
      BY <2>2 DEF OpenJob, JobIsSound, Jobs, OpenJobs
    <2> HIDE DEF new
    <2>4. \A job \in jobs' : job \in jobs \/ job = new
      BY <1>14 DEF WorkspaceOpened, SessionTab, new
    <2>5. WorldInv'
      BY <1>14, <2>2 DEF EditorInv, WorldInv, WorkspaceOpened, SessionTab
    <2> QED
      BY <1>14, <2>3, <2>4, <2>5, AppStep DEF WorkspaceOpened
  <1> QED
    BY <1>2, <1>3, <1>4, <1>5, <1>6, <1>7, <1>8, <1>9, <1>10, <1>11, <1>12, <1>13, <1>14
       DEF Messages

\* The document that is shown stands in for its file, or is what it was.
LEMMA StandInKeeps ==
    ASSUME EditorInv, tab # None, NEW preview \in BOOLEAN
    PROVE  /\ doc = None => Good(StandIn(preview)) /\ StandIn(preview).id = opened + 1
           /\ doc # None => Good(StandIn(preview)) /\ Follows(doc, StandIn(preview))
  <1>1. tab \in Texts /\ Empty \in Texts /\ opened + 1 \in Nat
    BY TextAssumption DEF EditorInv, WorldInv
  <1>2. CASE doc = None
    <2> DEFINE fresh == NewDocument(opened + 1, Empty, tab, FALSE, preview)
               new == [fresh EXCEPT !.standIn = TRUE]
    <2>1. StandIn(preview) = ObserveMissing(new, new.revision)
      BY <1>2 DEF StandIn
    <2>2. /\ fresh \in Documents /\ fresh.id = opened + 1 /\ fresh.text = Empty
          /\ fresh.revision = 0 /\ fresh.saved = Empty /\ fresh.disk = tab
          /\ fresh.status = "Clean" /\ fresh.undo = <<>> /\ fresh.redo = <<>>
          /\ fresh.seen = {tab}
      <3>1. <<>> \in Seq(Texts) /\ 0 \in Nat
        OBVIOUS
      <3> QED
        BY <1>1, <3>1 DEF NewDocument, Statuses, Documents
    <2> HIDE DEF fresh
    <2>3. /\ new \in Documents /\ new.id = opened + 1 /\ new.text = Empty
          /\ new.revision = 0 /\ new.saved = Empty /\ new.disk = tab
          /\ new.status = "Clean" /\ new.undo = <<>> /\ new.redo = <<>>
          /\ new.seen = {tab} /\ new.standIn
      BY <2>2 DEF Documents
    <2> HIDE DEF new
    <2>4. Good(new) /\ new.id = opened + 1
      BY <2>3, FreshIsGood DEF Baseline
    <2>5. Good(StandIn(preview)) /\ Follows(new, StandIn(preview))
      BY <2>1, <2>4, MissingKeeps
    <2> QED
      BY <1>2, <2>4, <2>5 DEF Follows
  <1>3. CASE doc # None
    <2>1. Good(doc) /\ doc \in Documents
      BY <1>3 DEF EditorInv, DocumentInv, Good
    <2> DEFINE again == Reopen(doc, Empty, tab, FALSE, preview)
               standIn == again.standIn \/ doc.readOnly
               shown == [again EXCEPT !.standIn = standIn]
    <2>2. doc.readOnly \in BOOLEAN /\ doc.standIn \in BOOLEAN
      BY <2>1 DEF Documents
    <2>3. standIn \in BOOLEAN /\ (doc.readOnly => standIn) /\ (~doc.readOnly => standIn = doc.standIn)
      <3>1. CASE doc.readOnly
        BY <3>1
      <3>2. CASE ~doc.readOnly
        <4>1. again = [doc EXCEPT !.preview = doc.preview /\ preview]
          BY <3>2 DEF Reopen
        <4>2. again.standIn = doc.standIn
          BY <2>1, <4>1 DEF Documents
        <4> HIDE DEF again
        <4> QED
          BY <2>2, <3>2, <4>2
      <3> QED
        BY <3>1, <3>2
    <2>4. StandIn(preview) = ObserveMissing(shown, shown.revision)
      BY <1>3 DEF StandIn
    <2> HIDE DEF standIn
    <2>5. Good(shown) /\ Follows(doc, shown)
      <3>1. doc.readOnly \/ standIn = doc.standIn
        BY <2>3
      <3>2. CASE doc.readOnly
        BY <1>1, <2>1, <2>3, <3>2, ReopenKeeps
      <3>3. CASE ~doc.readOnly
        <4>1. again = [doc EXCEPT !.preview = doc.preview /\ preview]
          BY <3>3 DEF Reopen
        <4> DEFINE kept == doc.preview /\ preview
        <4>2. again = [doc EXCEPT !.preview = kept] /\ kept \in BOOLEAN
          BY <2>1, <4>1 DEF Documents
        <4> HIDE DEF again, kept
        <4>3. again \in Documents /\ SameText(doc, again)
              /\ again.undo = doc.undo /\ again.redo = doc.redo
          BY <2>1, <4>2 DEF Documents, SameText
        <4>4. shown \in Documents /\ SameText(doc, shown)
              /\ shown.undo = doc.undo /\ shown.redo = doc.redo
          BY <2>3, <3>3, <4>3 DEF Documents, SameText
        <4> HIDE DEF shown
        <4>5. Good(shown)
          BY <2>1, <4>4, HistoryKeeps DEF Good, SameText
        <4> QED
          BY <2>1, <4>4, <4>5 DEF Follows, SameText, Documents
      <3> QED
        BY <3>2, <3>3
    <2> HIDE DEF shown
    <2>6. Good(StandIn(preview)) /\ Follows(shown, StandIn(preview))
      BY <2>4, <2>5, MissingKeeps
    <2>7. Follows(doc, StandIn(preview))
      <3>1. shown.revision \in Nat /\ StandIn(preview).revision \in Nat /\ doc.revision \in Nat
        BY <2>1, <2>5, <2>6 DEF Good, Documents
      <3> QED
        BY <2>5, <2>6, <3>1 DEF Follows
    <2> QED
      BY <1>3, <2>6, <2>7
  <1> QED
    BY <1>2, <1>3

\* The document that is shown for what was read is new or follows the one that was open.
LEMMA FoundKeeps ==
    ASSUME EditorInv, NEW r \in Reads, WasRead(r), NEW preview \in BOOLEAN
    PROVE  LET new == NewDocument(opened + 1, r.text, r.disk, r.readOnly, preview)
               again == Reopen(doc, r.text, r.disk, r.readOnly, preview)
           IN /\ doc = None => Good(new) /\ new.id = opened + 1
              /\ doc # None => Good(again) /\ Follows(doc, again)
  <1> DEFINE new == NewDocument(opened + 1, r.text, r.disk, r.readOnly, preview)
             again == Reopen(doc, r.text, r.disk, r.readOnly, preview)
  <1>1. /\ r.text \in Texts /\ r.disk \in Texts /\ r.readOnly \in BOOLEAN /\ opened + 1 \in Nat
        /\ r.disk \in onDisk
        /\ r.readOnly => r.text = Cut /\ r.disk \in Large
        /\ ~r.readOnly => r.text = r.disk
    BY DEF Reads, WasRead, EditorInv, WorldInv
  <1>2. doc = None => Good(new) /\ new.id = opened + 1
    <2>1. /\ new \in Documents /\ new.id = opened + 1 /\ new.text = r.text
          /\ new.revision = 0 /\ new.saved = r.text /\ new.disk = r.disk
          /\ new.status = "Clean" /\ new.readOnly = r.readOnly /\ new.undo = <<>>
          /\ new.redo = <<>> /\ new.seen = {r.disk}
      BY <1>1, NewFacts
    <2> HIDE DEF new
    <2>2. Baseline(new) /\ (new.saved \in onDisk \cup {Empty} \/ new.readOnly)
      BY <1>1, <2>1 DEF Baseline
    <2> QED
      BY <2>1, <2>2, FreshIsGood
  <1>3. ASSUME doc # None
        PROVE  Good(again) /\ Follows(doc, again)
    <2>1. Good(doc) /\ doc \in Documents
      BY <1>3 DEF EditorInv, DocumentInv, Good
    <2>2. doc.readOnly \in BOOLEAN /\ doc.standIn \in BOOLEAN /\ doc.preview \in BOOLEAN
      BY <2>1 DEF Documents
    <2>3. CASE doc.readOnly /\ ~r.readOnly
      <3> DEFINE full == [doc EXCEPT !.text = r.text, !.revision = 0, !.undo = <<>>,
                                     !.redo = <<>>, !.saved = r.text, !.disk = r.disk,
                                     !.status = "Clean", !.readOnly = FALSE,
                                     !.seen = @ \cup {r.disk}, !.standIn = FALSE]
                 kept == full.preview /\ preview
      <3>1. again = [full EXCEPT !.preview = kept]
        BY <2>3 DEF Reopen
      <3>2. DOMAIN full = DOMAIN doc /\ full.standIn = FALSE
        BY <2>1 DEF Documents
      <3> HIDE DEF full
      <3>3. DOMAIN again = DOMAIN doc /\ again.standIn = FALSE
        BY <2>1, <3>1, <3>2 DEF Documents
      <3>4. LET e == [again EXCEPT !.standIn = FALSE] IN Good(e) /\ Follows(doc, e)
        BY <1>1, <2>1, <2>3, ReopenKeeps
      <3>5. [again EXCEPT !.standIn = FALSE] = again
        <4>1. again = [f \in DOMAIN again |-> again[f]]
          BY <3>1
        <4> QED
          BY <3>3, <4>1
      <3> QED
        BY <3>4, <3>5
    <2>4. CASE ~(doc.readOnly /\ ~r.readOnly)
      <3> DEFINE kept == doc.preview /\ preview
      <3>1. again = [doc EXCEPT !.preview = kept] /\ kept \in BOOLEAN
        BY <2>2, <2>4 DEF Reopen
      <3> HIDE DEF again, kept
      <3>2. again \in Documents /\ SameText(doc, again)
            /\ again.undo = doc.undo /\ again.redo = doc.redo
        BY <2>1, <3>1 DEF Documents, SameText
      <3>3. Good(again)
        BY <2>1, <3>2, HistoryKeeps DEF Good, SameText
      <3> QED
        BY <2>1, <3>2, <3>3 DEF Follows, SameText, Documents
    <2> QED
      BY <2>3, <2>4
  <1> QED
    BY <1>2, <1>3

\* The answer to a task that opened the file.
LEMMA OpenedKeeps ==
    ASSUME EditorInv, NEW job \in jobs, DocumentOpened(job)
    PROVE  EditorInv'
  <1>1. JobIsSound(job) /\ job \in Jobs /\ job.kind = "open" /\ job.result # None
    BY DEF EditorInv, JobsInv, JobIsSound, DocumentOpened, Answered
  <1>2. job \in OpenJobs
    BY <1>1, KindOf
  <1>3. job.preview \in BOOLEAN /\ job.result \in {None, Missing} \cup Reads
    BY <1>2 DEF OpenJobs
  <1>4. UNCHANGED <<file, store, tab, onDisk, readOnlySaved>>
    BY DEF DocumentOpened
  <1>5. ASSUME NEW d, Shows(d), jobs' = (jobs \ {job}) \cup {LoadJob(d)},
               doc = None => Good(d) /\ d.id = opened + 1,
               doc # None => Good(d) /\ Follows(doc, d)
        PROVE  EditorInv'
    <2>1. d \in Documents /\ doc' = d
      BY <1>5 DEF Good, Shows
    <2>2. JobIsSound(LoadJob(d)) /\ LoadJob(d).kind # "save"
      BY <2>1 DEF LoadJob, JobIsSound, Jobs, LoadJobs, Documents
    <2>3. /\ opened' = IF doc = None THEN opened + 1 ELSE opened
          /\ generation' = IF doc = None THEN 0 ELSE generation
      BY <1>5 DEF Shows
    <2>4. WorldInv'
      BY <1>4, <2>3 DEF EditorInv, WorldInv
    <2>5. \A j \in jobs' : j \in jobs \/ (JobIsSound(j) /\ j.kind # "save")
      BY <1>5, <2>2
    <2>6. \/ doc # None /\ Good(doc') /\ Follows(doc, doc') /\ opened' = opened
          \/ Good(doc') /\ doc'.id = opened + 1 /\ opened' = opened + 1
      BY <1>5, <2>1, <2>3
    <2> QED
      BY <1>4, <2>4, <2>5, <2>6, AppStep
  <1> DEFINE r == job.result
             found == IF doc = None
                      THEN NewDocument(opened + 1, r.text, r.disk, r.readOnly, job.preview)
                      ELSE Reopen(doc, r.text, r.disk, r.readOnly, job.preview)
             shown == StandIn(job.preview)
  <1>6. CASE r # Missing /\ Shows(found) /\ jobs' = (jobs \ {job}) \cup {LoadJob(found)}
    <2>1. r \in Reads /\ WasRead(r)
      BY <1>1, <1>3, <1>6 DEF JobIsSound
    <2>2. /\ doc = None => Good(found) /\ found.id = opened + 1
          /\ doc # None => Good(found) /\ Follows(doc, found)
      BY <1>3, <2>1, FoundKeeps
    <2> HIDE DEF found
    <2> QED
      BY <1>5, <1>6, <2>2
  <1>7. CASE r = Missing /\ tab # None /\ Shows(shown) /\ jobs' = (jobs \ {job}) \cup {LoadJob(shown)}
    <2>1. /\ doc = None => Good(shown) /\ shown.id = opened + 1
          /\ doc # None => Good(shown) /\ Follows(doc, shown)
      BY <1>3, <1>7, StandInKeeps
    <2> HIDE DEF shown
    <2> QED
      BY <1>5, <1>7, <2>1
  <1>8. CASE r = Missing /\ tab = None /\ jobs' = jobs \ {job} /\ UNCHANGED app
    BY <1>4, <1>8, OnlyTask DEF app
  <1> QED
    BY <1>6, <1>7, <1>8 DEF DocumentOpened

\* The answer to a save: the document takes it only for the text that was published.
LEMMA SavedKeeps ==
    ASSUME EditorInv, NEW job \in jobs, DocumentSaved(job)
    PROVE  EditorInv'
  <1>1. JobIsSound(job) /\ job \in Jobs /\ job.kind = "save"
    BY DEF EditorInv, JobsInv, JobIsSound, DocumentSaved
  <1>2. job \in SaveJobs /\ SaveIsSound(job)
    BY <1>1, KindOf DEF JobIsSound
  <1>3. job.text \in Texts /\ job.readOnly \in BOOLEAN
    BY <1>2 DEF SaveJobs
  <1>4. UNCHANGED <<file, generation, store, opened, tab, onDisk, readOnlySaved>>
    BY DEF DocumentSaved
  <1>5. WorldInv'
    BY <1>4 DEF EditorInv, WorldInv
  <1> DEFINE applies == /\ job.result = "saved"
                        /\ doc # None
                        /\ doc.id = job.id
                        /\ EnsureRevision(doc, job.revision)
  <1>6. CASE applies
    <2>1. /\ doc' = IF pendingClose THEN None ELSE CompleteSave(doc, job.text)
          /\ jobs' = (jobs \ {job}) \cup {DeleteJob(doc)}
      BY <1>6 DEF DocumentSaved
    <2>2. Good(doc) /\ doc \in Documents /\ Matches(doc, job)
      BY <1>6 DEF EditorInv, DocumentInv, MatchInv, Good
    <2>3. JobIsSound(DeleteJob(doc)) /\ DeleteJob(doc).kind # "save"
      BY <2>2 DEF DeleteJob, JobIsSound, Jobs, DeleteJobs, Documents
    <2>4. job.text \in onDisk /\ (job.readOnly => readOnlySaved)
      BY <1>2, <1>6 DEF SaveIsSound
    <2>5. ~readOnlySaved => job.text = doc.text
      BY <1>1, <1>6, <2>2, <2>4 DEF Matches, EnsureRevision
    <2>6. Good(CompleteSave(doc, job.text)) /\ Follows(doc, CompleteSave(doc, job.text))
      BY <1>3, <2>2, <2>4, <2>5, CompleteSaveKeeps
    <2>7. \A j \in jobs' : j \in jobs \/ (JobIsSound(j) /\ j.kind # "save")
      BY <2>1, <2>3
    <2>8. \/ doc' = None /\ opened' = opened
          \/ doc # None /\ Good(doc') /\ Follows(doc, doc') /\ opened' = opened
      BY <1>4, <1>6, <2>1, <2>6
    <2> QED
      BY <1>4, <1>5, <2>7, <2>8, AppStep
  <1>7. CASE ~applies
    BY <1>4, <1>7, OnlyTask DEF DocumentSaved
  <1> QED
    BY <1>6, <1>7

\* The answer to an observation of the file.
LEMMA ObservedKeeps ==
    ASSUME EditorInv, NEW job \in jobs, DocumentDiskObserved(job)
    PROVE  EditorInv'
  <1>1. JobIsSound(job) /\ job \in Jobs /\ job.kind = "observe" /\ job.result # None
    BY DEF EditorInv, JobsInv, JobIsSound, DocumentDiskObserved, Answered
  <1>2. job \in ObserveJobs
    BY <1>1, KindOf
  <1>3. job.result \in {None, Missing} \cup Reads
    BY <1>2 DEF ObserveJobs
  <1> DEFINE r == job.result
             own == r # Missing /\ recent = r.disk
             text == r # Missing /\ ~r.readOnly
             live == doc # None /\ doc.id = job.id
  <1>4. /\ UNCHANGED <<file, generation, store, opened, tab, onDisk, readOnlySaved>>
        /\ jobs' = jobs \ {job}
        /\ doc' = CASE ~live \/ own -> doc
                    [] live /\ ~own /\ text -> ObserveDiskChange(doc, job.revision, r.disk)
                    [] live /\ ~own /\ ~text -> ObserveMissing(doc, job.revision)
        /\ doc' # None => doc'.revision <= MaxRevision + MaxHistory
    BY DEF DocumentDiskObserved
  <1>5. WorldInv'
    BY <1>4 DEF EditorInv, WorldInv
  <1>6. live => Good(doc)
    BY DEF EditorInv, DocumentInv
  <1>7. \/ doc' = None
        \/ doc' = doc
        \/ doc # None /\ Good(doc') /\ Follows(doc, doc')
    <2>1. CASE ~live \/ own
      BY <1>4, <2>1
    <2>2. CASE live /\ ~own /\ text
      <3>1. doc' = ObserveDiskChange(doc, job.revision, r.disk)
        BY <1>4, <2>2
      <3>2. r.disk \in Texts /\ r.disk \in onDisk
        BY <1>1, <1>3, <2>2 DEF JobIsSound, WasRead, Reads
      <3> HIDE DEF own, text
      <3>3. CASE doc' # None
        BY <1>4, <1>6, <2>2, <3>1, <3>2, <3>3, ObserveKeeps
      <3> QED
        BY <3>3
    <2>3. CASE live /\ ~own /\ ~text
      <3>1. doc' = ObserveMissing(doc, job.revision)
        BY <1>4, <2>3
      <3> QED
        BY <1>6, <2>3, <3>1, MissingKeeps
    <2> QED
      BY <2>1, <2>2, <2>3
  <1> HIDE DEF r, own, text, live
  <1>8. \A j \in jobs' : j \in jobs
    BY <1>4
  <1> QED
    BY <1>4, <1>5, <1>7, <1>8, AppStep

\* The answers of the recovery record.
LEMMA RecoveryAnswersKeep ==
    ASSUME EditorInv, NEW job \in jobs,
           RecoveryDue(job) \/ RecoveryLoaded(job) \/ RecoveryDeleted(job)
    PROVE  EditorInv'
  <1>1. doc # None => Good(doc) /\ doc \in Documents
    BY DEF EditorInv, DocumentInv, Good
  <1>2. CASE RecoveryDue(job)
    <2>1. doc # None => JobIsSound(KeepJob(doc)) /\ KeepJob(doc).kind # "save"
      BY <1>1 DEF KeepJob, JobIsSound, Jobs, KeepJobs, Records, Documents
    <2>2. \A j \in jobs' : j \in jobs \/ (doc # None /\ j = KeepJob(doc))
      BY <1>2 DEF RecoveryDue
    <2>3. UNCHANGED <<doc, file, generation, store, opened, tab, onDisk, readOnlySaved>>
      BY <1>2 DEF RecoveryDue, app
    <2> QED
      BY <2>1, <2>2, <2>3, OnlyTask
  <1>3. CASE RecoveryLoaded(job)
    <2>1. /\ JobIsSound(job) /\ job \in Jobs /\ job.kind = "load" /\ job.result # None
      BY <1>3 DEF EditorInv, JobsInv, JobIsSound, RecoveryLoaded, Answered
    <2>2. job \in LoadJobs
      BY <2>1, KindOf
    <2>3. job.result \in Texts
      BY <2>1, <2>2 DEF LoadJobs
    <2>4. /\ UNCHANGED <<file, generation, store, opened, tab, onDisk, readOnlySaved>>
          /\ jobs' \subseteq jobs
          /\ doc' = IF doc # None /\ doc.id = job.id /\ doc.revision = job.revision
                    THEN RestoreRecovery(doc, job.result) ELSE doc
          /\ doc' # None => doc'.revision <= MaxRevision + MaxHistory
      BY <1>3 DEF RecoveryLoaded
    <2>5. WorldInv'
      BY <2>4 DEF EditorInv, WorldInv
    <2>6. \/ doc' = None
          \/ doc' = doc
          \/ doc # None /\ Good(doc') /\ Follows(doc, doc')
      BY <1>1, <2>3, <2>4, RecoveryKeeps
    <2>7. \A j \in jobs' : j \in jobs
      BY <2>4
    <2> QED
      BY <2>4, <2>5, <2>6, <2>7, AppStep
  <1>4. CASE RecoveryDeleted(job)
    <2>1. /\ UNCHANGED <<doc, file, store, opened, tab, onDisk, readOnlySaved>>
          /\ generation' \in {0, generation} /\ jobs' \subseteq jobs
      BY <1>4 DEF RecoveryDeleted
    <2>2. WorldInv'
      BY <2>1 DEF EditorInv, WorldInv
    <2>3. \A j \in jobs' : j \in jobs
      BY <2>1
    <2> QED
      BY <2>1, <2>2, <2>3, AppStep
  <1> QED
    BY <1>2, <1>3, <1>4

-----------------------------------------------------------------------------
(* The editor: the theorems.                                                *)

\* An application that starts has opened nothing; what a session before left is to be read.
LEMMA InitHolds ==
    ASSUME Init
    PROVE  EditorInv
  <1>1. WorldInv
    <2>1. store \in [current : {None} \cup Records, backup : {None} \cup Records]
      <3>1. tab \in Texts \cup {None} /\ store \in Kept(tab)
        BY DEF Init
      <3>2. CASE tab = None
        BY <3>1, <3>2 DEF Kept
      <3>3. CASE tab # None
        BY <3>1, <3>3 DEF Kept, Records
      <3> QED
        BY <3>2, <3>3
    <2> QED
      BY <2>1 DEF Init, WorldInv
  <1>2. ASSUME NEW job \in jobs
        PROVE  JobIsSound(job)
    <2>1. PICK preview \in BOOLEAN, full \in BOOLEAN : job = OpenJob(preview, full)
      <3>1. jobs \in Restoring(tab)
        BY DEF Init
      <3> QED
        BY <1>2, <3>1 DEF Restoring
    <2> QED
      BY <2>1 DEF OpenJob, JobIsSound, Jobs, OpenJobs
  <1> QED
    BY <1>1, <1>2 DEF Init, EditorInv, DocumentInv, JobsInv, MatchInv

\* Every step keeps the invariant.
LEMMA NextHolds ==
    ASSUME EditorInv, [Next]_vars
    PROVE  EditorInv'
  <1>1. CASE Messages
    BY <1>1, MessagesKeep
  <1>2. ASSUME NEW job \in jobs, Work(job)
        PROVE  EditorInv'
    BY <1>2, RunReadKeeps, SaveStagesKeep, ReplaceKeeps, StoreTasksKeep DEF Work
  <1>3. ASSUME NEW job \in jobs, Answers(job)
        PROVE  EditorInv'
    BY <1>3, OpenedKeeps, SavedKeeps, ObservedKeeps, RecoveryAnswersKeep DEF Answers
  <1>4. ASSUME NEW contents \in Texts \cup {Missing}, ExternalWrite(contents)
        PROVE  EditorInv'
    BY <1>4, ExternalWriteKeeps
  <1>5. CASE UNCHANGED vars
    <2>1. /\ UNCHANGED <<doc, jobs, file, generation, store, opened, tab, onDisk, readOnlySaved>>
      BY <1>5 DEF vars
    <2> QED
      BY <2>1, OnlyDocument
  <1> QED
    BY <1>1, <1>2, <1>3, <1>4, <1>5 DEF Next

\* The invariant holds of every state of the editor.
THEOREM EditorHolds == Spec => []EditorInv
  <1> QED
    BY InitHolds, NextHolds, PTL DEF Spec

\* The file, the recovery record and the document are what they are said to be: the document
\* has an identity that was given out, and its history stays within its budget
\* (history.rs:85-139).
THEOREM EditorTypes == Spec => []TypeOK
  <1>1. ASSUME EditorInv
        PROVE  TypeOK
    <2>1. file \in Texts \cup {Missing}
      BY <1>1 DEF EditorInv, WorldInv
    <2>2. store \in [{"current", "backup"} -> {None} \cup [baseline : Texts, text : Texts]]
      BY <1>1 DEF EditorInv, WorldInv, Records
    <2>3. ASSUME doc # None
          PROVE  /\ doc.id \in 1..opened
                 /\ doc.text \in Texts
                 /\ doc.status \in Statuses
                 /\ doc.revision \in 0..MaxRevision + MaxHistory
                 /\ Len(doc.undo) <= MaxHistory
      <3>1. Good(doc) /\ doc.id \in 1..opened
        BY <1>1, <2>3 DEF EditorInv, DocumentInv
      <3>2. /\ doc.text \in Texts /\ doc.status \in Statuses /\ doc.revision \in Nat
            /\ Len(doc.undo) \in Nat /\ Len(doc.redo) \in Nat
        BY <3>1, LenProperties DEF Good, Documents
      <3>3. /\ Len(doc.undo) + Len(doc.redo) <= MaxHistory
            /\ doc.revision + Len(doc.redo) <= MaxRevision + MaxHistory
        BY <3>1 DEF Good
      <3>4. \A u, n, v, m, h \in Nat :
              u + n <= h /\ v + n <= m + h => u <= h /\ v \in 0..m + h
        OBVIOUS
      <3>5. MaxRevision \in Nat /\ MaxHistory \in Nat
        BY BoundAssumption
      <3>6. Len(doc.undo) <= MaxHistory /\ doc.revision \in 0..MaxRevision + MaxHistory
        BY <3>2, <3>3, <3>4, <3>5
      <3> QED
        BY <3>1, <3>2, <3>6
    <2> QED
      BY <2>1, <2>2, <2>3 DEF TypeOK
  <1> QED
    BY EditorHolds, <1>1, PTL

\* A mark that says clean says the truth: whatever saves, observations and answers crossed,
\* the text is the saved one, which is what the next save goes by
\* (document.rs:214-263, 376-395).
THEOREM CleanIsTrue == Spec => []CleanIsSaved
  <1>1. EditorInv => CleanIsSaved
    BY DEF EditorInv, DocumentInv, Good, Baseline, CleanIsSaved
  <1> QED
    BY EditorHolds, <1>1, PTL

\* An ordinary save takes the place of nothing its document or its tab has not shown, unless
\* it was written after the last comparison (strukt-fs document.rs:240-280, 418-439).
THEOREM OthersWorkIsKept == Spec => SaveKeepsOthersWork
  <1>1. ASSUME EditorInv
        PROVE  \A job \in jobs : Replace(job) /\ ~job.force => file \in job.seen \/ job.raced
    <2> SUFFICES ASSUME NEW job \in jobs, Replace(job), ~job.force
                 PROVE  file \in job.seen \/ job.raced
      OBVIOUS
    <2>1. SaveIsSound(job)
      BY <1>1 DEF EditorInv, JobsInv, JobIsSound, Replace
    <2> QED
      BY <2>1 DEF SaveIsSound, Replace
  <1>2. EditorInv /\ [Next]_vars =>
          [\A job \in jobs : Replace(job) /\ ~job.force => file \in job.seen \/ job.raced]_vars
    BY <1>1
  <1> QED
    BY EditorHolds, <1>2, PTL DEF Spec, SaveKeepsOthersWork

\* A document is never taken for no document.
NoDocumentIsNone == None \notin Documents

\* An observation and a recovery of a document give a document.
LEMMA ObservedIsDocument ==
    ASSUME NEW d \in Documents, NEW expected, NEW disk \in Texts
    PROVE  ObserveDiskChange(d, expected, disk) \in Documents
  <1> DEFINE next == d.revision + 1
             a == Apply(d, disk)
             seen == a.seen \cup {disk}
             kept == a.preview /\ ~d.recovered
             c == [d EXCEPT !.status = "Conflict", !.theirs = disk]
  <1>1. a = [[d EXCEPT !.text = disk] EXCEPT !.revision = next]
    BY DEF Apply
  <1>2. next \in Nat /\ <<>> \in Seq(Texts)
    BY DEF Documents
  <1>3. a \in Documents
    <2> HIDE DEF a, next
    <2> QED
      BY <1>1, <1>2 DEF Documents
  <1>4. seen \in SUBSET Texts /\ kept \in BOOLEAN
    BY <1>3 DEF Documents
  <1>5. \/ ObserveDiskChange(d, expected, disk) = d
        \/ ObserveDiskChange(d, expected, disk) =
             [a EXCEPT !.undo = <<>>, !.redo = <<>>, !.saved = disk, !.disk = disk,
                       !.seen = seen, !.standIn = FALSE, !.preview = kept]
        \/ ObserveDiskChange(d, expected, disk) = [c EXCEPT !.preview = FALSE]
    BY DEF ObserveDiskChange, Pinned
  <1> HIDE DEF a, seen, kept
  <1>6. [a EXCEPT !.undo = <<>>, !.redo = <<>>, !.saved = disk, !.disk = disk,
                  !.seen = seen, !.standIn = FALSE, !.preview = kept] \in Documents
    BY <1>2, <1>3, <1>4 DEF Documents
  <1>7. c \in Documents
    BY DEF Documents, Statuses
  <1> HIDE DEF c
  <1>8. [c EXCEPT !.preview = FALSE] \in Documents
    BY <1>7 DEF Documents
  <1> QED
    BY <1>5, <1>6, <1>8

\* And what is recovered is one.
LEMMA RestoredIsDocument ==
    ASSUME NEW d \in Documents, NEW text \in Texts
    PROVE  RestoreRecovery(d, text) \in Documents
  <1> DEFINE next == d.revision + 1
             a == Apply(d, text)
             cleared == [a EXCEPT !.undo = <<>>, !.redo = <<>>]
             shown == IF d.text = text THEN d ELSE cleared
             status == IF shown.status = "Clean" THEN "Dirty" ELSE shown.status
             r == [shown EXCEPT !.recovered = TRUE, !.status = status]
  <1>1. a = [[d EXCEPT !.text = text] EXCEPT !.revision = next]
    BY DEF Apply
  <1>2. next \in Nat /\ <<>> \in Seq(Texts)
    BY DEF Documents
  <1>3. a \in Documents
    <2> HIDE DEF a, next
    <2> QED
      BY <1>1, <1>2 DEF Documents
  <1>4. RestoreRecovery(d, text) = [r EXCEPT !.preview = FALSE]
    BY DEF RestoreRecovery, Pinned
  <1> HIDE DEF a
  <1>5. cleared \in Documents
    BY <1>2, <1>3 DEF Documents
  <1> HIDE DEF cleared
  <1>6. shown \in Documents
    BY <1>5
  <1> HIDE DEF shown
  <1>7. status \in Statuses
    BY <1>6 DEF Documents, Statuses
  <1> HIDE DEF status
  <1>8. r \in Documents
    BY <1>6, <1>7 DEF Documents
  <1> HIDE DEF r
  <1> QED
    BY <1>4, <1>8 DEF Documents

\* A document that is not waiting for anything has a text that was on disk.
LEMMA CleanIsOnDisk ==
    ASSUME EditorInv, doc # None, ~IsRecoverable(doc)
    PROVE  doc.text \in onDisk \cup {Empty} \/ doc.readOnly \/ readOnlySaved
  BY DEF EditorInv, DocumentInv, Good, IsRecoverable

\* The messages of the user that close a document.
LEMMA MessagesClose ==
    ASSUME EditorInv, Messages, NoDocumentIsNone, doc # None, doc' = None
    PROVE  \/ doc.text \in onDisk \cup {Empty} \/ doc.readOnly \/ readOnlySaved
           \/ CloseWithout("Discard")
           \/ \E crash \in BOOLEAN : WorkspaceOpened(crash)
  <1>1. Good(doc)
    BY DEF EditorInv, DocumentInv
  <1>2. \A d : Good(d) => d # None
    BY DEF Good, NoDocumentIsNone
  <1>3. ~\E preview, full \in BOOLEAN : OpenDocument(preview, full)
    BY DEF OpenDocument, app
  <1>4. CASE OpenOther
    BY <1>1, <1>2, <1>4, PinnedKeeps, CleanIsOnDisk DEF OpenOther
  <1>5. ~\E text \in Texts : EditorAction(text)
    <2> SUFFICES ASSUME NEW text \in Texts, EditorAction(text)
                 PROVE  FALSE
      OBVIOUS
    <2>1. doc.revision < MaxRevision /\ doc' \in Edit(doc, text)
      BY DEF EditorAction, Changes
    <2> QED
      BY <1>1, <1>2, <2>1, EditKeeps
  <1>6. ~UndoDocument
    <2> SUFFICES ASSUME UndoDocument
                 PROVE  FALSE
      OBVIOUS
    <2>1. doc.undo # <<>> /\ doc.revision < MaxRevision /\ doc' = Undo(doc)
      BY DEF UndoDocument, Changes
    <2> QED
      BY <1>1, <1>2, <2>1, UndoKeeps
  <1>7. ~RedoDocument
    <2> SUFFICES ASSUME RedoDocument
                 PROVE  FALSE
      OBVIOUS
    <2>1. doc.redo # <<>> /\ doc' = Redo(doc)
      BY DEF RedoDocument, Changes
    <2> QED
      BY <1>1, <1>2, <2>1, RedoKeeps
  <1>8. (~\E force \in BOOLEAN : SaveDocument(force)) /\ ~CloseWithSave
    BY DEF SaveDocument, CloseWithSave, app
  <1>9. ~PinDocument
    BY <1>1, <1>2, PinnedKeeps DEF PinDocument
  <1>10. CASE CloseDocument
    BY <1>10, CleanIsOnDisk DEF CloseDocument
  <1>11. ASSUME NEW decision \in {"Discard", "Cancel"}, CloseWithout(decision)
         PROVE  CloseWithout("Discard")
    BY <1>11 DEF CloseWithout
  <1>12. ~ReloadDocumentFromDisk
    <2> SUFFICES ASSUME ReloadDocumentFromDisk
                 PROVE  FALSE
      OBVIOUS
    <2>1. doc.status = "Conflict" /\ doc.revision < MaxRevision /\ doc' = ReloadFromDisk(doc)
      BY DEF ReloadDocumentFromDisk
    <2> QED
      BY <1>1, <1>2, <2>1, ReloadKeeps
  <1>13. ~KeepEditingDocument
    BY <1>1, <1>2, MissingKeeps DEF KeepEditingDocument
  <1> QED
    BY <1>3, <1>4, <1>5, <1>6, <1>7, <1>8, <1>9, <1>10, <1>11, <1>12, <1>13 DEF Messages

\* The answers that close a document: a save it was waiting for, and nothing else.
LEMMA AnswersClose ==
    ASSUME EditorInv, NEW job \in jobs, Work(job) \/ Answers(job), NoDocumentIsNone,
           doc # None, doc' = None
    PROVE  doc.text \in onDisk \/ readOnlySaved
  <1>1. Good(doc) /\ JobIsSound(job) /\ job \in Jobs /\ Matches(doc, job)
    BY DEF EditorInv, DocumentInv, JobsInv, MatchInv, JobIsSound
  <1>2. \A d : Good(d) => d # None
    BY DEF Good, NoDocumentIsNone
  <1>3. ~Work(job)
    BY DEF Work, RunOpen, RunObserve, Check, Recheck, Replace, Verify, RunKeep, RunLoad,
           RunDelete, app
  <1>4. ~DocumentOpened(job)
    <2> SUFFICES ASSUME DocumentOpened(job)
                 PROVE  FALSE
      OBVIOUS
    <2>1. job \in OpenJobs /\ job.result # None /\ job.kind = "open"
      BY <1>1, KindOf DEF DocumentOpened, Answered
    <2>2. job.preview \in BOOLEAN /\ job.result \in {None, Missing} \cup Reads
      BY <2>1 DEF OpenJobs
    <2> DEFINE r == job.result
               found == Reopen(doc, r.text, r.disk, r.readOnly, job.preview)
               shown == StandIn(job.preview)
    <2>3. CASE r # Missing /\ doc' = found
      <3>1. r \in Reads /\ WasRead(r)
        BY <1>1, <2>1, <2>2, <2>3 DEF JobIsSound
      <3>2. Good(found)
        BY <2>2, <3>1, FoundKeeps
      <3> HIDE DEF found
      <3> QED
        BY <1>2, <2>3, <3>2
    <2>4. CASE r = Missing /\ tab # None /\ doc' = shown
      <3>1. Good(shown)
        BY <2>2, <2>4, StandInKeeps
      <3> HIDE DEF shown
      <3> QED
        BY <1>2, <2>4, <3>1
    <2> QED
      BY <2>3, <2>4 DEF DocumentOpened, Shows, app
  <1>5. CASE DocumentSaved(job)
    <2>1. job \in SaveJobs /\ SaveIsSound(job) /\ job.kind = "save"
      BY <1>1, <1>5, KindOf DEF JobIsSound, DocumentSaved
    <2>2. job.result = "saved" /\ doc.id = job.id /\ job.revision = doc.revision
      BY <1>5 DEF DocumentSaved, EnsureRevision
    <2> QED
      BY <1>1, <2>1, <2>2 DEF SaveIsSound, Matches
  <1>6. ~DocumentDiskObserved(job)
    <2> SUFFICES ASSUME DocumentDiskObserved(job)
                 PROVE  FALSE
      OBVIOUS
    <2> DEFINE r == job.result
               own == r # Missing /\ recent = r.disk
               text == r # Missing /\ ~r.readOnly
               live == doc # None /\ doc.id = job.id
    <2>1. doc' = CASE ~live \/ own -> doc
                   [] live /\ ~own /\ text -> ObserveDiskChange(doc, job.revision, r.disk)
                   [] live /\ ~own /\ ~text -> ObserveMissing(doc, job.revision)
      BY DEF DocumentDiskObserved
    <2>2. CASE ~live \/ own
      BY <2>1, <2>2
    <2>3. CASE live /\ ~own /\ ~text
      <3>1. doc' = ObserveMissing(doc, job.revision)
        BY <2>1, <2>3
      <3> QED
        BY <1>1, <1>2, <3>1, MissingKeeps
    <2>4. CASE live /\ ~own /\ text
      <3>1. doc' = ObserveDiskChange(doc, job.revision, r.disk)
        BY <2>1, <2>4
      <3>2. job \in ObserveJobs
        BY <1>1, KindOf DEF DocumentDiskObserved
      <3>3. r \in Reads
        BY <2>4, <3>2 DEF ObserveJobs, DocumentDiskObserved, Answered
      <3>4. r.disk \in Texts
        BY <3>3 DEF Reads
      <3> HIDE DEF r
      <3>5. ObserveDiskChange(doc, job.revision, r.disk) \in Documents
        BY <1>1, <3>4, ObservedIsDocument DEF Good
      <3> QED
        BY <3>1, <3>5 DEF NoDocumentIsNone
    <2> QED
      BY <2>2, <2>3, <2>4
  <1>7. ~RecoveryLoaded(job)
    <2> SUFFICES ASSUME RecoveryLoaded(job)
                 PROVE  FALSE
      OBVIOUS
    <2>1. job \in LoadJobs /\ job.result # None
      BY <1>1, KindOf DEF RecoveryLoaded, Answered
    <2>2. job.result \in Texts
      BY <2>1 DEF LoadJobs
    <2>3. RestoreRecovery(doc, job.result) \in Documents
      BY <1>1, <2>2, RestoredIsDocument DEF Good
    <2> QED
      BY <2>3 DEF RecoveryLoaded, NoDocumentIsNone
  <1>8. ~RecoveryDue(job) /\ ~RecoveryDeleted(job)
    BY DEF RecoveryDue, RecoveryDeleted, app
  <1> QED
    BY <1>3, <1>4, <1>5, <1>6, <1>7, <1>8 DEF Answers

\* A document that is closed leaves nothing behind that was never on disk, but when it is
\* discarded or the workspace is opened again: a preview that gives way, a close that is not
\* asked about and a save that was to close it all find their text saved
\* (tabs.rs:262-294, 346-377; app.rs:3949-4011).
THEOREM ClosedIsSaved == ASSUME NoDocumentIsNone PROVE Spec => CloseLosesNothing
  <1>1. ASSUME EditorInv, [Next]_vars, doc # None, doc' = None
        PROVE  \/ doc.text \in onDisk \cup {Empty} \/ doc.readOnly \/ readOnlySaved
               \/ CloseWithout("Discard")
               \/ \E crash \in BOOLEAN : WorkspaceOpened(crash)
    <2>1. CASE Messages
      BY <1>1, <2>1, MessagesClose
    <2>2. ASSUME NEW job \in jobs, Work(job) \/ Answers(job)
          PROVE  doc.text \in onDisk \/ readOnlySaved
      BY <1>1, <2>2, AnswersClose
    <2>3. ASSUME NEW contents \in Texts \cup {Missing}, ExternalWrite(contents)
          PROVE  FALSE
      BY <1>1, <2>3 DEF ExternalWrite, app
    <2>4. CASE UNCHANGED vars
      BY <1>1, <2>4 DEF vars
    <2> QED
      BY <1>1, <2>1, <2>2, <2>3, <2>4 DEF Next
  <1>2. EditorInv /\ [Next]_vars =>
          [doc # None /\ doc' = None =>
             \/ doc.text \in onDisk \cup {Empty} \/ doc.readOnly \/ readOnlySaved
             \/ CloseWithout("Discard")
             \/ \E crash \in BOOLEAN : WorkspaceOpened(crash)]_vars
    BY <1>1
  <1> QED
    BY EditorHolds, <1>2, PTL DEF Spec, CloseLosesNothing

-----------------------------------------------------------------------------
(* The sessions: the inductive invariant.                                   *)

Links == 1..MaxLinks
Connections ==
    [id : Nat, place : Sessions!Places, link : Links \cup {None}, instance : Nat]
AnyConnection == Connections \cup {None}
Catalogs == [instance : Nat, revision : Nat, panes : SUBSET Panes]
AnyCatalog == Catalogs \cup {None}
Screens == UNION {[shown -> Nat] : shown \in SUBSET Panes}
Clients ==
    [health : Sessions!Healths, inFlight : BOOLEAN, connection : Connections \cup {None},
     instance : Nat \cup {None}, catalog : Catalogs \cup {None}, screens : Screens,
     resync : Seq(Panes)]
Tags == {"ordinary", "snapshot", "detach", "migration"}
AllSurfaces ==
    [client : Clients, backend : Links \cup {None}, remote : BOOLEAN, pending : Tags \cup {None},
     selected : Panes \cup {None}, plan : BOOLEAN]
Services ==
    [up : BOOLEAN, instance : Nat, revision : Nat, panes : SUBSET Panes, given : SUBSET Panes,
     controller : Nat \cup {None}]
Bodies == {"catalog", "detach", "snapshot", "import", "act", "change"}
AnyBody == Bodies \cup {"attach", "reconnect"}
AnyPane == Panes \cup {None}
JobKinds == {"connect", "request"}
Results == {"ok", "refused", "lost", "catalog", "detached", "screen", "done"}
ClientJobs ==
    [kind : {"connect", "request"}, body : Bodies \cup {"attach", "reconnect"},
     connection : Connections \cup {None}, pane : Panes \cup {None}, era : Nat,
     place : Sessions!Places, link : Links \cup {None}, revision : Nat,
     result : {"running", "ok", "refused", "lost", "catalog", "detached", "screen", "done"},
     catalog : Catalogs \cup {None}]

\* None is none of the values that stand beside it.
NoneIsNothing == None \notin Nat \cup Connections \cup Catalogs \cup Tags

\* What a job is asked to do, and what it has to bring an answer with.
JobIsFormed(j) ==
    \/ /\ j.kind = "connect"
       /\ j.body \in {"attach", "reconnect"}
       /\ j.result \in {"running", "ok", "refused"}
       /\ j.result = "ok" => j.connection # None /\ j.catalog # None
    \/ /\ j.kind = "request"
       /\ j.body \in Bodies
       /\ j.connection # None
       /\ j.result # "ok"
       /\ j.body = "snapshot" => j.pane \in Panes
       /\ j.result = "screen" => j.body = "snapshot"
       /\ j.result = "catalog" => j.catalog # None

SurfacesTyped ==
    /\ surfaces \in AllSurfaces
    /\ surfaces.remote = (surfaces.backend # None)
    /\ workspace \in [terminal : BOOLEAN, migrated : BOOLEAN]
    /\ connecting \in BOOLEAN
    /\ runtime \in Links \cup {None}
    /\ era \in Nat
    /\ misapplied \in BOOLEAN

JobsTyped ==
    /\ IsFiniteSet(clientJobs)
    /\ clientJobs \subseteq ClientJobs
    /\ \A j \in clientJobs : JobIsFormed(j) /\ j.era <= era

HostsTyped ==
    /\ DOMAIN links \subseteq Links
    /\ links \in [DOMAIN links -> Clients]
    /\ services \in [Sessions!Places -> Services]
    /\ started \in 0..MaxInstances

TypeInv == SurfacesTyped /\ JobsTyped /\ HostsTyped

\* A client is of one instance: the one its catalog, its connection and its screens come
\* from. It is in flight only while it connects or is ready, and a ready one that is not
\* holds a connection.
OfOneInstance(c) ==
    /\ c.instance # None => c.catalog # None /\ c.catalog.instance = c.instance
    /\ c.health = "Ready" =>
         /\ c.catalog # None
         /\ c.connection # None => c.connection.instance = c.catalog.instance
         /\ ~c.inFlight => c.connection # None
    /\ c.inFlight => c.health \in {"Connecting", "Ready"}
    /\ \A p \in DOMAIN c.screens :
         p \in Sessions!PanesOf(c.catalog) /\ c.screens[p] = c.catalog.instance

\* A pane that was there and is not comes back in no catalog.
Gone(p, place) == p \in services[place].given /\ p \notin services[place].panes

\* What the services have and gave out: no catalog has a pane they did not give out. The
\* client of a helper is never left in flight.
HostsInv ==
    /\ \A place \in Sessions!Places : services[place].panes \subseteq services[place].given
    /\ \A j \in clientJobs :
         Sessions!PanesOf(j.catalog) \subseteq services[j.place].given
    /\ \A l \in DOMAIN links :
         /\ OfOneInstance(links[l])
         /\ ~links[l].inFlight
         /\ Sessions!PanesOf(links[l].catalog) \subseteq services["remote"].given

Current(j) == j.era = era

\* What is in flight is one job of this era.
FlightInv(s, pool) ==
    /\ s.client.inFlight <=> \E j \in pool : Current(j)
    /\ \A i, j \in pool : Current(i) /\ Current(j) => i = j

\* Surfaces show one service, and wait to show the screens of panes that its catalog has or
\* that are gone.
PlaceOf(s) == IF s.remote THEN "remote" ELSE "local"

ShownInv(s) ==
    /\ OfOneInstance(s.client)
    /\ s.client.connection # None => s.client.connection.link = s.backend
    /\ s.selected # None => s.selected \in Sessions!PanesOf(s.client.catalog)
    /\ Sessions!PanesOf(s.client.catalog) \subseteq services[PlaceOf(s)].given
    /\ \A i \in 1..Len(s.client.resync) :
         LET p == s.client.resync[i] IN
         p \in Sessions!PanesOf(s.client.catalog) \/ Gone(p, PlaceOf(s))

\* A job of this era answers the client that is shown.
AnswersShown(s, j) ==
    /\ j.link = s.backend
    /\ j.place = PlaceOf(s)
    /\ j.kind = "connect" =>
         /\ s.client.health = "Connecting"
         /\ j.result = "ok" => j.connection.link = j.link /\ j.connection.instance = j.catalog.instance
    /\ j.kind = "request" =>
         /\ s.client.health = "Ready"
         /\ s.pending # None
         /\ j.connection.link = j.link
         /\ j.connection.instance = s.client.catalog.instance
         /\ j.result = "catalog" =>
              /\ j.catalog.instance = j.connection.instance
              /\ \A i \in 1..Len(s.client.resync) :
                   LET p == s.client.resync[i] IN
                   p \in j.catalog.panes \/ Gone(p, PlaceOf(s))
         /\ j.body = "snapshot" =>
              \/ j.pane \in Sessions!PanesOf(s.client.catalog)
              \/ j.result # "screen" /\ Gone(j.pane, PlaceOf(s))

\* The client of a helper, asked over the link of the surfaces, is of the instance it is
\* asked about: nothing else connects it again.
HelperIs(s, instance) ==
    s.backend \in DOMAIN links /\ Sessions!CanRequest(links[s.backend])
      => links[s.backend].connection.instance = instance

LinkInv(s, pool) ==
    /\ runtime # None => s.backend = runtime
    /\ s.remote /\ s.client.health = "Ready" => HelperIs(s, s.client.catalog.instance)
    /\ \A j \in pool :
         s.remote /\ Current(j) /\ j.kind = "connect" /\ j.result = "ok"
           => HelperIs(s, j.connection.instance)
    /\ s.remote /\ (runtime # None \/ s.client.health \notin {"Stale", "Failed"})
         => \A j \in pool :
              ~Current(j) /\ j.kind = "connect" /\ j.result = "running" => j.link # s.backend

Waits == surfaces.pending # None => \E j \in clientJobs : j.kind = "request"

AppliedTo(s, pool) ==
    /\ ShownInv(s)
    /\ FlightInv(s, pool)
    /\ \A j \in pool : Current(j) => AnswersShown(s, j)
    /\ LinkInv(s, pool)

SessionsInv == TypeInv /\ HostsInv /\ Waits /\ (misapplied \/ AppliedTo(surfaces, clientJobs))

-----------------------------------------------------------------------------
(* Numbers that are free, and queues.                                       *)

\* A number that nothing uses is found for a new connection and a new link.
LEMMA FreshFacts ==
    ASSUME NEW numbers, IsFiniteSet(numbers)
    PROVE  Sessions!Fresh(numbers) \in Nat \ {0} /\ Sessions!Fresh(numbers) \notin numbers
  <1> DEFINE size == Cardinality(numbers)
             free == {n \in Nat : n # 0 /\ n \notin numbers}
  <1>1. size \in Nat /\ Sessions!Cardinality(numbers) = size
    BY FS_CardinalityType DEF Sessions!Cardinality, Cardinality
  <1>2. PICK k \in 1..(size + 1) : k \notin numbers
    <2>1. SUFFICES ASSUME 1..(size + 1) \subseteq numbers PROVE FALSE
      OBVIOUS
    <2>2. Cardinality(1..(size + 1)) = size + 1
      BY <1>1, FS_Interval
    <2>3. Cardinality(1..(size + 1)) <= size
      BY <2>1, FS_Subset
    <2> QED
      BY <1>1, <2>2, <2>3
  <1>3. free \subseteq Nat /\ free # {}
    BY <1>1, <1>2
  <1>4. PICK n \in free : \A m \in free : <<m, n>> \notin OpToRel(<, Nat)
    BY <1>3, NatLessThanWellFounded, WFMin
  <1>5. \A m \in free : ~(m < n)
    BY <1>4 DEF OpToRel
  <1>6. n \in 1..(size + 1) /\ n \notin numbers /\ 1..(n - 1) \subseteq numbers
    BY <1>1, <1>2, <1>5
  <1>7. \E i \in 1..(Sessions!Cardinality(numbers) + 1) :
          i \notin numbers /\ 1..(i - 1) \subseteq numbers
    BY <1>1, <1>6
  <1> QED
    BY <1>1, <1>7 DEF Sessions!Fresh

\* A queue of panes holds the panes it was made from.
LEMMA QueueFacts ==
    ASSUME NEW S, S \subseteq Panes, IsFiniteSet(Panes)
    PROVE  /\ Sessions!SetToSeq(S) \in Seq(Panes)
           /\ \A i \in 1..Len(Sessions!SetToSeq(S)) : Sessions!SetToSeq(S)[i] \in S
  <1>1. IsFiniteSet(S)
    BY FS_Subset
  <1>2. Cardinality(S) \in Nat /\ Sessions!Cardinality(S) = Cardinality(S)
    BY <1>1, FS_CardinalityType DEF Sessions!Cardinality, Cardinality
  <1>3. \E f \in [1..Sessions!Cardinality(S) -> S] : Sessions!IsInjective(f)
    BY <1>1, <1>2, FS_CardinalityType DEF ExistsBijection, Bijection, Injection, IsInjective, Sessions!IsInjective
  <1>4. Sessions!SetToSeq(S) \in [1..Cardinality(S) -> S]
    BY <1>2, <1>3 DEF Sessions!SetToSeq
  <1> QED
    BY <1>2, <1>4

-----------------------------------------------------------------------------
(* What the operations of a client return.                                  *)

\* The screens of a client are of panes and are represented by instances.
LEMMA ScreenFacts ==
    /\ \A f \in Screens :
         DOMAIN f \subseteq Panes /\ f = [p \in DOMAIN f |-> f[p]] /\ \A p \in DOMAIN f : f[p] \in Nat
    /\ \A shown \in SUBSET Panes : \A f \in [shown -> Nat] : f \in Screens
    /\ Sessions!NoScreens \in Screens /\ DOMAIN Sessions!NoScreens = {}
  BY DEF Screens, Sessions!NoScreens

\* Retain keeps screens as they are.
LEMMA RetainFacts ==
    ASSUME NEW f \in Screens, NEW panes \in SUBSET Panes
    PROVE  /\ Sessions!Retain(f, panes) \in Screens
           /\ DOMAIN Sessions!Retain(f, panes) = DOMAIN f \cap panes
           /\ \A p \in DOMAIN f \cap panes : Sessions!Retain(f, panes)[p] = f[p]
  <1>1. DOMAIN f \cap panes \in SUBSET Panes
    BY ScreenFacts
  <1>2. Sessions!Retain(f, panes) \in [DOMAIN f \cap panes -> Nat]
    BY ScreenFacts DEF Sessions!Retain
  <1> QED
    BY <1>1, <1>2, ScreenFacts DEF Sessions!Retain

\* A client that is new is of no instance.
LEMMA NewClientFacts ==
    /\ Sessions!NewClient \in Clients
    /\ OfOneInstance(Sessions!NewClient)
    /\ Sessions!NewClient.health = "Stopped" /\ ~Sessions!NewClient.inFlight
    /\ Sessions!NewClient.connection = None
    /\ Sessions!NewClient.catalog = None /\ Sessions!NewClient.resync = <<>>
    /\ Sessions!PanesOf(Sessions!NewClient.catalog) = {}
  BY ScreenFacts DEF Sessions!NewClient, Clients, Sessions!Healths, OfOneInstance, Sessions!PanesOf

\* The operations that touch neither the catalog nor the screens.
LEMMA PlainFacts ==
    ASSUME NEW c \in Clients
    PROVE  /\ Sessions!MarkTransportLost(c) \in Clients
           /\ Sessions!ConnectFailed(c) \in Clients
           /\ Sessions!BeginConnect(c) \in Clients
           /\ Sessions!BeginRequest(c) \in Clients
           /\ Sessions!RebindBackend(c) \in Clients
  BY DEF Clients, Sessions!Healths, Sessions!MarkTransportLost, Sessions!ConnectFailed,
         Sessions!BeginConnect, Sessions!BeginRequest, Sessions!RebindBackend, Sessions!Unreached

\* They leave the client of the instance it was of.
LEMMA PlainKeeps ==
    ASSUME NEW c \in Clients, OfOneInstance(c)
    PROVE  /\ OfOneInstance(Sessions!MarkTransportLost(c))
           /\ OfOneInstance(Sessions!ConnectFailed(c))
           /\ OfOneInstance(Sessions!BeginConnect(c))
           /\ c.health = "Ready" => OfOneInstance(Sessions!BeginRequest(c))
           /\ ~c.inFlight => OfOneInstance(Sessions!RebindBackend(c))
  BY DEF Clients, Sessions!Healths, Sessions!MarkTransportLost, Sessions!ConnectFailed,
         Sessions!BeginConnect, Sessions!BeginRequest, Sessions!RebindBackend, Sessions!Unreached,
         OfOneInstance

\* A client that connects takes the catalog and, of the screens it had, those of panes the
\* catalog has, if it is of the same instance; a reconnection queues them.
LEMMA ConnectedFacts ==
    ASSUME NoneIsNothing, IsFiniteSet(Panes),
           NEW c \in Clients, NEW intent, NEW connection \in Connections, NEW catalog \in Catalogs,
           NEW d, d = Sessions!Connected(c, intent, connection, catalog)
    PROVE  /\ d \in Clients
           /\ d.health = "Ready" /\ ~d.inFlight
           /\ d.connection = connection /\ d.catalog = catalog
           /\ \A i \in 1..Len(d.resync) : d.resync[i] \in catalog.panes
           /\ OfOneInstance(c) /\ connection.instance = catalog.instance => OfOneInstance(d)
  <1> DEFINE same == c.instance = catalog.instance
             kept == IF same THEN Sessions!Retain(c.screens, catalog.panes) ELSE Sessions!NoScreens
             queue == IF intent = "reconnect" /\ same
                      THEN Sessions!SetToSeq(DOMAIN kept) ELSE <<>>
  <1>1. c.screens \in Screens /\ catalog.panes \in SUBSET Panes /\ catalog.instance \in Nat
    BY DEF Clients, Catalogs
  <1>2. kept \in Screens /\ DOMAIN kept \subseteq catalog.panes
    BY <1>1, RetainFacts, ScreenFacts
  <1>3. queue \in Seq(Panes) /\ \A i \in 1..Len(queue) : queue[i] \in catalog.panes
    <2>1. CASE intent = "reconnect" /\ same
      BY <1>1, <1>2, <2>1, QueueFacts
    <2>2. CASE ~(intent = "reconnect" /\ same)
      BY <2>2
    <2> QED
      BY <2>1, <2>2
  <1>4. OfOneInstance(c) => \A p \in DOMAIN kept : kept[p] = catalog.instance
    <2>1. CASE same
      <3>1. /\ DOMAIN kept = DOMAIN c.screens \cap catalog.panes
            /\ \A p \in DOMAIN kept : kept[p] = c.screens[p]
        BY <1>1, <2>1, RetainFacts
      <3>2. c.instance # None
        BY <1>1, <2>1 DEF NoneIsNothing
      <3> HIDE DEF kept
      <3> QED
        BY <2>1, <3>1, <3>2 DEF OfOneInstance
    <2>2. CASE ~same
      BY <2>2, ScreenFacts
    <2> QED
      BY <2>1, <2>2
  <1> HIDE DEF kept, queue
  <1>5. d = [c EXCEPT !.inFlight = FALSE, !.connection = connection, !.catalog = catalog,
                      !.instance = catalog.instance, !.health = "Ready", !.screens = kept,
                      !.resync = queue]
    BY DEF Sessions!Connected, kept, queue
  <1>6. d \in Clients
    BY <1>1, <1>2, <1>3, <1>5 DEF Clients, Sessions!Healths
  <1>7. /\ d.health = "Ready" /\ ~d.inFlight /\ d.connection = connection /\ d.catalog = catalog
        /\ d.instance = catalog.instance /\ d.screens = kept /\ d.resync = queue
    BY <1>5 DEF Clients
  <1>8. catalog # None /\ connection # None
    BY DEF NoneIsNothing
  <1>9. OfOneInstance(c) /\ connection.instance = catalog.instance => OfOneInstance(d)
    <2>1. Sessions!PanesOf(d.catalog) = catalog.panes
      BY <1>7, <1>8 DEF Sessions!PanesOf
    <2> QED
      BY <1>2, <1>4, <1>7, <1>8, <2>1 DEF OfOneInstance
  <1> QED
    BY <1>3, <1>6, <1>7, <1>9

\* An answer leaves a client typed, and with the connection, the health and the catalog that
\* go with it; nothing but a catalog of the same instance changes what is shown.
LEMMA FinishFacts ==
    ASSUME NoneIsNothing, NEW c \in Clients, NEW connection \in Connections, NEW result,
           NEW catalog, result = "catalog" => catalog \in Catalogs
    PROVE  LET d == Sessions!FinishRequest(c, connection, result, catalog)
               changes == result = "catalog" /\ catalog.instance = connection.instance
               fails == result = "lost" \/ (result = "catalog" /\ ~changes)
           IN /\ d \in Clients
              /\ ~d.inFlight
              /\ fails => d = Sessions!MarkTransportLost(c)
              /\ ~fails /\ result # "detached" => d.connection = connection /\ d.health = c.health
              /\ result = "detached" => d.connection = None /\ d.health = "Stopped"
              /\ d.catalog = IF changes THEN catalog ELSE c.catalog
              /\ d.resync = c.resync
              /\ OfOneInstance(c) /\ c.catalog # None
                   /\ connection.instance = c.catalog.instance
                   /\ c.health = "Ready" => OfOneInstance(d)
  <1> DEFINE d == Sessions!FinishRequest(c, connection, result, catalog)
             changes == result = "catalog" /\ catalog.instance = connection.instance
             fails == result = "lost" \/ (result = "catalog" /\ ~changes)
             kept == Sessions!Retain(c.screens, catalog.panes)
  <1>1. CASE fails
    <2>1. d = Sessions!MarkTransportLost(c)
      BY <1>1 DEF Sessions!FinishRequest
    <2>2. d \in Clients /\ ~d.inFlight /\ d.catalog = c.catalog /\ d.resync = c.resync
      BY <2>1, PlainFacts DEF Sessions!MarkTransportLost, Clients
    <2> QED
      BY <1>1, <2>1, <2>2, PlainKeeps
  <1>2. CASE result = "detached"
    <2>1. d = [c EXCEPT !.inFlight = FALSE, !.connection = None, !.instance = None,
                        !.health = "Stopped"]
      BY <1>2 DEF Sessions!FinishRequest
    <2>2. /\ d \in Clients /\ ~d.inFlight /\ d.connection = None /\ d.health = "Stopped"
          /\ d.instance = None /\ d.catalog = c.catalog /\ d.resync = c.resync
          /\ d.screens = c.screens
      BY <2>1 DEF Clients, Sessions!Healths
    <2>3. OfOneInstance(c) => OfOneInstance(d)
      <3> HIDE DEF d
      <3> QED
        BY <2>2 DEF OfOneInstance
    <2> QED
      BY <1>2, <2>2, <2>3
  <1>3. CASE changes
    <2>1. c.screens \in Screens /\ catalog.panes \in SUBSET Panes /\ catalog.instance \in Nat
      BY <1>3 DEF Clients, Catalogs
    <2>2. kept \in Screens /\ DOMAIN kept \subseteq catalog.panes
          /\ \A p \in DOMAIN kept : p \in DOMAIN c.screens /\ kept[p] = c.screens[p]
      <3>1. /\ kept \in Screens /\ DOMAIN kept = DOMAIN c.screens \cap catalog.panes
            /\ \A p \in DOMAIN c.screens \cap catalog.panes : kept[p] = c.screens[p]
        BY <2>1, RetainFacts
      <3> HIDE DEF kept
      <3> QED
        BY <3>1
    <2> HIDE DEF kept
    <2>3. d = [c EXCEPT !.inFlight = FALSE, !.connection = connection, !.catalog = catalog,
                        !.instance = catalog.instance, !.screens = kept]
      BY <1>3 DEF Sessions!FinishRequest, kept
    <2>4. d \in Clients
      BY <1>3, <2>1, <2>2, <2>3 DEF Clients
    <2>5. /\ d.health = c.health /\ ~d.inFlight /\ d.connection = connection
          /\ d.catalog = catalog /\ d.instance = catalog.instance /\ d.screens = kept
          /\ d.resync = c.resync
      BY <2>3 DEF Clients
    <2>6. catalog # None
      BY <1>3 DEF NoneIsNothing
    <2>7. OfOneInstance(c) /\ c.catalog # None /\ connection.instance = c.catalog.instance
            /\ c.health = "Ready" => OfOneInstance(d)
      BY <1>3, <2>2, <2>5, <2>6 DEF OfOneInstance, Sessions!PanesOf, NoneIsNothing
    <2> QED
      BY <1>3, <2>4, <2>5, <2>7
  <1>4. CASE ~fails /\ result # "detached" /\ ~changes
    <2>1. d = [c EXCEPT !.inFlight = FALSE, !.connection = connection]
      BY <1>4 DEF Sessions!FinishRequest
    <2> QED
      BY <1>4, <2>1 DEF Clients, OfOneInstance, NoneIsNothing
  <1> QED
    BY <1>1, <1>2, <1>3, <1>4

\* A screen is put down under its pane and changes nothing else.
LEMMA SnapshotFacts ==
    ASSUME NEW c \in Clients, NEW pane \in Panes, NEW instance \in Nat
    PROVE  LET d == Sessions!ApplySnapshot(c, pane, instance) IN
           /\ d \in Clients
           /\ d.health = c.health /\ d.inFlight = c.inFlight /\ d.connection = c.connection
           /\ d.catalog = c.catalog /\ d.resync = c.resync
           /\ OfOneInstance(c) /\ pane \in Sessions!PanesOf(c.catalog)
                /\ instance = c.catalog.instance => OfOneInstance(d)
  <1> DEFINE shown == [p \in DOMAIN c.screens \cup {pane} |->
                         IF p = pane THEN instance ELSE c.screens[p]]
             d == Sessions!ApplySnapshot(c, pane, instance)
  <1>1. shown \in Screens
    <2>1. c.screens \in Screens
      BY DEF Clients
    <2>2. DOMAIN c.screens \cup {pane} \in SUBSET Panes
      BY <2>1, ScreenFacts
    <2>3. shown \in [DOMAIN c.screens \cup {pane} -> Nat]
      BY <2>1, ScreenFacts
    <2> QED
      BY <2>2, <2>3, ScreenFacts
  <1>2. /\ DOMAIN shown = DOMAIN c.screens \cup {pane}
        /\ \A p \in DOMAIN shown : shown[p] = IF p = pane THEN instance ELSE c.screens[p]
    OBVIOUS
  <1> HIDE DEF shown
  <1>3. d = [c EXCEPT !.screens = shown]
    BY DEF Sessions!ApplySnapshot, shown
  <1>4. d \in Clients
    BY <1>1, <1>3 DEF Clients
  <1>5. /\ d.health = c.health /\ d.inFlight = c.inFlight /\ d.connection = c.connection
        /\ d.catalog = c.catalog /\ d.resync = c.resync /\ d.instance = c.instance
        /\ d.screens = shown
    BY <1>3 DEF Clients
  <1>6. OfOneInstance(c) /\ pane \in Sessions!PanesOf(c.catalog)
          /\ instance = c.catalog.instance => OfOneInstance(d)
    BY <1>2, <1>5 DEF OfOneInstance
  <1> QED
    BY <1>4, <1>5, <1>6

-----------------------------------------------------------------------------
(* What services and jobs give.                                             *)

\* A service gives nothing out twice: what was there before may be taken away, and is not put
\* back.
Evolves(old, new) ==
    /\ old.given \subseteq new.given
    /\ new.panes \subseteq new.given
    /\ new.panes \cap old.given \subseteq old.panes

\* Whatever is asked, a service that answers is the one it was, and a screen that it answers
\* with is of a pane it has.
LEMMA ServedFacts ==
    ASSUME NEW service \in Services, service.panes \subseteq service.given, NEW body \in Bodies,
           NEW pane, NEW revision, NEW answer \in Sessions!Served(service, body, pane, revision)
    PROVE  /\ answer[1] \in Services
           /\ Evolves(service, answer[1])
           /\ answer[1].instance = service.instance
           /\ answer[2] \in {"catalog", "detached", "refused", "screen", "done"}
           /\ answer[2] = "screen" => body = "snapshot" /\ pane \in service.panes
  <1> DEFINE fresh == Panes \ service.given
             Goal == /\ answer[1] \in Services
                     /\ Evolves(service, answer[1])
                     /\ answer[1].instance = service.instance
                     /\ answer[2] \in {"catalog", "detached", "refused", "screen", "done"}
                     /\ answer[2] = "screen" => body = "snapshot" /\ pane \in service.panes
  <1>1. ASSUME NEW panes \in SUBSET Panes, panes \cap service.given \subseteq service.panes,
               NEW result \in {"catalog", "done"},
               answer = <<[service EXCEPT !.panes = panes, !.given = service.given \cup panes,
                                          !.revision = service.revision + 1], result>>
        PROVE  Goal
    <2> DEFINE new == answer[1]
               given == service.given \cup panes
               next == service.revision + 1
    <2>0. given \in SUBSET Panes /\ next \in Nat
      BY DEF Services
    <2> HIDE DEF next, given
    <2>3. new = [service EXCEPT !.panes = panes, !.given = given, !.revision = next]
          /\ answer[2] = result
      BY <1>1 DEF given, next
    <2>1. /\ new \in Services /\ new.panes = panes /\ new.given = given
          /\ new.instance = service.instance
      BY <2>0, <2>3 DEF Services
    <2> HIDE DEF new
    <2>2. Evolves(service, new)
      BY <1>1, <2>1 DEF Evolves, given
    <2> QED
      BY <2>1, <2>2, <2>3 DEF new
  <1>2. ASSUME NEW result \in {"refused", "catalog", "done"}, answer = <<service, result>>
        PROVE  Goal
    BY <1>2 DEF Evolves
  <1>3. CASE body = "catalog"
    BY <1>2, <1>3 DEF Sessions!Served
  <1>4. CASE body = "detach"
    <2>1. answer = <<[service EXCEPT !.controller = None], "detached">>
      BY <1>4 DEF Sessions!Served
    <2> QED
      BY <2>1 DEF Services, Evolves
  <1>5. CASE body = "snapshot"
    <2>1. \/ answer = <<service, "refused">>
          \/ answer = <<service, "screen">> /\ pane \in service.panes
      BY <1>5 DEF Sessions!Served
    <2> QED
      BY <1>5, <2>1 DEF Evolves
  <1>6. CASE body = "import"
    <2>1. CASE answer = <<service, "refused">>
      BY <1>2, <2>1
    <2>2. CASE answer # <<service, "refused">>
      <3>1. PICK p \in fresh :
              answer = <<[service EXCEPT !.panes = {p}, !.given = service.given \cup {p},
                                         !.revision = service.revision + 1], "catalog">>
        BY <1>6, <2>2 DEF Sessions!Served
      <3> QED
        BY <1>1, <3>1
    <2> QED
      BY <2>1, <2>2
  <1>7. CASE body = "act"
    <2>1. CASE answer = <<service, "refused">> \/ answer = <<service, "done">>
      BY <1>2, <2>1
    <2>2. CASE answer # <<service, "refused">> /\ answer # <<service, "done">>
      <3> DEFINE panes(p) == service.panes \cup {p}
      <3>1. PICK p \in fresh :
              answer = <<[service EXCEPT !.panes = panes(p),
                                         !.given = service.given \cup panes(p),
                                         !.revision = service.revision + 1], "done">>
        BY <1>7, <2>2 DEF Sessions!Served
      <3>2. panes(p) \in SUBSET Panes /\ panes(p) \cap service.given \subseteq service.panes
        BY <3>1 DEF Services
      <3> QED
        BY <1>1, <3>1, <3>2
    <2> QED
      BY <2>1, <2>2
  <1>8. CASE body = "change"
    <2>1. CASE answer = <<service, "refused">>
      BY <1>2, <2>1
    <2>2. CASE answer # <<service, "refused">>
      <3>1. PICK panes \in SUBSET service.panes :
              answer = <<[service EXCEPT !.panes = panes, !.given = service.given \cup panes,
                                         !.revision = service.revision + 1], "catalog">>
        BY <1>8, <2>2 DEF Sessions!Served
      <3>2. panes \in SUBSET Panes
        BY <3>1 DEF Services
      <3> QED
        BY <1>1, <3>1, <3>2
    <2> QED
      BY <2>1, <2>2
  <1> QED
    BY <1>3, <1>4, <1>5, <1>6, <1>7, <1>8 DEF Bodies

\* A snapshot of a service is a catalog.
LEMMA CatalogFacts ==
    ASSUME NEW service \in Services
    PROVE  /\ Sessions!Snapshot(service) \in Catalogs
           /\ Sessions!Snapshot(service).instance = service.instance
           /\ Sessions!Snapshot(service).panes = service.panes
           /\ NoneIsNothing => /\ Sessions!Snapshot(service) # None
                               /\ Sessions!PanesOf(Sessions!Snapshot(service)) = service.panes
           /\ service.panes \subseteq service.given => Evolves(service, service)
  BY DEF Services, Catalogs, Sessions!Snapshot, NoneIsNothing, Sessions!PanesOf, Evolves

\* A service that starts, or gives control, has what it had.
LEMMA ServiceFacts ==
    ASSUME HostsTyped, NEW service \in Services, service.panes \subseteq service.given
    PROVE  /\ LET new == Sessions!Launch(service) IN
              new \in Services /\ Evolves(service, new) /\ new.panes = service.panes
                /\ new.given = service.given
           /\ \A c \in Nat \cup {None} :
                LET new == [service EXCEPT !.controller = c] IN
                new \in Services /\ Evolves(service, new) /\ new.panes = service.panes
                  /\ new.given = service.given /\ new.instance = service.instance
  <1>1. started \in Nat
    BY SessionsAssumption DEF HostsTyped
  <1>2. LET new == Sessions!Launch(service) IN
        new \in Services /\ new.panes = service.panes /\ new.given = service.given
    <2> DEFINE number == started + 1
    <2>1. number \in Nat
      BY <1>1
    <2>2. Sessions!Launch(service) = [service EXCEPT !.up = TRUE, !.instance = number]
      BY DEF Sessions!Launch
    <2> HIDE DEF number
    <2> QED
      BY <2>1, <2>2 DEF Services
  <1>3. \A c \in Nat \cup {None} :
          LET new == [service EXCEPT !.controller = c] IN
          new \in Services /\ new.panes = service.panes /\ new.given = service.given
            /\ new.instance = service.instance
    BY DEF Services
  <1>4. \A new : new.panes = service.panes /\ new.given = service.given => Evolves(service, new)
    BY DEF Evolves
  <1> QED
    BY <1>2, <1>3, <1>4

\* A job that is begun says what it is for, and by which surfaces.
LEMMA JobFacts ==
    ASSUME SurfacesTyped, NEW kind \in JobKinds, NEW body \in AnyBody,
           NEW connection \in AnyConnection, NEW pane \in AnyPane, NEW j,
           \/ j = Sessions!Job(kind, body, connection, pane)
           \/ \E r \in Nat : j = [Sessions!Job(kind, body, connection, pane) EXCEPT !.revision = r]
    PROVE  /\ j \in ClientJobs
           /\ j.kind = kind /\ j.body = body /\ j.connection = connection /\ j.pane = pane
           /\ j.era = era /\ j.place = PlaceOf(surfaces) /\ j.link = surfaces.backend
           /\ j.result = "running" /\ j.catalog = None
  <1>1. PlaceOf(surfaces) \in Sessions!Places
    BY DEF PlaceOf, Sessions!Places
  <1>2. surfaces.backend \in Links \cup {None} /\ era \in Nat
    BY DEF SurfacesTyped, AllSurfaces
  <1>3. Sessions!Revision(surfaces.client) \in Nat
    <2>1. surfaces.client.catalog \in Catalogs \cup {None}
      BY DEF SurfacesTyped, AllSurfaces, Clients
    <2> QED
      BY <2>1 DEF Sessions!Revision, Catalogs
  <1> QED
    BY <1>1, <1>2, <1>3
       DEF Sessions!Job, ClientJobs, Sessions!Place, PlaceOf, JobKinds, AnyBody, AnyConnection, AnyPane

-----------------------------------------------------------------------------
(* Steps of the services.                                                   *)

\* The place the surfaces show is one of the two.
LEMMA PlaceFacts == PlaceOf(surfaces) \in Sessions!Places
  BY DEF PlaceOf, Sessions!Places

\* As services evolve, what is gone stays gone; so the surfaces and the answers on their way
\* keep what they have.
LEMMA EvolvesKeeps ==
    ASSUME UNCHANGED surfaces,
           \A place \in Sessions!Places : Evolves(services[place], services'[place])
    PROVE  /\ \A place \in Sessions!Places : \A p : Gone(p, place) => Gone(p, place)'
           /\ ShownInv(surfaces) => ShownInv(surfaces)'
           /\ \A j : AnswersShown(surfaces, j) => AnswersShown(surfaces, j)'
  <1>1. \A place \in Sessions!Places : \A p : Gone(p, place) => Gone(p, place)'
    BY DEF Evolves, Gone
  <1>2. PlaceOf(surfaces)' = PlaceOf(surfaces) /\ PlaceOf(surfaces) \in Sessions!Places
    BY PlaceFacts DEF PlaceOf
  <1>3. \A p : Gone(p, PlaceOf(surfaces)) => Gone(p, PlaceOf(surfaces))'
    BY <1>1, <1>2 DEF Gone
  <1>4. services[PlaceOf(surfaces)].given \subseteq (services[PlaceOf(surfaces)].given)'
    BY <1>2 DEF Evolves
  <1>5. ShownInv(surfaces) => ShownInv(surfaces)'
    BY <1>3, <1>4 DEF ShownInv
  <1>6. \A j : AnswersShown(surfaces, j) => AnswersShown(surfaces, j)'
    BY <1>2, <1>3 DEF AnswersShown
  <1> QED
    BY <1>1, <1>5, <1>6

\* Catalogs that were taken keep the panes they have among those given out.
LEMMA EvolvedHosts ==
    ASSUME JobsTyped, HostsInv, UNCHANGED <<clientJobs, links>>,
           \A place \in Sessions!Places : Evolves(services[place], services'[place])
    PROVE  HostsInv'
  <1>1. \A j \in clientJobs : j.place \in Sessions!Places
    BY DEF JobsTyped, ClientJobs
  <1>2. "remote" \in Sessions!Places
    BY DEF Sessions!Places
  <1>3. \A place \in Sessions!Places :
          /\ services[place].given \subseteq services'[place].given
          /\ services'[place].panes \subseteq services'[place].given
    BY DEF Evolves
  <1>4. (\A place \in Sessions!Places : services[place].panes \subseteq services[place].given)'
    BY <1>3
  <1>5. (\A j \in clientJobs : Sessions!PanesOf(j.catalog) \subseteq services[j.place].given)'
    BY <1>1, <1>3 DEF HostsInv
  <1>6. (\A l \in DOMAIN links :
           /\ OfOneInstance(links[l])
           /\ ~links[l].inFlight
           /\ Sessions!PanesOf(links[l].catalog) \subseteq services["remote"].given)'
    BY <1>2, <1>3 DEF HostsInv
  <1> QED
    BY <1>4, <1>5, <1>6 DEF HostsInv

\* A step of the services alone.
LEMMA ServicesStep ==
    ASSUME SessionsInv, UNCHANGED <<surfaces, workspace, connecting, runtime, clientJobs, links, era,
                                    misapplied>>,
           services' \in [Sessions!Places -> Services], started' \in 0..MaxInstances,
           \A place \in Sessions!Places : Evolves(services[place], services'[place])
    PROVE  SessionsInv'
  <1>1. TypeInv'
    BY DEF SessionsInv, TypeInv, SurfacesTyped, JobsTyped, HostsTyped
  <1>2. HostsInv'
    BY EvolvedHosts DEF SessionsInv, TypeInv
  <1>3. Waits'
    BY DEF SessionsInv, Waits
  <1>4. (misapplied \/ AppliedTo(surfaces, clientJobs))'
    <2>1. FlightInv(surfaces, clientJobs) => FlightInv(surfaces, clientJobs)'
      BY DEF FlightInv, Current
    <2>2. LinkInv(surfaces, clientJobs) => LinkInv(surfaces, clientJobs)'
      BY DEF LinkInv, Current, HelperIs
    <2>3. (\A j \in clientJobs : Current(j) => AnswersShown(surfaces, j)) =>
            (\A j \in clientJobs : Current(j) => AnswersShown(surfaces, j))'
      BY EvolvesKeeps DEF Current
    <2> QED
      BY <2>1, <2>2, <2>3, EvolvesKeeps DEF SessionsInv, AppliedTo
  <1> QED
    BY <1>1, <1>2, <1>3, <1>4 DEF SessionsInv

\* A service that loses its controller, ends or is started.
LEMMA ServiceActions ==
    ASSUME SessionsInv, NEW place \in Sessions!Places,
           Sessions!Disconnected(place) \/ Sessions!ServiceEnds(place) \/ Sessions!ServiceStarts(place)
    PROVE  SessionsInv'
  <1>1. /\ HostsTyped /\ services \in [Sessions!Places -> Services] /\ started \in 0..MaxInstances
        /\ \A q \in Sessions!Places : services[q].panes \subseteq services[q].given
    BY DEF SessionsInv, TypeInv, HostsTyped, HostsInv
  <1>2. \A q \in Sessions!Places : Evolves(services[q], services[q])
    BY <1>1, CatalogFacts
  <1>3. SUFFICES \E new \in Services :
          /\ Evolves(services[place], new)
          /\ services' = [services EXCEPT ![place] = new]
          /\ started' \in 0..MaxInstances
          /\ UNCHANGED <<surfaces, workspace, connecting, runtime, clientJobs, links, era, misapplied>>
    <2>1. \A q \in Sessions!Places : Evolves(services[q], services'[q])
      BY <1>1, <1>2, <1>3
    <2> QED
      BY <1>1, <1>3, <2>1, ServicesStep
  <1>4. CASE Sessions!Disconnected(place)
    BY <1>1, <1>4, ServiceFacts DEF Sessions!Disconnected, Sessions!app
  <1>5. CASE Sessions!ServiceEnds(place)
    <2> DEFINE new == [services[place] EXCEPT !.up = FALSE, !.controller = None]
    <2>1. new \in Services /\ new.panes = services[place].panes /\ new.given = services[place].given
      BY <1>1 DEF Services
    <2>2. Evolves(services[place], new)
      BY <1>1, <2>1 DEF Evolves
    <2> QED
      BY <1>1, <1>5, <2>1, <2>2 DEF Sessions!ServiceEnds, Sessions!app
  <1>6. CASE Sessions!ServiceStarts(place)
    <2>1. started' \in 0..MaxInstances
      BY <1>1, <1>6, SessionsAssumption DEF Sessions!ServiceStarts
    <2> QED
      BY <1>1, <1>6, <2>1, ServiceFacts DEF Sessions!ServiceStarts, Sessions!app
  <1> QED
    BY <1>4, <1>5, <1>6

-----------------------------------------------------------------------------
(* Jobs that run.                                                           *)

\* The numbers of the connections that are held are finitely many.
LEMMA HeldIsFinite ==
    ASSUME TypeInv, NEW place \in Sessions!Places
    PROVE  IsFiniteSet({c.id : c \in Sessions!Held(place)} \cup {services[place].controller})
  <1> DEFINE ofJobs == {j.connection : j \in clientJobs}
             ofLinks == {links[l].connection : l \in DOMAIN links}
             all == {surfaces.client.connection} \cup ofJobs \cup ofLinks
             held == Sessions!Held(place)
             ids == {c.id : c \in held}
  <1>1. IsFiniteSet(clientJobs) /\ IsFiniteSet(DOMAIN links)
    <2>1. IsFiniteSet(Links)
      BY FS_Interval, SessionsAssumption DEF Links
    <2> QED
      BY <2>1, FS_Subset DEF TypeInv, JobsTyped, HostsTyped
  <1>2. IsFiniteSet(ofJobs)
    <2>1. [j \in clientJobs |-> j.connection] \in Surjection(clientJobs, ofJobs)
      BY DEF Surjection
    <2> QED
      BY <1>1, <2>1, FS_Surjection
  <1>3. IsFiniteSet(ofLinks)
    <2>1. [l \in DOMAIN links |-> links[l].connection] \in Surjection(DOMAIN links, ofLinks)
      BY DEF Surjection
    <2> QED
      BY <1>1, <2>1, FS_Surjection
  <1>4. IsFiniteSet(all)
    BY <1>2, <1>3, FS_Union, FS_Singleton
  <1>5. IsFiniteSet(held)
    <2>1. held \in SUBSET all
      BY DEF Sessions!Held
    <2> QED
      BY <1>4, <2>1, FS_Subset
  <1>6. IsFiniteSet(ids)
    <2>1. [c \in held |-> c.id] \in Surjection(held, ids)
      BY DEF Surjection
    <2> QED
      BY <1>5, <2>1, FS_Surjection
  <1> QED
    BY <1>6, FS_Union, FS_Singleton

\* A new connection has a number of its own.
LEMMA NewConnectionFacts ==
    ASSUME TypeInv, NEW place \in Sessions!Places, NEW link \in Links \cup {None},
           NEW instance \in Nat
    PROVE  LET c == Sessions!NewConnection(place, link, instance)
               e == Sessions!Exchange(link, instance)
           IN /\ c \in Connections /\ c.instance = instance /\ c.link = link
              /\ e \in Connections /\ e.instance = instance /\ e.link = link
  <1>1. Sessions!Fresh({c.id : c \in Sessions!Held(place)} \cup {services[place].controller}) \in Nat
    BY HeldIsFinite, FreshFacts
  <1> QED
    BY <1>1 DEF Sessions!NewConnection, Sessions!Exchange, Connections, Sessions!Places

\* A job that has run says what it was for, and what came of it.
LEMMA DoneFacts ==
    ASSUME NEW job \in ClientJobs, NEW connection \in AnyConnection, NEW result \in Results,
           NEW catalog \in AnyCatalog
    PROVE  \E new \in ClientJobs :
             /\ Sessions!Done(job, connection, result, catalog) = (clientJobs \ {job}) \cup {new}
             /\ new.kind = job.kind /\ new.body = job.body /\ new.pane = job.pane
             /\ new.era = job.era /\ new.place = job.place /\ new.link = job.link
             /\ new.connection = connection /\ new.result = result /\ new.catalog = catalog
  <1> DEFINE new == [job EXCEPT !.connection = connection, !.result = result, !.catalog = catalog]
  <1>1. /\ new \in ClientJobs
        /\ new.kind = job.kind /\ new.body = job.body /\ new.pane = job.pane
        /\ new.era = job.era /\ new.place = job.place /\ new.link = job.link
        /\ new.connection = connection /\ new.result = result /\ new.catalog = catalog
    BY DEF ClientJobs, AnyConnection, AnyCatalog, Results
  <1>2. Sessions!Done(job, connection, result, catalog) = (clientJobs \ {job}) \cup {new}
    BY DEF Sessions!Done
  <1> HIDE DEF new
  <1> QED
    BY <1>1, <1>2

\* The helper that is asked stays the one it was, unless it is the one that connects.
LEMMA LinksStay ==
    ASSUME LinkInv(surfaces, clientJobs), UNCHANGED <<surfaces, runtime, era>>, NEW job \in clientJobs, NEW new,
           clientJobs' = (clientJobs \ {job}) \cup {new}, new.result # "running",
           surfaces.client.health = "Ready" => \A i : HelperIs(surfaces, i) => HelperIs(surfaces, i)',
           \A j \in clientJobs \ {job} :
             Current(j) /\ j.kind = "connect" => \A i : HelperIs(surfaces, i) => HelperIs(surfaces, i)',
           surfaces.remote /\ Current(new) /\ new.kind = "connect" /\ new.result = "ok"
             => HelperIs(surfaces, new.connection.instance)'
    PROVE  LinkInv(surfaces, clientJobs)'
  BY DEF LinkInv, Current

\* A job that has run leaves the invariant as it was.
LEMMA RunStep ==
    ASSUME SessionsInv, NEW job \in clientJobs, NEW new \in ClientJobs, JobIsFormed(new),
           new.kind = job.kind, new.era = job.era, new.result # "running",
           clientJobs' = (clientJobs \ {job}) \cup {new},
           UNCHANGED <<surfaces, workspace, connecting, runtime, era, misapplied>>,
           services' \in [Sessions!Places -> Services], started' \in 0..MaxInstances,
           \A place \in Sessions!Places : Evolves(services[place], services'[place]),
           DOMAIN links' = DOMAIN links, links' \in [DOMAIN links -> Clients],
           \A l \in DOMAIN links :
             /\ OfOneInstance(links'[l])
             /\ ~links'[l].inFlight
             /\ Sessions!PanesOf(links'[l].catalog) \subseteq services'["remote"].given,
           Sessions!PanesOf(new.catalog) \subseteq services'[new.place].given,
           ~misapplied /\ AppliedTo(surfaces, clientJobs) /\ Current(job) => AnswersShown(surfaces, new)',
           ~misapplied /\ AppliedTo(surfaces, clientJobs) => LinkInv(surfaces, clientJobs)'
    PROVE  SessionsInv'
  <1>1. TypeInv'
    <2>1. SurfacesTyped'
      BY DEF SessionsInv, TypeInv, SurfacesTyped
    <2>2. JobsTyped'
      <3>1. IsFiniteSet(clientJobs')
        BY FS_RemoveElement, FS_AddElement DEF SessionsInv, TypeInv, JobsTyped
      <3> QED
        BY <3>1 DEF SessionsInv, TypeInv, JobsTyped
    <2>3. HostsTyped'
      BY DEF SessionsInv, TypeInv, HostsTyped
    <2> QED
      BY <2>1, <2>2, <2>3 DEF TypeInv
  <1>2. HostsInv'
    <2>1. \A j \in clientJobs : j.place \in Sessions!Places
      BY DEF SessionsInv, TypeInv, JobsTyped, ClientJobs
    <2>2. \A place \in Sessions!Places :
            /\ services[place].given \subseteq services'[place].given
            /\ services'[place].panes \subseteq services'[place].given
      BY DEF Evolves
    <2>3. \A j \in clientJobs' : Sessions!PanesOf(j.catalog) \subseteq services'[j.place].given
      BY <2>1, <2>2 DEF SessionsInv, HostsInv
    <2> QED
      BY <2>2, <2>3 DEF HostsInv
  <1>3. Waits'
    BY DEF SessionsInv, Waits
  <1>4. ASSUME ~misapplied PROVE AppliedTo(surfaces, clientJobs)'
    <2>1. AppliedTo(surfaces, clientJobs)
      BY <1>4 DEF SessionsInv
    <2>2. FlightInv(surfaces, clientJobs)'
      BY <2>1 DEF AppliedTo, FlightInv, Current
    <2>3. \A j \in clientJobs' : j.era = era' => AnswersShown(surfaces, j)'
      BY <1>4, <2>1, EvolvesKeeps DEF AppliedTo, Current
    <2> QED
      BY <1>4, <2>1, <2>2, <2>3, EvolvesKeeps DEF AppliedTo, Current
  <1> QED
    BY <1>1, <1>2, <1>3, <1>4 DEF SessionsInv

\* A service that is asked for control, and started for it or not, has what it had.
LEMMA AttachFacts ==
    ASSUME HostsTyped, NEW service \in Services, service.panes \subseteq service.given,
           NEW target, target = service \/ target = Sessions!Launch(service)
    PROVE  /\ target \in Services /\ target.panes = service.panes /\ target.given = service.given
           /\ \A c \in Connections :
                LET answer == Sessions!Attaches(target, c) IN
                /\ answer[1] \in Services
                /\ Evolves(service, answer[1]) /\ answer[1].given = service.given
  <1>1. target \in Services /\ target.panes = service.panes /\ target.given = service.given
    BY ServiceFacts
  <1>2. ASSUME NEW new, NEW number \in Nat,
               new = target \/ new = [target EXCEPT !.controller = number]
        PROVE  new \in Services /\ Evolves(service, new) /\ new.given = service.given
    <2>1. new \in Services /\ new.panes = target.panes /\ new.given = target.given
      BY <1>1, <1>2 DEF Services
    <2> QED
      BY <1>1, <2>1 DEF Evolves
  <1>3. ASSUME NEW c \in Connections
        PROVE  \/ Sessions!Attaches(target, c)[1] = target
               \/ Sessions!Attaches(target, c)[1] = [target EXCEPT !.controller = c.id]
    BY DEF Sessions!Attaches
  <1>4. \A c \in Connections : c.id \in Nat
    BY DEF Connections
  <1> QED
    BY <1>1, <1>2, <1>3, <1>4

\* What the surfaces have, as a job sees it.
LEMMA HostFacts ==
    ASSUME SessionsInv
    PROVE  /\ HostsTyped /\ TypeInv
           /\ \A place \in Sessions!Places :
                /\ services[place] \in Services
                /\ services[place].panes \subseteq services[place].given
                /\ Evolves(services[place], services[place])
           /\ started \in Nat
           /\ \A j \in clientJobs : j \in ClientJobs /\ JobIsFormed(j)
           /\ \A l \in DOMAIN links :
                /\ links[l] \in Clients /\ l \in Links
                /\ OfOneInstance(links[l])
                /\ ~links[l].inFlight
                /\ Sessions!PanesOf(links[l].catalog) \subseteq services["remote"].given
           /\ {"local", "remote"} = Sessions!Places
  <1>1. HostsTyped /\ TypeInv /\ HostsInv
    BY DEF SessionsInv, TypeInv
  <1>2. \A place \in Sessions!Places :
          services[place] \in Services /\ services[place].panes \subseteq services[place].given
    BY <1>1 DEF HostsTyped, HostsInv
  <1> QED
    BY <1>1, <1>2, CatalogFacts, SessionsAssumption
       DEF HostsTyped, TypeInv, JobsTyped, HostsInv, Sessions!Places

\* An attempt to connect that is over leaves what it brought with the job. Only an attempt of
\* the surfaces that are shown connects the helper they ask.
LEMMA ConnectStep ==
    ASSUME NoneIsNothing, SessionsInv, NEW job \in clientJobs,
           job.kind = "connect", job.result = "running",
           NEW c \in AnyConnection, NEW result \in Results, NEW catalog \in AnyCatalog,
           result \in {"ok", "refused"},
           clientJobs' = Sessions!Done(job, c, result, catalog),
           UNCHANGED <<surfaces, workspace, connecting, runtime, era, misapplied>>,
           services' \in [Sessions!Places -> Services], started' \in 0..MaxInstances,
           \A place \in Sessions!Places : Evolves(services[place], services'[place]),
           DOMAIN links' = DOMAIN links, links' \in [DOMAIN links -> Clients],
           \A l \in DOMAIN links :
             /\ OfOneInstance(links'[l])
             /\ ~links'[l].inFlight
             /\ Sessions!PanesOf(links'[l].catalog) \subseteq services'["remote"].given
             /\ l # job.link => links'[l] = links[l],
           Sessions!PanesOf(catalog) \subseteq services'[job.place].given,
           result = "ok" => c # None /\ catalog # None /\ c.instance = catalog.instance,
           ~misapplied /\ AppliedTo(surfaces, clientJobs) /\ Current(job) /\ result = "ok" =>
             /\ c.link = job.link
             /\ surfaces.remote /\ job.link \in DOMAIN links /\ Sessions!CanRequest(links'[job.link])
                  => links'[job.link].connection.instance = c.instance
    PROVE  SessionsInv'
  <1>1. job \in ClientJobs /\ JobIsFormed(job) /\ job.place \in Sessions!Places
    BY HostFacts DEF ClientJobs
  <1>2. PICK new \in ClientJobs :
          /\ clientJobs' = (clientJobs \ {job}) \cup {new}
          /\ new.kind = job.kind /\ new.body = job.body /\ new.pane = job.pane
          /\ new.era = job.era /\ new.place = job.place /\ new.link = job.link
          /\ new.connection = c /\ new.result = result /\ new.catalog = catalog
    BY <1>1, DoneFacts
  <1>3. JobIsFormed(new) /\ new.result # "running"
    BY <1>1, <1>2 DEF JobIsFormed
  <1>4. ASSUME ~misapplied, AppliedTo(surfaces, clientJobs), Current(job)
        PROVE  AnswersShown(surfaces, new)' /\ job.link = surfaces.backend
    <2>1. AnswersShown(surfaces, job)
      BY <1>4 DEF AppliedTo
    <2>2. AnswersShown(surfaces, new)
      BY <1>2, <1>4, <2>1 DEF AnswersShown
    <2> QED
      BY <2>1, <2>2, EvolvesKeeps DEF AnswersShown
  <1>5. ASSUME ~misapplied, AppliedTo(surfaces, clientJobs) PROVE LinkInv(surfaces, clientJobs)'
    <2>1. ASSUME ~Current(job), surfaces.client.health \in {"Ready", "Connecting"}
          PROVE  \A i : HelperIs(surfaces, i) => HelperIs(surfaces, i)'
      <3>1. CASE surfaces.remote
        <4>1. job.link # surfaces.backend
          BY <1>5, <2>1, <3>1 DEF AppliedTo, LinkInv
        <4> QED
          BY <4>1 DEF HelperIs
      <3>2. CASE ~surfaces.remote
        <4>1. surfaces.backend = None /\ DOMAIN links \subseteq Links
          BY <3>2 DEF SessionsInv, TypeInv, SurfacesTyped, HostsTyped
        <4>2. None \notin Links
          BY SessionsAssumption DEF Links, NoneIsNothing
        <4> QED
          BY <4>1, <4>2 DEF HelperIs
      <3> QED
        BY <3>1, <3>2
    <2>2. surfaces.client.health = "Ready" => \A i : HelperIs(surfaces, i) => HelperIs(surfaces, i)'
      <3>1. surfaces.client.health = "Ready" => ~Current(job)
        BY <1>5 DEF AppliedTo, AnswersShown
      <3> QED
        BY <2>1, <3>1
    <2>3. \A j \in clientJobs \ {job} :
            Current(j) /\ j.kind = "connect" => \A i : HelperIs(surfaces, i) => HelperIs(surfaces, i)'
      <3>1. ASSUME NEW j \in clientJobs \ {job}, Current(j), j.kind = "connect"
            PROVE  ~Current(job) /\ surfaces.client.health = "Connecting"
        BY <1>5, <3>1 DEF AppliedTo, AnswersShown, FlightInv
      <3> QED
        BY <2>1, <3>1
    <2>4. surfaces.remote /\ Current(new) /\ new.kind = "connect" /\ new.result = "ok"
            => HelperIs(surfaces, new.connection.instance)'
      <3>1. ASSUME surfaces.remote, Current(new), new.result = "ok"
            PROVE  HelperIs(surfaces, new.connection.instance)'
        <4>1. Current(job)
          BY <1>2, <3>1 DEF Current
        <4> QED
          BY <1>2, <1>4, <1>5, <3>1, <4>1 DEF HelperIs
      <3> QED
        BY <3>1
    <2>5. LinkInv(surfaces, clientJobs)
      BY <1>5 DEF AppliedTo
    <2> HIDE DEF Current, HelperIs
    <2> QED
      BY <1>2, <1>3, <2>2, <2>3, <2>4, <2>5, LinksStay
  <1> QED
    BY <1>1, <1>2, <1>3, <1>4, <1>5, RunStep

\* An attempt to connect to the local service: what comes of it is of the service that
\* answered.
LEMMA RunConnectKeeps ==
    ASSUME NoneIsNothing, SessionsInv, NEW job \in clientJobs, Sessions!RunConnect(job)
    PROVE  SessionsInv'
  <1> DEFINE service == services["local"]
             starts == ~service.up /\ job.body = "attach" /\ started < MaxInstances
             target == IF starts THEN Sessions!Launch(service) ELSE service
             connection == Sessions!NewConnection("local", None, target.instance)
             answer == Sessions!Attaches(target, connection)
  <1>1. /\ job \in ClientJobs /\ JobIsFormed(job) /\ job.kind = "connect" /\ job.result = "running"
        /\ job.place = "local"
        /\ UNCHANGED <<surfaces, workspace, connecting, runtime, links, era, misapplied>>
    BY HostFacts DEF Sessions!RunConnect, Sessions!Running, Sessions!app
  <1>2. service \in Services /\ service.panes \subseteq service.given /\ starts \in BOOLEAN
    BY HostFacts
  <1>3. /\ target \in Services /\ target.panes = service.panes /\ target.given = service.given
        /\ \A c \in Connections : /\ Sessions!Attaches(target, c)[1] \in Services
                                  /\ Evolves(service, Sessions!Attaches(target, c)[1])
                                  /\ Sessions!Attaches(target, c)[1].given = service.given
    <2>1. target = service \/ target = Sessions!Launch(service)
      OBVIOUS
    <2> HIDE DEF target
    <2> QED
      BY <1>2, <2>1, HostFacts, AttachFacts
  <1>4. connection \in Connections /\ connection.instance = target.instance /\ connection.link = None
    <2>1. target.instance \in Nat
      BY <1>3 DEF Services
    <2>2. "local" \in Sessions!Places /\ TypeInv
      BY HostFacts
    <2> HIDE DEF target
    <2> QED
      BY <2>1, <2>2, NewConnectionFacts
  <1>5. \E c \in AnyConnection, result \in Results, catalog \in AnyCatalog :
          /\ result \in {"ok", "refused"}
          /\ clientJobs' = Sessions!Done(job, c, result, catalog)
          /\ result = "ok" =>
               /\ c # None /\ catalog # None /\ c.link = None /\ c.instance = catalog.instance
               /\ catalog.panes \subseteq service.given
          /\ result # "ok" => catalog = None
    <2>1. CASE target.up /\ answer[2] = "ok"
      <3>1. clientJobs' = Sessions!Done(job, connection, "ok", Sessions!Snapshot(target))
        BY <1>1, <2>1 DEF Sessions!RunConnect
      <3> HIDE DEF target, connection
      <3> QED
        BY <1>2, <1>3, <1>4, <3>1, CatalogFacts DEF NoneIsNothing, AnyConnection, AnyCatalog, Results
    <2>2. CASE ~(target.up /\ answer[2] = "ok")
      BY <1>1, <2>2 DEF Sessions!RunConnect, AnyConnection, AnyCatalog, Results
    <2> QED
      BY <2>1, <2>2
  <1>6. /\ started' \in 0..MaxInstances
        /\ \E new \in Services : /\ services' = [services EXCEPT !["local"] = new]
                                 /\ Evolves(service, new)
    <2>1. CASE target.up
      <3>1. services' = [services EXCEPT !["local"] = answer[1]]
            /\ started' = IF starts THEN started + 1 ELSE started
        BY <2>1 DEF Sessions!RunConnect
      <3>2. started' \in 0..MaxInstances
        BY <3>1, HostFacts, SessionsAssumption DEF HostsTyped
      <3> HIDE DEF target, connection
      <3> QED
        BY <1>3, <1>4, <3>1, <3>2
    <2>2. CASE ~target.up
      <3>1. UNCHANGED <<services, started>>
        BY <2>2 DEF Sessions!RunConnect
      <3> QED
        BY <3>1, HostFacts DEF HostsTyped
    <2> QED
      BY <2>1, <2>2
  <1>7. /\ services' \in [Sessions!Places -> Services]
        /\ \A place \in Sessions!Places : Evolves(services[place], services'[place])
    BY <1>6, HostFacts DEF HostsTyped
  <1>8. PICK c \in AnyConnection, result \in Results, catalog \in AnyCatalog :
          /\ result \in {"ok", "refused"}
          /\ clientJobs' = Sessions!Done(job, c, result, catalog)
          /\ result = "ok" =>
               /\ c # None /\ catalog # None /\ c.link = None /\ c.instance = catalog.instance
               /\ catalog.panes \subseteq service.given
          /\ result # "ok" => catalog = None
    BY <1>5
  <1>9. Sessions!PanesOf(catalog) \subseteq services'[job.place].given
    <2>1. service.given \subseteq services'["local"].given
      BY <1>7 DEF Evolves, Sessions!Places
    <2> QED
      BY <1>1, <1>8, <2>1 DEF Sessions!PanesOf
  <1>10. ~misapplied /\ AppliedTo(surfaces, clientJobs) /\ Current(job) => ~surfaces.remote /\ job.link = None
    BY <1>1 DEF AppliedTo, AnswersShown, PlaceOf, SessionsInv, TypeInv, SurfacesTyped
  <1>11. /\ DOMAIN links' = DOMAIN links /\ links' \in [DOMAIN links -> Clients]
         /\ \A l \in DOMAIN links :
              /\ OfOneInstance(links'[l])
              /\ ~links'[l].inFlight
              /\ Sessions!PanesOf(links'[l].catalog) \subseteq services'["remote"].given
              /\ links'[l] = links[l]
    BY <1>1, <1>7, HostFacts DEF HostsTyped, Evolves
  <1> HIDE DEF service, starts, target, connection, answer
  <1> QED
    BY <1>1, <1>6, <1>7, <1>8, <1>9, <1>10, <1>11, ConnectStep

\* A request that was answered, or could not be asked, leaves its answer with the job: a
\* catalog of the service as it is, and a screen only of a pane it has.
LEMMA RequestStep ==
    ASSUME NoneIsNothing, SessionsInv, NEW job \in clientJobs, job.kind = "request",
           NEW c \in Connections, NEW result \in Results, result # "ok", NEW catalog \in AnyCatalog,
           clientJobs' = Sessions!Done(job, c, result, catalog),
           UNCHANGED <<surfaces, workspace, connecting, runtime, era, misapplied, started>>,
           services' \in [Sessions!Places -> Services],
           \A place \in Sessions!Places : Evolves(services[place], services'[place]),
           DOMAIN links' = DOMAIN links, links' \in [DOMAIN links -> Clients],
           \A l \in DOMAIN links :
             /\ OfOneInstance(links'[l])
             /\ ~links'[l].inFlight
             /\ Sessions!PanesOf(links'[l].catalog) \subseteq services'["remote"].given,
           Sessions!PanesOf(catalog) \subseteq services'[job.place].given,
           result = "catalog" =>
             catalog # None /\ catalog.panes = services'[job.place].panes,
           result = "screen" =>
             job.body = "snapshot" /\ job.pane \in services[job.place].panes,
           ~misapplied /\ AppliedTo(surfaces, clientJobs) /\ Current(job) =>
             /\ c.link = job.connection.link /\ c.instance = job.connection.instance
             /\ result = "catalog" => catalog.instance = c.instance,
           \A i : HelperIs(surfaces, i) => HelperIs(surfaces, i)'
    PROVE  SessionsInv'
  <1>1. job \in ClientJobs /\ JobIsFormed(job) /\ job.place \in Sessions!Places
    BY HostFacts DEF ClientJobs
  <1>2. c \in AnyConnection /\ c # None
    BY DEF AnyConnection, NoneIsNothing
  <1>3. PICK new \in ClientJobs :
          /\ clientJobs' = (clientJobs \ {job}) \cup {new}
          /\ new.kind = job.kind /\ new.body = job.body /\ new.pane = job.pane
          /\ new.era = job.era /\ new.place = job.place /\ new.link = job.link
          /\ new.connection = c /\ new.result = result /\ new.catalog = catalog
    BY <1>1, <1>2, DoneFacts
  <1>4. JobIsFormed(new) /\ new.result # "running"
    BY <1>1, <1>2, <1>3 DEF JobIsFormed, Results
  <1>5. ASSUME ~misapplied, AppliedTo(surfaces, clientJobs), Current(job)
        PROVE  AnswersShown(surfaces, new)'
    <2> DEFINE place == PlaceOf(surfaces)
               resync == surfaces.client.resync
               shown == Sessions!PanesOf(surfaces.client.catalog)
    <2>1. AnswersShown(surfaces, job) /\ ShownInv(surfaces) /\ job.place = place /\ AnswersShown(surfaces, job)'
      BY <1>5, EvolvesKeeps DEF AppliedTo, AnswersShown
    <2>2. place' = place
      BY DEF PlaceOf
    <2>3. \A p : Gone(p, place) => Gone(p, place)'
      <3>1. \A p : Gone(p, job.place) => Gone(p, job.place)'
        BY <1>1, EvolvesKeeps
      <3> HIDE DEF place
      <3> QED
        BY <2>1, <2>2, <3>1 DEF Gone
    <2>4. shown \subseteq services'[place].given
      BY <1>1, <2>1 DEF ShownInv, Evolves
    <2>5. result = "catalog" =>
            \A i \in 1..Len(resync) : resync[i] \in catalog.panes \/ Gone(resync[i], place)'
      <3>1. ASSUME result = "catalog", NEW i \in 1..Len(resync)
            PROVE  resync[i] \in catalog.panes \/ Gone(resync[i], place)'
        <4>1. CASE Gone(resync[i], place)
          BY <2>3, <4>1
        <4>2. CASE resync[i] \in shown
          <5>1. resync[i] \in services'[place].given
            BY <2>4, <4>2
          <5>2. catalog.panes = services'[place].panes
            BY <2>1, <3>1
          <5> HIDE DEF place
          <5> QED
            BY <2>2, <5>1, <5>2 DEF Gone
        <4> QED
          BY <2>1, <4>1, <4>2 DEF ShownInv
      <3> QED
        BY <3>1
    <2>6. job.body = "snapshot" =>
            \/ job.pane \in shown
            \/ result # "screen" /\ Gone(job.pane, place)'
      <3>1. job.body = "snapshot" => job.pane \in shown \/ Gone(job.pane, place)
        BY <2>1 DEF AnswersShown
      <3>2. result = "screen" => ~Gone(job.pane, place)
        BY <2>1 DEF Gone
      <3> QED
        BY <2>3, <3>1, <3>2
    <2>7. job.connection.link = job.link /\ surfaces.client.health = "Ready" /\ surfaces.pending # None
          /\ job.link = surfaces.backend /\ job.connection.instance = surfaces.client.catalog.instance
      BY <2>1 DEF AnswersShown
    <2> HIDE DEF place
    <2>8. /\ new.link = surfaces'.backend /\ new.place = place /\ new.kind = "request"
          /\ surfaces'.client.health = "Ready" /\ surfaces'.pending # None
          /\ new.connection.link = new.link
          /\ new.connection.instance = surfaces'.client.catalog.instance
          /\ new.result = "catalog" => new.catalog.instance = new.connection.instance
      BY <1>3, <1>5, <2>1, <2>7
    <2>9. /\ new.result = "catalog" =>
               \A i \in 1..Len(resync) : resync[i] \in new.catalog.panes \/ Gone(resync[i], place)'
          /\ new.body = "snapshot" =>
               \/ new.pane \in shown
               \/ new.result # "screen" /\ Gone(new.pane, place)'
      BY <1>3, <2>5, <2>6
    <2>10. \A p : Gone(p, PlaceOf(surfaces))' <=> Gone(p, place)'
      BY <2>2 DEF Gone, place
    <2>11. PlaceOf(surfaces)' = place
      BY <2>2 DEF place
    <2> QED
      BY <2>8, <2>9, <2>10, <2>11 DEF AnswersShown
  <1>6. ASSUME ~misapplied, AppliedTo(surfaces, clientJobs) PROVE LinkInv(surfaces, clientJobs)'
    BY <1>3, <1>4, <1>6, LinksStay DEF AppliedTo
  <1>7. started' \in 0..MaxInstances
    BY HostFacts DEF HostsTyped
  <1> QED
    BY <1>1, <1>3, <1>4, <1>5, <1>6, <1>7, RunStep

\* A request to the local service is answered by the service the connection is to, or not at
\* all.
LEMMA RunRequestKeeps ==
    ASSUME NoneIsNothing, SessionsInv, NEW job \in clientJobs, Sessions!RunRequest(job)
    PROVE  SessionsInv'
  <1> DEFINE service == services["local"]
  <1>1. /\ job \in ClientJobs /\ JobIsFormed(job) /\ job.kind = "request" /\ job.result = "running"
        /\ job.place = "local"
        /\ UNCHANGED <<surfaces, workspace, connecting, runtime, links, started, era, misapplied>>
    BY HostFacts DEF Sessions!RunRequest, Sessions!Running, Sessions!app
  <1>2. /\ service \in Services /\ service.panes \subseteq service.given
        /\ job.body \in Bodies /\ job.connection \in Connections
    BY <1>1, HostFacts DEF JobIsFormed, ClientJobs
  <1>3. \A i : HelperIs(surfaces, i) => HelperIs(surfaces, i)'
    BY <1>1 DEF HelperIs
  <1>4. ASSUME services' \in [Sessions!Places -> Services],
               \A place \in Sessions!Places : Evolves(services[place], services'[place])
        PROVE  /\ DOMAIN links' = DOMAIN links /\ links' \in [DOMAIN links -> Clients]
               /\ \A l \in DOMAIN links :
                    /\ OfOneInstance(links'[l])
                    /\ ~links'[l].inFlight
                    /\ Sessions!PanesOf(links'[l].catalog) \subseteq services'["remote"].given
    BY <1>1, <1>4, HostFacts DEF HostsTyped, Evolves
  <1>5. CASE Sessions!Alive(service, job.connection)
    <2>1. PICK answer \in Sessions!Served(service, job.body, job.pane, job.revision) :
            /\ services' = [services EXCEPT !["local"] = answer[1]]
            /\ clientJobs' = Sessions!Done(job, job.connection, answer[2], Sessions!Snapshot(answer[1]))
      BY <1>5 DEF Sessions!RunRequest
    <2> DEFINE new == answer[1]
               result == answer[2]
    <2>2. /\ new \in Services /\ Evolves(service, new) /\ new.instance = service.instance
          /\ result \in {"catalog", "detached", "refused", "screen", "done"}
          /\ result = "screen" => job.body = "snapshot" /\ job.pane \in service.panes
      BY <1>2, <2>1, ServedFacts
    <2>3. /\ services' \in [Sessions!Places -> Services] /\ services'["local"] = new
          /\ \A place \in Sessions!Places : Evolves(services[place], services'[place])
      BY <2>1, <2>2, HostFacts DEF HostsTyped
    <2>4. /\ Sessions!Snapshot(new) \in AnyCatalog /\ Sessions!Snapshot(new) # None
          /\ Sessions!Snapshot(new).instance = new.instance /\ Sessions!Snapshot(new).panes = new.panes
          /\ Sessions!PanesOf(Sessions!Snapshot(new)) \subseteq new.given
      BY <2>2, CatalogFacts DEF Evolves, AnyCatalog
    <2>5. job.connection.instance = new.instance
      BY <1>5, <2>2 DEF Sessions!Alive
    <2>6. result \in Results /\ result # "ok"
      BY <2>2 DEF Results
    <2>7. clientJobs' = Sessions!Done(job, job.connection, result, Sessions!Snapshot(new))
      BY <2>1
    <2> HIDE DEF new, result
    <2> QED
      BY <1>1, <1>2, <1>3, <1>4, <2>2, <2>3, <2>4, <2>5, <2>6, <2>7, RequestStep
  <1>6. CASE ~Sessions!Alive(service, job.connection)
    <2>1. clientJobs' = Sessions!Done(job, job.connection, "lost", None) /\ UNCHANGED services
      BY <1>6 DEF Sessions!RunRequest
    <2>2. /\ services' \in [Sessions!Places -> Services]
          /\ \A place \in Sessions!Places : Evolves(services[place], services'[place])
      BY <2>1, HostFacts DEF HostsTyped
    <2>3. None \in AnyCatalog /\ "lost" \in Results /\ Sessions!PanesOf(None) = {}
      BY DEF AnyCatalog, Results, Sessions!PanesOf
    <2> QED
      BY <1>1, <1>2, <1>3, <1>4, <2>1, <2>2, <2>3, RequestStep
  <1> QED
    BY <1>5, <1>6

\* A helper that stays of its instance, or can no longer be asked, is what it was to whoever
\* asks.
LEMMA LinkChanges ==
    ASSUME UNCHANGED surfaces, NEW l \in DOMAIN links, NEW new,
           links' = [links EXCEPT ![l] = new],
           Sessions!CanRequest(new) =>
             Sessions!CanRequest(links[l]) /\ new.connection = links[l].connection
    PROVE  \A i : HelperIs(surfaces, i) => HelperIs(surfaces, i)'
  BY DEF HelperIs

\* What the steps of a helper's client leave of the links.
LEMMA LinksAre ==
    ASSUME SessionsInv, NEW l \in DOMAIN links, NEW new \in Clients, OfOneInstance(new),
           ~new.inFlight, Sessions!PanesOf(new.catalog) \subseteq services'["remote"].given,
           links' = [links EXCEPT ![l] = new],
           \A place \in Sessions!Places : Evolves(services[place], services'[place])
    PROVE  /\ DOMAIN links' = DOMAIN links /\ links' \in [DOMAIN links -> Clients]
           /\ \A k \in DOMAIN links :
                /\ OfOneInstance(links'[k])
                /\ ~links'[k].inFlight
                /\ Sessions!PanesOf(links'[k].catalog) \subseteq services'["remote"].given
  <1>1. services["remote"].given \subseteq services'["remote"].given
    BY DEF Evolves, Sessions!Places
  <1>2. links \in [DOMAIN links -> Clients]
    BY HostFacts DEF HostsTyped
  <1> QED
    BY <1>1, <1>2, HostFacts

\* A client that loses its transport is asked no more.
LEMMA LostFacts ==
    ASSUME NEW c \in Clients
    PROVE  LET d == Sessions!MarkTransportLost(c) IN
           /\ d \in Clients /\ ~d.inFlight /\ d.connection = None /\ d.health \in {"Stale", "Failed"}
           /\ d.catalog = c.catalog /\ d.resync = c.resync
           /\ ~Sessions!CanRequest(d)
           /\ OfOneInstance(c) => OfOneInstance(d)
  <1>1. Sessions!MarkTransportLost(c).inFlight = FALSE
    BY DEF Sessions!MarkTransportLost, Clients
  <1> QED
    BY <1>1, PlainFacts, PlainKeeps
       DEF Sessions!MarkTransportLost, Sessions!Unreached, Sessions!CanRequest, Clients

\* A request over a link is answered by the service the helper is connected to, which is the
\* one the request is for.
LEMMA RunRequestRemoteKeeps ==
    ASSUME NoneIsNothing, SessionsInv, NEW job \in clientJobs, Sessions!RunRequestRemote(job)
    PROVE  SessionsInv'
  <1> DEFINE l == job.connection.link
             helper == links[l]
             service == services["remote"]
  <1>1. /\ job \in ClientJobs /\ JobIsFormed(job) /\ job.kind = "request" /\ job.result = "running"
        /\ job.place = "remote"
        /\ UNCHANGED <<surfaces, workspace, connecting, runtime, started, era, misapplied>>
    BY HostFacts DEF Sessions!RunRequestRemote, Sessions!Running, Sessions!app
  <1>2. /\ service \in Services /\ service.panes \subseteq service.given /\ Evolves(service, service)
        /\ job.body \in Bodies /\ job.connection \in Connections
    BY <1>1, HostFacts DEF JobIsFormed, ClientJobs
  <1>3. ASSUME clientJobs' = Sessions!Done(job, job.connection, "lost", None)
                 \/ clientJobs' = Sessions!Done(job, job.connection, "refused", None),
               UNCHANGED services,
               UNCHANGED links
                 \/ (l \in DOMAIN links
                       /\ links' = [links EXCEPT ![l] = Sessions!MarkTransportLost(links[l])])
        PROVE  SessionsInv'
    <2>1. /\ services' \in [Sessions!Places -> Services]
          /\ \A place \in Sessions!Places : Evolves(services[place], services'[place])
      BY <1>3, HostFacts DEF HostsTyped
    <2>2. None \in AnyCatalog /\ {"lost", "refused"} \subseteq Results /\ Sessions!PanesOf(None) = {}
      BY DEF AnyCatalog, Results, Sessions!PanesOf
    <2>3. /\ DOMAIN links' = DOMAIN links /\ links' \in [DOMAIN links -> Clients]
          /\ \A k \in DOMAIN links :
               /\ OfOneInstance(links'[k])
               /\ ~links'[k].inFlight
               /\ Sessions!PanesOf(links'[k].catalog) \subseteq services'["remote"].given
      <3>1. CASE UNCHANGED links
        BY <1>3, <3>1, HostFacts DEF HostsTyped
      <3>2. CASE l \in DOMAIN links
                   /\ links' = [links EXCEPT ![l] = Sessions!MarkTransportLost(links[l])]
        BY <1>3, <2>1, <3>2, HostFacts, LostFacts, LinksAre
      <3> QED
        BY <1>3, <3>1, <3>2
    <2>4. \A i : HelperIs(surfaces, i) => HelperIs(surfaces, i)'
      <3>1. CASE UNCHANGED links
        BY <1>1, <3>1 DEF HelperIs
      <3>2. CASE l \in DOMAIN links
                   /\ links' = [links EXCEPT ![l] = Sessions!MarkTransportLost(links[l])]
        BY <1>1, <3>2, HostFacts, LostFacts, LinkChanges
      <3> QED
        BY <1>3, <3>1, <3>2
    <2>5. \E result \in {"lost", "refused"} :
            clientJobs' = Sessions!Done(job, job.connection, result, None)
      BY <1>3
    <2> QED
      BY <1>1, <1>2, <2>1, <2>2, <2>3, <2>4, <2>5, RequestStep
  <1>4. CASE l \notin DOMAIN links
    BY <1>3, <1>4 DEF Sessions!RunRequestRemote
  <1>5. CASE l \in DOMAIN links /\ ~Sessions!CanRequest(helper)
    BY <1>3, <1>5 DEF Sessions!RunRequestRemote
  <1>6. CASE l \in DOMAIN links /\ Sessions!CanRequest(helper)
               /\ ~Sessions!Alive(service, helper.connection)
    BY <1>3, <1>6 DEF Sessions!RunRequestRemote
  <1>7. CASE l \in DOMAIN links /\ Sessions!CanRequest(helper)
               /\ Sessions!Alive(service, helper.connection)
    <2>1. PICK answer \in Sessions!Served(service, job.body, job.pane, Sessions!Revision(helper)) :
            /\ services' = [services EXCEPT !["remote"] = answer[1]]
            /\ links' = [links EXCEPT ![l] =
                           Sessions!FinishRequest(links[l], helper.connection, answer[2],
                                                  Sessions!Snapshot(answer[1]))]
            /\ clientJobs' = Sessions!Done(job,
                               IF answer[2] = "catalog"
                               THEN [job.connection EXCEPT !.instance = service.instance]
                               ELSE job.connection,
                               answer[2], Sessions!Snapshot(answer[1]))
      BY <1>7 DEF Sessions!RunRequestRemote
    <2> DEFINE new == answer[1]
               result == answer[2]
               catalog == Sessions!Snapshot(new)
               after == Sessions!FinishRequest(links[l], helper.connection, result, catalog)
               c == IF result = "catalog"
                    THEN [job.connection EXCEPT !.instance = service.instance]
                    ELSE job.connection
    <2>2. /\ new \in Services /\ Evolves(service, new) /\ new.instance = service.instance
          /\ result \in {"catalog", "detached", "refused", "screen", "done"}
          /\ result = "screen" => job.body = "snapshot" /\ job.pane \in service.panes
      BY <1>2, <2>1, ServedFacts
    <2>3. /\ services' \in [Sessions!Places -> Services] /\ services'["remote"] = new
          /\ \A place \in Sessions!Places : Evolves(services[place], services'[place])
      BY <2>1, <2>2, HostFacts DEF HostsTyped
    <2>4. /\ catalog \in AnyCatalog /\ catalog \in Catalogs /\ catalog # None
          /\ catalog.instance = new.instance /\ catalog.panes = new.panes
          /\ Sessions!PanesOf(catalog) \subseteq new.given
      BY <2>2, CatalogFacts DEF Evolves, AnyCatalog
    <2>5. result \in Results /\ result # "ok" /\ result # "lost"
      BY <2>2 DEF Results
    <2>6. /\ c \in Connections /\ c.link = l
          /\ result = "catalog" => c.instance = service.instance
          /\ result # "catalog" => c.instance = job.connection.instance
      <3>1. service.instance \in Nat
        BY <1>2 DEF Services
      <3> HIDE DEF service, result
      <3> QED
        BY <1>2, <3>1 DEF Connections
    <2>7. /\ helper \in Clients /\ OfOneInstance(helper) /\ helper.connection \in Connections
          /\ helper.health = "Ready" /\ helper.catalog # None
          /\ helper.connection.instance = service.instance
          /\ helper.connection.instance = helper.catalog.instance
          /\ Sessions!PanesOf(helper.catalog) \subseteq service.given
      <3>1. helper \in Clients /\ OfOneInstance(helper)
            /\ Sessions!PanesOf(helper.catalog) \subseteq service.given
        BY <1>7, HostFacts
      <3>2. helper.connection # None /\ helper.health = "Ready"
        BY <1>7 DEF Sessions!CanRequest
      <3>3. helper.connection \in Connections
        BY <3>1, <3>2 DEF Clients
      <3> QED
        BY <1>7, <3>1, <3>2, <3>3 DEF OfOneInstance, Sessions!Alive
    <2> HIDE DEF new, result, catalog, c
    <2>8. /\ after \in Clients /\ OfOneInstance(after) /\ ~after.inFlight
          /\ after.catalog = catalog \/ after.catalog = helper.catalog
          /\ after.connection = helper.connection \/ after.health # "Ready"
      BY <2>2, <2>4, <2>5, <2>7, FinishFacts
    <2>9. links' = [links EXCEPT ![l] = after]
      BY <2>1 DEF new, result, catalog
    <2>10. clientJobs' = Sessions!Done(job, c, result, catalog)
      BY <2>1 DEF new, result, catalog, c
    <2> HIDE DEF after
    <2>11. Sessions!PanesOf(after.catalog) \subseteq services'["remote"].given
      BY <2>2, <2>3, <2>4, <2>7, <2>8 DEF Evolves
    <2>12. /\ DOMAIN links' = DOMAIN links /\ links' \in [DOMAIN links -> Clients]
           /\ \A k \in DOMAIN links :
                /\ OfOneInstance(links'[k])
                /\ ~links'[k].inFlight
                /\ Sessions!PanesOf(links'[k].catalog) \subseteq services'["remote"].given
      BY <1>7, <2>3, <2>8, <2>9, <2>11, LinksAre
    <2>13. \A i : HelperIs(surfaces, i) => HelperIs(surfaces, i)'
      <3>1. Sessions!CanRequest(after) =>
              Sessions!CanRequest(links[l]) /\ after.connection = links[l].connection
        BY <1>7, <2>8 DEF Sessions!CanRequest
      <3> QED
        BY <1>1, <1>7, <2>9, <3>1, LinkChanges
    <2>14. ~misapplied /\ AppliedTo(surfaces, clientJobs) /\ Current(job) =>
             /\ c.link = job.connection.link /\ c.instance = job.connection.instance
             /\ result = "catalog" => catalog.instance = c.instance
      <3>1. ASSUME ~misapplied, AppliedTo(surfaces, clientJobs), Current(job)
            PROVE  job.connection.instance = service.instance
        <4>1. AnswersShown(surfaces, job) /\ LinkInv(surfaces, clientJobs)
          BY <3>1 DEF AppliedTo
        <4>2. surfaces.remote
          BY <1>1, <4>1 DEF AnswersShown, PlaceOf
        <4>3. HelperIs(surfaces, job.connection.instance) /\ l = surfaces.backend
          BY <1>1, <4>1, <4>2 DEF AnswersShown, LinkInv
        <4> QED
          BY <1>7, <2>7, <4>3 DEF HelperIs
      <3> QED
        BY <2>2, <2>4, <2>6, <3>1
    <2>15. /\ Sessions!PanesOf(catalog) \subseteq services'[job.place].given
           /\ result = "catalog" => catalog # None /\ catalog.panes = services'[job.place].panes
           /\ result = "screen" =>
                job.body = "snapshot" /\ job.pane \in services[job.place].panes
      BY <1>1, <2>2, <2>3, <2>4
    <2> QED
      BY <1>1, <2>3, <2>4, <2>5, <2>6, <2>10, <2>12, <2>13, <2>14, <2>15, RequestStep
  <1> QED
    BY <1>4, <1>5, <1>6, <1>7

\* An attempt to connect over a link: the helper answers from what it has, or connects and has
\* what it answers with.
LEMMA RunConnectRemoteKeeps ==
    ASSUME NoneIsNothing, SessionsInv, NEW job \in clientJobs, Sessions!RunConnectRemote(job)
    PROVE  SessionsInv'
  <1> DEFINE l == job.link
             helper == links[l]
             service == services["remote"]
             cached == job.body = "attach" /\ helper.health = "Ready"
             starts == ~service.up /\ job.body = "attach" /\ started < MaxInstances
             target == IF starts THEN Sessions!Launch(service) ELSE service
             inner == Sessions!NewConnection("remote", l, target.instance)
             answer == Sessions!Attaches(target, inner)
  <1>1. /\ job \in ClientJobs /\ JobIsFormed(job) /\ job.kind = "connect" /\ job.result = "running"
        /\ job.place = "remote" /\ job.place \in Sessions!Places
        /\ UNCHANGED <<surfaces, workspace, connecting, runtime, era, misapplied>>
    BY HostFacts DEF Sessions!RunConnectRemote, Sessions!Running, Sessions!app
  <1>2. /\ service \in Services /\ service.panes \subseteq service.given /\ Evolves(service, service)
        /\ started \in Nat
    BY <1>1, HostFacts
  <1>3. None \in AnyCatalog /\ None \in AnyConnection /\ {"ok", "refused"} \subseteq Results
        /\ Sessions!PanesOf(None) = {}
    BY DEF AnyCatalog, AnyConnection, Results, Sessions!PanesOf
  <1>4. UNCHANGED services =>
          /\ services' \in [Sessions!Places -> Services]
          /\ \A place \in Sessions!Places : Evolves(services[place], services'[place])
    BY HostFacts DEF HostsTyped
  <1>5. UNCHANGED <<links, services>> =>
          /\ DOMAIN links' = DOMAIN links /\ links' \in [DOMAIN links -> Clients]
          /\ \A k \in DOMAIN links :
               /\ OfOneInstance(links'[k])
               /\ ~links'[k].inFlight
               /\ Sessions!PanesOf(links'[k].catalog) \subseteq services'["remote"].given
               /\ k # job.link => links'[k] = links[k]
    BY HostFacts DEF HostsTyped
  <1>6. UNCHANGED started => started' \in 0..MaxInstances
    BY HostFacts DEF HostsTyped
  <1>7. CASE l \notin DOMAIN links
    <2>1. clientJobs' = Sessions!Done(job, None, "refused", None)
          /\ UNCHANGED <<links, services, started>>
      BY <1>7 DEF Sessions!RunConnectRemote
    <2> QED
      BY <1>1, <1>3, <1>4, <1>5, <1>6, <2>1, ConnectStep
  <1>8. CASE l \in DOMAIN links
    <2>1. /\ helper \in Clients /\ OfOneInstance(helper) /\ ~helper.inFlight /\ l \in Links
          /\ Sessions!PanesOf(helper.catalog) \subseteq service.given
      BY <1>8, HostFacts
    <2>2. CASE /\ cached
               /\ clientJobs' = Sessions!Done(job, Sessions!Exchange(l, helper.catalog.instance),
                                              "ok", helper.catalog)
               /\ UNCHANGED <<links, services, started>>
      <3> DEFINE c == Sessions!Exchange(l, helper.catalog.instance)
                 catalog == helper.catalog
      <3>1. catalog # None /\ catalog \in Catalogs /\ catalog \in AnyCatalog
        BY <2>1, <2>2 DEF OfOneInstance, Clients, AnyCatalog
      <3>2. c \in AnyConnection /\ c # None /\ c.link = l /\ c.instance = catalog.instance
        <4>1. catalog.instance \in Nat
          BY <3>1 DEF Catalogs
        <4>2. c \in Connections /\ c.link = l /\ c.instance = catalog.instance
          BY <2>1, <4>1 DEF Sessions!Exchange, Connections, Sessions!Places
        <4> QED
          BY <4>2 DEF AnyConnection, NoneIsNothing
      <3>3. links'[l].connection.instance = c.instance
        BY <2>1, <2>2, <3>2 DEF OfOneInstance
      <3>4. Sessions!PanesOf(catalog) \subseteq services'[job.place].given
        BY <1>1, <2>1, <2>2
      <3>5. clientJobs' = Sessions!Done(job, c, "ok", catalog)
        BY <2>2
      <3>6. /\ services' \in [Sessions!Places -> Services] /\ started' \in 0..MaxInstances
            /\ \A place \in Sessions!Places : Evolves(services[place], services'[place])
            /\ DOMAIN links' = DOMAIN links /\ links' \in [DOMAIN links -> Clients]
            /\ \A k \in DOMAIN links :
                 /\ OfOneInstance(links'[k])
                 /\ ~links'[k].inFlight
                 /\ Sessions!PanesOf(links'[k].catalog) \subseteq services'["remote"].given
                 /\ k # job.link => links'[k] = links[k]
        BY <1>4, <1>5, <1>6, <2>2
      <3> HIDE DEF c, catalog
      <3> QED
        BY <1>1, <1>3, <3>1, <3>2, <3>3, <3>4, <3>5, <3>6, ConnectStep
    <2>3. CASE /\ target.up
               /\ answer[2] = "ok"
               /\ services' = [services EXCEPT !["remote"] = answer[1]]
               /\ links' = [links EXCEPT ![l] =
                              Sessions!Connected(links[l], job.body, inner, Sessions!Snapshot(target))]
               /\ started' = IF starts THEN started + 1 ELSE started
               /\ clientJobs' = Sessions!Done(job, Sessions!Exchange(l, target.instance), "ok",
                                              Sessions!Snapshot(target))
      <3> DEFINE catalog == Sessions!Snapshot(target)
                 c == Sessions!Exchange(l, target.instance)
                 after == Sessions!Connected(links[l], job.body, inner, catalog)
                 new == answer[1]
      <3>1. started' \in 0..MaxInstances
        BY <2>3, HostFacts, SessionsAssumption DEF HostsTyped
      <3>2. target = service \/ target = Sessions!Launch(service)
        OBVIOUS
      <3>3. /\ services' = [services EXCEPT !["remote"] = new]
            /\ links' = [links EXCEPT ![l] = after]
            /\ clientJobs' = Sessions!Done(job, c, "ok", catalog)
        BY <2>3
      <3> HIDE DEF target
      <3>4. /\ target \in Services /\ target.panes = service.panes /\ target.given = service.given
            /\ \A d \in Connections :
                 /\ Sessions!Attaches(target, d)[1] \in Services
                 /\ Evolves(service, Sessions!Attaches(target, d)[1])
                 /\ Sessions!Attaches(target, d)[1].given = service.given
        BY <1>2, <3>2, HostFacts, AttachFacts
      <3>5. target.instance \in Nat
        BY <3>4 DEF Services
      <3>6. /\ inner \in Connections /\ inner.instance = target.instance
            /\ c \in Connections /\ c.instance = target.instance /\ c.link = l
        BY <1>1, <2>1, <3>5, HostFacts, NewConnectionFacts
      <3>7. new \in Services /\ Evolves(service, new) /\ new.given = service.given
        BY <3>4, <3>6
      <3>8. /\ catalog \in Catalogs /\ catalog \in AnyCatalog /\ catalog # None
            /\ catalog.instance = target.instance
            /\ Sessions!PanesOf(catalog) \subseteq service.given
        BY <1>2, <3>4, CatalogFacts DEF AnyCatalog
      <3>9. c \in AnyConnection /\ c # None
        BY <3>6 DEF AnyConnection, NoneIsNothing
      <3> HIDE DEF inner, catalog, c, new
      <3>10. /\ after \in Clients /\ OfOneInstance(after) /\ ~after.inFlight
             /\ after.catalog = catalog /\ after.connection = inner
        BY <2>1, <3>6, <3>8, SessionsAssumption, ConnectedFacts
      <3> HIDE DEF after
      <3>11. /\ services' \in [Sessions!Places -> Services] /\ services'["remote"] = new
             /\ \A place \in Sessions!Places : Evolves(services[place], services'[place])
        BY <3>3, <3>7, HostFacts DEF HostsTyped
      <3>12. Sessions!PanesOf(catalog) \subseteq services'[job.place].given
        BY <1>1, <3>7, <3>8, <3>11
      <3>13. /\ DOMAIN links' = DOMAIN links /\ links' \in [DOMAIN links -> Clients]
             /\ \A k \in DOMAIN links :
                  /\ OfOneInstance(links'[k])
                  /\ ~links'[k].inFlight
                  /\ Sessions!PanesOf(links'[k].catalog) \subseteq services'["remote"].given
                  /\ k # l => links'[k] = links[k]
        BY <1>1, <1>8, <3>3, <3>10, <3>11, <3>12, LinksAre
      <3>14. links'[l].connection.instance = c.instance
        BY <1>8, <3>3, <3>6, <3>10, <3>13, HostFacts DEF HostsTyped
      <3> QED
        BY <1>1, <1>3, <3>1, <3>3, <3>6, <3>8, <3>9, <3>11, <3>12, <3>13, <3>14, ConnectStep
    <2>4. CASE /\ links' = [links EXCEPT ![l] = Sessions!ConnectFailed(links[l])]
               /\ clientJobs' = Sessions!Done(job, None, "refused", None)
               /\ UNCHANGED <<services, started>>
      <3> DEFINE after == Sessions!ConnectFailed(links[l])
      <3>1. after \in Clients /\ OfOneInstance(after) /\ ~after.inFlight
            /\ after.catalog = helper.catalog
        BY <2>1, PlainFacts, PlainKeeps DEF Sessions!ConnectFailed, Clients
      <3> HIDE DEF after
      <3>2. Sessions!PanesOf(after.catalog) \subseteq services'["remote"].given
        BY <2>1, <2>4, <3>1
      <3>3. links' = [links EXCEPT ![l] = after]
        BY <2>4 DEF after
      <3>4. /\ DOMAIN links' = DOMAIN links /\ links' \in [DOMAIN links -> Clients]
            /\ \A k \in DOMAIN links :
                 /\ OfOneInstance(links'[k])
                 /\ ~links'[k].inFlight
                 /\ Sessions!PanesOf(links'[k].catalog) \subseteq services'["remote"].given
                 /\ k # l => links'[k] = links[k]
        BY <1>4, <1>8, <2>4, <3>1, <3>2, <3>3, LinksAre
      <3> QED
        BY <1>1, <1>3, <1>4, <1>6, <2>4, <3>4, ConnectStep
    <2> HIDE DEF cached, starts
    <2> QED
      BY <1>8, <2>2, <2>3, <2>4 DEF Sessions!RunConnectRemote, cached, starts
  <1> QED
    BY <1>7, <1>8

-----------------------------------------------------------------------------
(* Messages of the user and of the timers.                                  *)

\* A job that is new is finite company, and the pool that it joins is typed as it was.
LEMMA JoinsPool ==
    ASSUME JobsTyped, NEW pool, pool \subseteq clientJobs,
           NEW new \in ClientJobs, JobIsFormed(new), new.era = era, era' = era,
           clientJobs' = pool \cup {new} \/ clientJobs' = pool
    PROVE  JobsTyped'
  <1>1. IsFiniteSet(pool)
    BY FS_Subset DEF JobsTyped
  <1>2. IsFiniteSet(clientJobs')
    BY <1>1, FS_AddElement
  <1>3. new.era <= era'
    BY DEF ClientJobs
  <1> QED
    BY <1>2, <1>3 DEF JobsTyped

\* Surfaces that ask nothing else and begin to connect wait for the job that does it.
LEMMA BeginsConnectKeeps ==
    ASSUME NoneIsNothing, SessionsInv, NEW intent \in {"attach", "reconnect"},
           surfaces.remote => runtime # None, Sessions!BeginsConnect(intent)
    PROVE  SessionsInv'
  <1> DEFINE new == Sessions!Job("connect", intent, None, None)
             c == Sessions!BeginConnect(surfaces.client)
  <1>1. /\ ~surfaces.client.inFlight
        /\ surfaces' = [surfaces EXCEPT !.client = c]
        /\ clientJobs' = clientJobs \cup {new}
        /\ UNCHANGED <<workspace, connecting, runtime, links, services, started, era, misapplied>>
    BY DEF Sessions!BeginsConnect, Sessions!CanConnect
  <1>2. SurfacesTyped /\ JobsTyped /\ HostsTyped /\ HostsInv /\ surfaces \in AllSurfaces
        /\ surfaces.client \in Clients
    BY DEF SessionsInv, TypeInv, SurfacesTyped, AllSurfaces
  <1>3. /\ new \in ClientJobs
        /\ new.kind = "connect" /\ new.body = intent /\ new.connection = None
        /\ new.era = era /\ new.place = PlaceOf(surfaces) /\ new.link = surfaces.backend
        /\ new.result = "running" /\ new.catalog = None
    <2>1. /\ "connect" \in JobKinds /\ intent \in AnyBody /\ None \in AnyConnection
          /\ None \in AnyPane
      BY DEF JobKinds, AnyBody, AnyConnection, AnyPane
    <2> QED
      BY <1>2, <2>1, JobFacts
  <1>4. JobIsFormed(new)
    BY <1>3 DEF JobIsFormed
  <1> HIDE DEF new
  <1>5. /\ c \in Clients /\ c.health = "Connecting" /\ c.inFlight /\ c.connection = surfaces.client.connection
        /\ c.catalog = surfaces.client.catalog /\ c.resync = surfaces.client.resync
        /\ OfOneInstance(surfaces.client) => OfOneInstance(c)
    BY <1>2, PlainFacts, PlainKeeps DEF Sessions!BeginConnect, Clients
  <1> HIDE DEF c
  <1>6. /\ surfaces' \in AllSurfaces /\ surfaces'.client = c /\ surfaces'.backend = surfaces.backend
        /\ surfaces'.remote = surfaces.remote /\ surfaces'.pending = surfaces.pending
        /\ surfaces'.selected = surfaces.selected
    BY <1>1, <1>2, <1>5 DEF AllSurfaces
  <1>7. TypeInv'
    <2>1. SurfacesTyped'
      BY <1>1, <1>2, <1>6 DEF SurfacesTyped
    <2>2. JobsTyped'
      BY <1>1, <1>2, <1>3, <1>4, JoinsPool
    <2>3. HostsTyped'
      BY <1>1, <1>2 DEF HostsTyped
    <2> QED
      BY <2>1, <2>2, <2>3 DEF TypeInv
  <1>8. HostsInv'
    BY <1>1, <1>2, <1>3 DEF HostsInv, Sessions!PanesOf
  <1>9. Waits'
    BY <1>1, <1>6 DEF SessionsInv, Waits
  <1>10. ASSUME ~misapplied PROVE AppliedTo(surfaces, clientJobs)'
    <2>1. AppliedTo(surfaces, clientJobs) /\ \A j \in clientJobs : ~Current(j)
      BY <1>1, <1>10 DEF SessionsInv, AppliedTo, FlightInv
    <2>2. PlaceOf(surfaces') = PlaceOf(surfaces)
      BY <1>6 DEF PlaceOf
    <2>3. ShownInv(surfaces)'
      BY <1>1, <1>5, <1>6, <2>1, <2>2 DEF AppliedTo, ShownInv, Gone
    <2>4. FlightInv(surfaces, clientJobs)'
      BY <1>1, <1>3, <1>5, <1>6, <2>1 DEF FlightInv, Current
    <2>5. \A j \in clientJobs' : Current(j)' => AnswersShown(surfaces, j)'
      BY <1>1, <1>3, <1>5, <1>6, <2>1, <2>2 DEF AnswersShown, Current
    <2>6. LinkInv(surfaces, clientJobs)'
      BY <1>1, <1>3, <1>5, <1>6, <2>1 DEF AppliedTo, LinkInv, Current, HelperIs
    <2> QED
      BY <2>3, <2>4, <2>5, <2>6 DEF AppliedTo
  <1> QED
    BY <1>1, <1>7, <1>8, <1>9, <1>10 DEF SessionsInv

\* The surfaces change and one job may join those that stay: the hosts are what they were.
LEMMA SurfacesStep ==
    ASSUME SessionsInv, NEW s \in AllSurfaces, s.remote = (s.backend # None),
           NEW pool, pool \subseteq clientJobs, NEW after, surfaces' = s, clientJobs' = after,
           \/ after = pool
           \/ \E new \in ClientJobs :
                /\ after = pool \cup {new}
                /\ JobIsFormed(new) /\ new.era = era /\ new.catalog = None,
           workspace' \in [terminal : BOOLEAN, migrated : BOOLEAN], misapplied' \in BOOLEAN,
           s.pending # None => \E j \in after : j.kind = "request",
           misapplied' \/ AppliedTo(s, after),
           UNCHANGED <<connecting, runtime, links, services, started, era>>
    PROVE  SessionsInv'
  <1>1. SurfacesTyped /\ JobsTyped /\ HostsTyped /\ HostsInv
    BY DEF SessionsInv, TypeInv
  <1>2. SurfacesTyped'
    BY <1>1 DEF SurfacesTyped
  <1>3. JobsTyped'
    <2>1. CASE after = pool
      <3>1. IsFiniteSet(pool)
        BY <1>1, FS_Subset DEF JobsTyped
      <3> QED
        BY <1>1, <2>1, <3>1 DEF JobsTyped
    <2>2. CASE after # pool
      <3>1. PICK new \in ClientJobs :
              after = pool \cup {new} /\ JobIsFormed(new) /\ new.era = era /\ new.catalog = None
        BY <2>2
      <3> QED
        BY <1>1, <3>1, JoinsPool
    <2> QED
      BY <2>1, <2>2
  <1>4. HostsTyped'
    BY <1>1 DEF HostsTyped
  <1>5. HostsInv'
    <2>1. \A j \in after : j \in clientJobs \/ Sessions!PanesOf(j.catalog) = {}
      BY DEF Sessions!PanesOf
    <2> QED
      BY <1>1, <2>1 DEF HostsInv
  <1>6. Waits'
    BY DEF Waits
  <1>7. ~misapplied' => AppliedTo(surfaces, clientJobs)'
    <2>1. ASSUME AppliedTo(s, after) PROVE AppliedTo(surfaces, clientJobs)'
      BY <2>1 DEF AppliedTo, ShownInv, Gone, PlaceOf, FlightInv, Current, AnswersShown, LinkInv,
                  HelperIs
    <2> QED
      BY <2>1
  <1> QED
    BY <1>2, <1>3, <1>4, <1>5, <1>6, <1>7 DEF SessionsInv, TypeInv

\* A request takes the connection of the client with it and waits for its own answer.
LEMMA AskFacts ==
    ASSUME NoneIsNothing, SurfacesTyped, NEW s \in AllSurfaces,
           s.backend = surfaces.backend, s.remote = surfaces.remote, Sessions!CanAsk(s),
           NEW tag \in Tags, NEW body \in Bodies, NEW pane \in AnyPane,
           body = "snapshot" => pane \in Panes, NEW new,
           \/ new = Sessions!Request(s, body, pane)
           \/ \E r \in Nat : new = [Sessions!Request(s, body, pane) EXCEPT !.revision = r]
    PROVE  LET a == Sessions!Asked(s, tag) IN
           /\ a \in AllSurfaces /\ a.backend = s.backend /\ a.remote = s.remote
           /\ a.selected = s.selected
           /\ new \in ClientJobs /\ JobIsFormed(new) /\ new.kind = "request" /\ new.era = era
           /\ new.catalog = None
           /\ \A pool :
                AppliedTo(s, pool)
                /\ (body = "snapshot" =>
                      pane \in Sessions!PanesOf(s.client.catalog) \/ Gone(pane, PlaceOf(s)))
                  => AppliedTo(a, pool \cup {new})
  <1> DEFINE a == Sessions!Asked(s, tag)
             c == Sessions!BeginRequest(s.client)
  <1>1. /\ s.client \in Clients /\ s.pending = None /\ s.client.connection \in AnyConnection
        /\ s.client.connection # None /\ s.client.health = "Ready" /\ ~s.client.inFlight
        /\ s.client.connection \in Connections
    BY DEF Sessions!CanAsk, Sessions!CanRequest, AllSurfaces, Clients, AnyConnection
  <1>2. /\ c \in Clients /\ c.inFlight /\ c.connection = None /\ c.health = "Ready"
        /\ c.catalog = s.client.catalog /\ c.resync = s.client.resync
        /\ OfOneInstance(s.client) => OfOneInstance(c)
    BY <1>1, PlainFacts, PlainKeeps DEF Sessions!BeginRequest, Clients
  <1> HIDE DEF c
  <1>3. a = [s EXCEPT !.pending = tag, !.client = c]
    BY DEF Sessions!Asked, c
  <1>4. /\ a \in AllSurfaces /\ a.backend = s.backend /\ a.remote = s.remote
        /\ a.selected = s.selected /\ a.client = c /\ a.pending = tag
    BY <1>2, <1>3 DEF AllSurfaces
  <1> HIDE DEF a
  <1>5. /\ new \in ClientJobs
        /\ new.kind = "request" /\ new.body = body /\ new.connection = s.client.connection
        /\ new.pane = pane /\ new.era = era /\ new.place = PlaceOf(s)
        /\ new.link = s.backend /\ new.result = "running" /\ new.catalog = None
    <2>1. "request" \in JobKinds /\ body \in AnyBody
      BY DEF JobKinds, AnyBody
    <2>2. \/ new = Sessions!Job("request", body, s.client.connection, pane)
          \/ \E r \in Nat :
               new = [Sessions!Job("request", body, s.client.connection, pane) EXCEPT !.revision = r]
      BY DEF Sessions!Request
    <2>3. PlaceOf(s) = PlaceOf(surfaces)
      BY DEF PlaceOf
    <2> QED
      BY <1>1, <2>1, <2>2, <2>3, JobFacts
  <1>6. JobIsFormed(new)
    BY <1>1, <1>5 DEF JobIsFormed
  <1>7. ASSUME NEW pool, AppliedTo(s, pool),
               body = "snapshot" =>
                 pane \in Sessions!PanesOf(s.client.catalog) \/ Gone(pane, PlaceOf(s))
        PROVE  AppliedTo(a, pool \cup {new})
    <2>1. \A j \in pool : ~Current(j)
      BY <1>1, <1>7 DEF AppliedTo, FlightInv
    <2>2. PlaceOf(a) = PlaceOf(s)
      BY <1>4 DEF PlaceOf
    <2>3. ShownInv(s) /\ LinkInv(s, pool)
      BY <1>7 DEF AppliedTo
    <2>4. ShownInv(a)
      BY <1>2, <1>4, <2>2, <2>3 DEF ShownInv
    <2>5. FlightInv(a, pool \cup {new})
      BY <1>2, <1>4, <1>5, <2>1 DEF FlightInv, Current
    <2>6. AnswersShown(a, new)
      <3>1. /\ s.client.connection.link = s.backend
            /\ s.client.connection.instance = s.client.catalog.instance
        BY <1>1, <2>3 DEF ShownInv, OfOneInstance
      <3>2. tag # None
        BY DEF NoneIsNothing
      <3> QED
        BY <1>2, <1>4, <1>5, <1>7, <2>2, <3>1, <3>2 DEF AnswersShown
    <2>7. LinkInv(a, pool \cup {new})
      BY <1>1, <1>2, <1>4, <1>5, <2>3 DEF LinkInv, HelperIs
    <2> QED
      BY <2>1, <2>4, <2>5, <2>6, <2>7 DEF AppliedTo
  <1> QED
    BY <1>4, <1>5, <1>6, <1>7 DEF a

\* A request of the user or of the timer.
LEMMA AskKeeps ==
    ASSUME NoneIsNothing, SessionsInv, NEW body \in Bodies, NEW tag \in Tags, NEW pane \in AnyPane,
           body = "snapshot" => pane = surfaces.selected /\ pane # None,
           Sessions!Ask(body, tag, pane)
    PROVE  SessionsInv'
  <1> DEFINE new == Sessions!Request(surfaces, body, pane)
             a == Sessions!Asked(surfaces, tag)
             after == clientJobs \cup {new}
  <1>1. /\ Sessions!CanAsk(surfaces) /\ surfaces' = a /\ clientJobs' = after
        /\ UNCHANGED <<workspace, connecting, runtime, links, services, started, era, misapplied>>
    BY DEF Sessions!Ask
  <1>2. SurfacesTyped /\ surfaces \in AllSurfaces
    BY DEF SessionsInv, TypeInv, SurfacesTyped
  <1>3. body = "snapshot" => pane \in Panes
    BY DEF AnyPane
  <1>4. /\ a \in AllSurfaces /\ a.backend = surfaces.backend /\ a.remote = surfaces.remote
        /\ new \in ClientJobs /\ JobIsFormed(new) /\ new.kind = "request" /\ new.era = era
        /\ new.catalog = None
        /\ AppliedTo(surfaces, clientJobs)
             /\ (body = "snapshot" =>
                   \/ pane \in Sessions!PanesOf(surfaces.client.catalog)
                   \/ Gone(pane, PlaceOf(surfaces)))
             => AppliedTo(a, clientJobs \cup {new})
    BY <1>1, <1>2, <1>3, AskFacts
  <1> HIDE DEF a, new
  <1>5. misapplied' \/ AppliedTo(a, after)
    BY <1>1, <1>4 DEF SessionsInv, AppliedTo, ShownInv
  <1>6. a.remote = (a.backend # None) /\ misapplied' \in BOOLEAN
        /\ workspace' \in [terminal : BOOLEAN, migrated : BOOLEAN]
    BY <1>1, <1>2, <1>4 DEF SurfacesTyped
  <1>7. a.pending # None => \E j \in after : j.kind = "request"
    BY <1>4
  <1> QED
    BY <1>1, <1>4, <1>5, <1>6, <1>7, SurfacesStep

\* Selecting a pane of the catalog.
LEMMA SelectKeeps ==
    ASSUME SessionsInv, NEW pane \in Panes, Sessions!Select(pane)
    PROVE  SessionsInv'
  <1> DEFINE s == Sessions!Selected(surfaces, pane)
  <1>1. /\ pane \in Sessions!PanesOf(surfaces.client.catalog) /\ surfaces' = s
        /\ UNCHANGED <<workspace, clientJobs, connecting, runtime, links, services, started, era,
                       misapplied>>
    BY DEF Sessions!Select
  <1>2. SurfacesTyped /\ surfaces \in AllSurfaces
    BY DEF SessionsInv, TypeInv, SurfacesTyped
  <1>3. /\ s \in AllSurfaces /\ s.client = surfaces.client /\ s.backend = surfaces.backend
        /\ s.remote = surfaces.remote /\ s.pending = surfaces.pending /\ s.selected = pane
    BY <1>2 DEF Sessions!Selected, AllSurfaces
  <1> HIDE DEF s
  <1>4. misapplied' \/ AppliedTo(s, clientJobs)
    <2>1. PlaceOf(s) = PlaceOf(surfaces)
      BY <1>3 DEF PlaceOf
    <2> QED
      BY <1>1, <1>3, <2>1
         DEF SessionsInv, AppliedTo, ShownInv, FlightInv, AnswersShown, LinkInv, HelperIs
  <1>5. s.remote = (s.backend # None) /\ misapplied' \in BOOLEAN
        /\ workspace' \in [terminal : BOOLEAN, migrated : BOOLEAN]
    BY <1>1, <1>2, <1>3 DEF SurfacesTyped
  <1>6. s.pending # None => \E j \in clientJobs : j.kind = "request"
    BY <1>3 DEF SessionsInv, Waits
  <1> QED
    BY <1>1, <1>3, <1>4, <1>5, <1>6, SurfacesStep

-----------------------------------------------------------------------------
(* Completions.                                                             *)

\* What a completion leaves before a pane is selected: nothing is in flight any more.
Landed(s, pool) ==
    /\ OfOneInstance(s.client)
    /\ ~s.client.inFlight
    /\ s.client.connection # None => s.client.connection.link = s.backend
    /\ Sessions!PanesOf(s.client.catalog) \subseteq services[PlaceOf(s)].given
    /\ \A i \in 1..Len(s.client.resync) :
         LET p == s.client.resync[i] IN
         p \in Sessions!PanesOf(s.client.catalog) \/ Gone(p, PlaceOf(s))
    /\ \A j \in pool : ~Current(j)
    /\ LinkInv(s, pool)

\* The selection is of the catalog that is shown.
LEMMA SelectionFacts ==
    ASSUME NEW d \in AllSurfaces, NEW pane \in Sessions!Selections(d)
    PROVE  LET s == Sessions!Selected(d, pane) IN
           /\ s \in AllSurfaces /\ s.client = d.client /\ s.backend = d.backend
           /\ s.remote = d.remote /\ s.pending = d.pending
           /\ \A pool : Landed(d, pool) => AppliedTo(s, pool)
  <1> DEFINE s == Sessions!Selected(d, pane)
  <1>1. d.client.catalog \in Catalogs \cup {None} /\ d.selected \in Panes \cup {None}
    BY DEF AllSurfaces, Clients
  <1>2. Sessions!PanesOf(d.client.catalog) \subseteq Panes
    BY <1>1 DEF Sessions!PanesOf, Catalogs
  <1>3. /\ pane \in Panes \cup {None}
        /\ pane # None => pane \in Sessions!PanesOf(d.client.catalog)
    BY <1>1, <1>2 DEF Sessions!Selections
  <1>4. /\ s \in AllSurfaces /\ s.client = d.client /\ s.backend = d.backend
        /\ s.remote = d.remote /\ s.pending = d.pending /\ s.selected = pane
    BY <1>3 DEF Sessions!Selected, AllSurfaces
  <1> HIDE DEF s
  <1>5. PlaceOf(s) = PlaceOf(d)
    BY <1>4 DEF PlaceOf
  <1>6. ASSUME NEW pool, Landed(d, pool) PROVE AppliedTo(s, pool)
    <2>1. ShownInv(s)
      BY <1>3, <1>4, <1>5, <1>6 DEF Landed, ShownInv
    <2>2. FlightInv(s, pool) /\ \A j \in pool : Current(j) => AnswersShown(s, j)
      BY <1>4, <1>6 DEF Landed, FlightInv
    <2>3. LinkInv(s, pool)
      BY <1>4, <1>6 DEF Landed, LinkInv, HelperIs
    <2> QED
      BY <2>1, <2>2, <2>3 DEF AppliedTo
  <1> QED
    BY <1>4, <1>6 DEF s

\* The next pane of the queue is asked for, or taken from it.
LEMMA ResyncedFacts ==
    ASSUME NoneIsNothing, SurfacesTyped, NEW s \in AllSurfaces, s.client.resync # <<>>,
           s.backend = surfaces.backend, s.remote = surfaces.remote, NEW others,
           Sessions!Resynced(s, others)
    PROVE  \E a \in AllSurfaces : \E after :
             /\ surfaces' = a /\ clientJobs' = after
             /\ a.backend = s.backend /\ a.remote = s.remote
             /\ \/ after = others /\ a.pending = s.pending
                \/ \E new \in ClientJobs :
                     /\ after = others \cup {new}
                     /\ JobIsFormed(new) /\ new.kind = "request" /\ new.era = era
                     /\ new.catalog = None
             /\ AppliedTo(s, others) => AppliedTo(a, after)
  <1> DEFINE queue == s.client.resync
             rest == [s EXCEPT !.client.resync = Tail(@)]
             c == [s.client EXCEPT !.resync = Tail(queue)]
             pane == Head(queue)
  <1>1. s.client \in Clients /\ queue \in Seq(Panes) /\ queue # <<>>
    BY DEF AllSurfaces, Clients
  <1>2. /\ pane \in Panes /\ Tail(queue) \in Seq(Panes)
        /\ pane = queue[1] /\ 1 \in 1..Len(queue)
        /\ \A i \in 1..Len(Tail(queue)) : i + 1 \in 1..Len(queue) /\ Tail(queue)[i] = queue[i + 1]
    BY <1>1
  <1>3. /\ c \in Clients /\ c.health = s.client.health /\ c.inFlight = s.client.inFlight
        /\ c.connection = s.client.connection /\ c.catalog = s.client.catalog
        /\ c.resync = Tail(queue)
        /\ OfOneInstance(s.client) => OfOneInstance(c)
    BY <1>1, <1>2 DEF Clients, OfOneInstance
  <1> HIDE DEF c
  <1>4. rest = [s EXCEPT !.client = c]
    BY DEF AllSurfaces, c
  <1> HIDE DEF rest
  <1>5. /\ rest \in AllSurfaces /\ rest.client = c /\ rest.backend = s.backend
        /\ rest.remote = s.remote /\ rest.pending = s.pending /\ rest.selected = s.selected
    BY <1>3, <1>4 DEF AllSurfaces
  <1>6. AppliedTo(s, others) => AppliedTo(rest, others)
    <2>1. PlaceOf(rest) = PlaceOf(s)
      BY <1>5 DEF PlaceOf
    <2>2. ASSUME AppliedTo(s, others) PROVE AppliedTo(rest, others)
      <3>1. ShownInv(rest)
        BY <1>2, <1>3, <1>5, <2>1, <2>2 DEF AppliedTo, ShownInv
      <3>2. FlightInv(rest, others)
        BY <1>3, <1>5, <2>2 DEF AppliedTo, FlightInv
      <3>3. \A j \in others : Current(j) => AnswersShown(rest, j)
        <4>1. \A i \in 1..Len(rest.client.resync) : \E k \in 1..Len(queue) :
                rest.client.resync[i] = queue[k]
          BY <1>2, <1>3, <1>5
        <4>2. SUFFICES ASSUME NEW j, AnswersShown(s, j) PROVE AnswersShown(rest, j)
          BY <2>2 DEF AppliedTo
        <4>3. (\A i \in 1..Len(queue) : queue[i] \in j.catalog.panes \/ Gone(queue[i], PlaceOf(s))) =>
                \A i \in 1..Len(rest.client.resync) :
                  \/ rest.client.resync[i] \in j.catalog.panes
                  \/ Gone(rest.client.resync[i], PlaceOf(s))
          BY <4>1
        <4> QED
          BY <1>3, <1>5, <2>1, <4>2, <4>3 DEF AnswersShown
      <3>4. LinkInv(rest, others)
        BY <1>3, <1>5, <2>2 DEF AppliedTo, LinkInv, HelperIs
      <3> QED
        BY <3>1, <3>2, <3>3, <3>4 DEF AppliedTo
    <2> QED
      BY <2>2
  <1>7. CASE ~Sessions!CanAsk(rest)
    BY <1>5, <1>6, <1>7 DEF Sessions!Resynced, rest
  <1>8. CASE Sessions!CanAsk(rest)
    <2> DEFINE a == Sessions!Asked(rest, "snapshot")
               new == [Sessions!Request(rest, "snapshot", pane)
                         EXCEPT !.revision = Sessions!Revision(rest.client)]
    <2>1. surfaces' = a /\ clientJobs' = others \cup {new}
      BY <1>8 DEF Sessions!Resynced, rest
    <2>2. \E r \in Nat : new = [Sessions!Request(rest, "snapshot", pane) EXCEPT !.revision = r]
      <3>1. Sessions!Revision(rest.client) \in Nat
        BY <1>3, <1>5 DEF Clients, Catalogs, Sessions!Revision
      <3> QED
        BY <3>1
    <2>3. /\ "snapshot" \in Tags /\ "snapshot" \in Bodies /\ pane \in AnyPane
          /\ rest.backend = surfaces.backend /\ rest.remote = surfaces.remote
      BY <1>2, <1>5 DEF Tags, Bodies, AnyPane
    <2> HIDE DEF new
    <2>4. /\ a \in AllSurfaces /\ a.backend = rest.backend /\ a.remote = rest.remote
          /\ new \in ClientJobs /\ JobIsFormed(new) /\ new.kind = "request" /\ new.era = era
          /\ new.catalog = None
          /\ AppliedTo(rest, others)
               /\ (pane \in Sessions!PanesOf(rest.client.catalog) \/ Gone(pane, PlaceOf(rest)))
               => AppliedTo(a, others \cup {new})
      BY <1>2, <1>5, <1>8, <2>2, <2>3, AskFacts
    <2>5. AppliedTo(s, others) =>
            pane \in Sessions!PanesOf(rest.client.catalog) \/ Gone(pane, PlaceOf(rest))
      BY <1>2, <1>3, <1>5 DEF AppliedTo, ShownInv, PlaceOf
    <2> HIDE DEF a
    <2> QED
      BY <1>5, <1>6, <2>1, <2>4, <2>5
  <1> QED
    BY <1>7, <1>8

\* A completion that is not misapplied is of the one job that answers the client.
LEMMA CompletedFacts ==
    ASSUME SessionsInv, NEW job \in clientJobs, ~misapplied, Current(job)
    PROVE  /\ AppliedTo(surfaces, clientJobs)
           /\ AnswersShown(surfaces, job)
           /\ \A j \in clientJobs \ {job} : ~Current(j)
  BY DEF SessionsInv, AppliedTo, FlightInv

\* Whether the terminal tabs of a workspace are to be imported is no matter of the answers.
LEMMA PlanFacts ==
    ASSUME NEW s \in AllSurfaces, NEW plan \in BOOLEAN
    PROVE  LET d == [s EXCEPT !.plan = plan] IN
           /\ d \in AllSurfaces /\ d.client = s.client /\ d.backend = s.backend
           /\ d.remote = s.remote /\ d.pending = s.pending /\ d.selected = s.selected
           /\ \A pool : AppliedTo(s, pool) => AppliedTo(d, pool)
  <1> DEFINE d == [s EXCEPT !.plan = plan]
  <1>1. /\ d \in AllSurfaces /\ d.client = s.client /\ d.backend = s.backend
        /\ d.remote = s.remote /\ d.pending = s.pending /\ d.selected = s.selected
    BY DEF AllSurfaces
  <1> HIDE DEF d
  <1>2. \A pool : AppliedTo(s, pool) => AppliedTo(d, pool)
    BY <1>1 DEF AppliedTo, ShownInv, PlaceOf, FlightInv, AnswersShown, LinkInv, HelperIs
  <1> QED
    BY <1>1, <1>2 DEF d

\* An attempt to connect that failed leaves what was shown.
LEMMA ConnectFailedKeeps ==
    ASSUME NoneIsNothing, SessionsInv, NEW job \in clientJobs,
           Sessions!SessionsConnected(job), job.result # "ok"
    PROVE  SessionsInv'
  <1> DEFINE c == Sessions!ConnectFailed(surfaces.client)
             s == [surfaces EXCEPT !.client = c]
             others == clientJobs \ {job}
  <1>1. /\ job.kind = "connect" /\ job.result # "running" /\ surfaces' = s /\ clientJobs' = others
        /\ misapplied' = (misapplied \/ job.era # era)
        /\ UNCHANGED <<workspace, connecting, runtime, links, services, started, era>>
    BY DEF Sessions!SessionsConnected, Sessions!Overtaken
  <1>2. SurfacesTyped /\ surfaces \in AllSurfaces /\ surfaces.client \in Clients
    BY DEF SessionsInv, TypeInv, SurfacesTyped, AllSurfaces
  <1>3. /\ c \in Clients /\ ~c.inFlight /\ c.health \in {"Stale", "Failed"}
        /\ c.connection = surfaces.client.connection /\ c.catalog = surfaces.client.catalog
        /\ c.resync = surfaces.client.resync
        /\ OfOneInstance(surfaces.client) => OfOneInstance(c)
    BY <1>2, PlainFacts, PlainKeeps DEF Sessions!ConnectFailed, Sessions!Unreached, Clients
  <1> HIDE DEF c
  <1>4. /\ s \in AllSurfaces /\ s.client = c /\ s.backend = surfaces.backend
        /\ s.remote = surfaces.remote /\ s.pending = surfaces.pending
        /\ s.selected = surfaces.selected
    BY <1>2, <1>3 DEF AllSurfaces
  <1> HIDE DEF s
  <1>5. misapplied' \/ AppliedTo(s, others)
    <2>1. SUFFICES ASSUME ~misapplied, Current(job) PROVE AppliedTo(s, others)
      BY <1>1 DEF Current
    <2>2. /\ AppliedTo(surfaces, clientJobs) /\ AnswersShown(surfaces, job)
          /\ \A j \in others : ~Current(j)
      BY <2>1, CompletedFacts
    <2>3. PlaceOf(s) = PlaceOf(surfaces)
      BY <1>4 DEF PlaceOf
    <2>4. ShownInv(s)
      BY <1>3, <1>4, <2>2, <2>3 DEF AppliedTo, ShownInv
    <2>5. FlightInv(s, others)
      BY <1>3, <1>4, <2>2 DEF FlightInv
    <2>6. LinkInv(s, others)
      BY <1>1, <1>3, <1>4, <2>2 DEF AppliedTo, LinkInv, AnswersShown
    <2> QED
      BY <2>2, <2>4, <2>5, <2>6 DEF AppliedTo
  <1>6. s.pending # None => \E j \in others : j.kind = "request"
    BY <1>1, <1>4 DEF SessionsInv, Waits
  <1>7. s.remote = (s.backend # None) /\ misapplied' \in BOOLEAN
        /\ workspace' \in [terminal : BOOLEAN, migrated : BOOLEAN]
    BY <1>1, <1>2, <1>4 DEF SurfacesTyped
  <1> QED
    BY <1>1, <1>4, <1>5, <1>6, <1>7, SurfacesStep

\* A client that is connected shows the catalog it got, and asks for the screens it had or
\* for the import.
LEMMA ConnectedKeeps ==
    ASSUME NoneIsNothing, SessionsInv, NEW job \in clientJobs,
           Sessions!SessionsConnected(job), job.result = "ok"
    PROVE  SessionsInv'
  <1> DEFINE c == Sessions!Connected(surfaces.client, job.body, job.connection, job.catalog)
             d == [surfaces EXCEPT !.client = c]
             others == clientJobs \ {job}
  <1>1. /\ job.kind = "connect" /\ misapplied' = (misapplied \/ job.era # era)
        /\ UNCHANGED <<workspace, connecting, runtime, links, services, started, era>>
        /\ \E pane \in Sessions!Selections(d) :
             LET s == Sessions!Selected(d, pane) IN
             \/ s.client.resync # <<>> /\ Sessions!Resynced(s, others)
             \/ /\ Sessions!Migrates(s)
                /\ surfaces' = [Sessions!Asked(s, "migration") EXCEPT !.plan = TRUE]
                /\ clientJobs' = others \cup {[Sessions!Request(s, "import", None)
                                                 EXCEPT !.revision = Sessions!Revision(s.client)]}
             \/ surfaces' = s /\ clientJobs' = others
    BY DEF Sessions!SessionsConnected, Sessions!Overtaken
  <1>2. SurfacesTyped /\ surfaces \in AllSurfaces /\ surfaces.client \in Clients
    BY DEF SessionsInv, TypeInv, SurfacesTyped, AllSurfaces
  <1>3. /\ job \in ClientJobs /\ job.connection \in Connections /\ job.catalog \in Catalogs
        /\ job.catalog # None
    BY <1>1, HostFacts DEF JobIsFormed, ClientJobs
  <1>4. /\ c \in Clients /\ c.health = "Ready" /\ ~c.inFlight
        /\ c.connection = job.connection /\ c.catalog = job.catalog
        /\ \A i \in 1..Len(c.resync) : c.resync[i] \in job.catalog.panes
        /\ OfOneInstance(surfaces.client) /\ job.connection.instance = job.catalog.instance
             => OfOneInstance(c)
    <2>1. IsFiniteSet(Panes) /\ surfaces.client \in Clients
      BY <1>2, SessionsAssumption
    <2>2. c = Sessions!Connected(surfaces.client, job.body, job.connection, job.catalog)
      OBVIOUS
    <2> HIDE DEF c
    <2> QED
      BY <1>3, <2>1, <2>2, ConnectedFacts
  <1> HIDE DEF c
  <1>5. /\ d \in AllSurfaces /\ d.client = c /\ d.backend = surfaces.backend
        /\ d.remote = surfaces.remote /\ d.pending = surfaces.pending
    BY <1>2, <1>4 DEF AllSurfaces
  <1> HIDE DEF d
  <1>6. misapplied' \/ Landed(d, others)
    <2>1. SUFFICES ASSUME ~misapplied, Current(job) PROVE Landed(d, others)
      BY <1>1 DEF Current
    <2>2. /\ AppliedTo(surfaces, clientJobs) /\ AnswersShown(surfaces, job)
          /\ \A j \in others : ~Current(j)
      BY <2>1, CompletedFacts
    <2>3. PlaceOf(d) = PlaceOf(surfaces)
      BY <1>5 DEF PlaceOf
    <2>4. Sessions!PanesOf(d.client.catalog) = job.catalog.panes
      BY <1>3, <1>4, <1>5 DEF Sessions!PanesOf
    <2>5. Sessions!PanesOf(d.client.catalog) \subseteq services[PlaceOf(d)].given
      BY <1>4, <1>5, <2>2, <2>3 DEF SessionsInv, HostsInv, AnswersShown
    <2>6. LinkInv(d, others)
      <3>1. surfaces.remote => HelperIs(surfaces, job.connection.instance)
        BY <1>1, <2>1, <2>2 DEF AppliedTo, LinkInv
      <3>2. job.connection.instance = job.catalog.instance
        BY <1>1, <2>2 DEF AnswersShown
      <3>3. surfaces.client.health = "Connecting"
        BY <1>1, <2>2 DEF AnswersShown
      <3>4. surfaces.remote => HelperIs(d, d.client.catalog.instance)
        BY <1>4, <1>5, <3>1, <3>2 DEF HelperIs
      <3> HIDE DEF HelperIs
      <3> QED
        BY <1>5, <2>2, <3>3, <3>4 DEF AppliedTo, LinkInv
    <2>7. /\ OfOneInstance(d.client) /\ ~d.client.inFlight
          /\ d.client.connection.link = d.backend
      BY <1>1, <1>4, <1>5, <2>2 DEF AnswersShown, AppliedTo, ShownInv
    <2> QED
      BY <1>4, <1>5, <2>2, <2>4, <2>5, <2>6, <2>7 DEF Landed
  <1>7. PICK pane \in Sessions!Selections(d) :
          LET s == Sessions!Selected(d, pane) IN
          \/ s.client.resync # <<>> /\ Sessions!Resynced(s, others)
          \/ /\ Sessions!Migrates(s)
             /\ surfaces' = [Sessions!Asked(s, "migration") EXCEPT !.plan = TRUE]
             /\ clientJobs' = others \cup {[Sessions!Request(s, "import", None)
                                              EXCEPT !.revision = Sessions!Revision(s.client)]}
          \/ surfaces' = s /\ clientJobs' = others
    BY <1>1
  <1> DEFINE s == Sessions!Selected(d, pane)
  <1>8. /\ s \in AllSurfaces /\ s.client = c /\ s.backend = surfaces.backend
        /\ s.remote = surfaces.remote /\ s.pending = surfaces.pending
        /\ misapplied' \/ AppliedTo(s, others)
    BY <1>5, <1>6, SelectionFacts
  <1> HIDE DEF s
  <1>9. surfaces.pending # None => \E j \in others : j.kind = "request"
    BY <1>1 DEF SessionsInv, Waits
  <1>10. surfaces.remote = (surfaces.backend # None) /\ misapplied' \in BOOLEAN
         /\ workspace' \in [terminal : BOOLEAN, migrated : BOOLEAN]
    BY <1>1, <1>2 DEF SurfacesTyped
  <1>11. CASE s.client.resync # <<>> /\ Sessions!Resynced(s, others)
    <2>1. PICK a \in AllSurfaces : \E after :
            /\ surfaces' = a /\ clientJobs' = after
            /\ a.backend = s.backend /\ a.remote = s.remote
            /\ \/ after = others /\ a.pending = s.pending
               \/ \E new \in ClientJobs :
                    /\ after = others \cup {new}
                    /\ JobIsFormed(new) /\ new.kind = "request" /\ new.era = era
                    /\ new.catalog = None
            /\ AppliedTo(s, others) => AppliedTo(a, after)
      BY <1>2, <1>8, <1>11, ResyncedFacts
    <2>2. PICK after :
            /\ surfaces' = a /\ clientJobs' = after
            /\ a.backend = s.backend /\ a.remote = s.remote
            /\ \/ after = others /\ a.pending = s.pending
               \/ \E new \in ClientJobs :
                    /\ after = others \cup {new}
                    /\ JobIsFormed(new) /\ new.kind = "request" /\ new.era = era
                    /\ new.catalog = None
            /\ AppliedTo(s, others) => AppliedTo(a, after)
      BY <2>1
    <2> DEFINE added == \E new \in ClientJobs :
                          /\ after = others \cup {new}
                          /\ JobIsFormed(new) /\ new.era = era /\ new.catalog = None
    <2>3. (after = others \/ added) /\ (a.pending # None => \E j \in after : j.kind = "request")
      BY <1>8, <1>9, <2>2
    <2> HIDE DEF added
    <2>4. /\ surfaces' = a /\ clientJobs' = after /\ a.remote = (a.backend # None)
          /\ misapplied' \/ AppliedTo(a, after)
          /\ others \subseteq clientJobs
      BY <1>8, <1>10, <2>2
    <2> HIDE DEF others
    <2>5. \/ after = others
          \/ \E new \in ClientJobs :
               after = others \cup {new} /\ JobIsFormed(new) /\ new.era = era /\ new.catalog = None
      BY <2>3 DEF added
    <2> QED
      BY <1>1, <1>10, <2>3, <2>4, <2>5, SurfacesStep
  <1>12. CASE surfaces' = s /\ clientJobs' = others
    BY <1>1, <1>8, <1>9, <1>10, <1>12, SurfacesStep
  <1>13. CASE /\ Sessions!Migrates(s)
              /\ surfaces' = [Sessions!Asked(s, "migration") EXCEPT !.plan = TRUE]
              /\ clientJobs' = others \cup {[Sessions!Request(s, "import", None)
                                               EXCEPT !.revision = Sessions!Revision(s.client)]}
    <2> DEFINE a == Sessions!Asked(s, "migration")
               b == [a EXCEPT !.plan = TRUE]
               new == [Sessions!Request(s, "import", None)
                         EXCEPT !.revision = Sessions!Revision(s.client)]
    <2>1. Sessions!CanAsk(s) /\ surfaces' = b /\ clientJobs' = others \cup {new}
      BY <1>13 DEF Sessions!Migrates
    <2>2. \E r \in Nat : new = [Sessions!Request(s, "import", None) EXCEPT !.revision = r]
      <3>1. Sessions!Revision(s.client) \in Nat
        BY <1>4, <1>8 DEF Clients, Catalogs, Sessions!Revision
      <3> QED
        BY <3>1
    <2>3. "migration" \in Tags /\ "import" \in Bodies /\ None \in AnyPane
      BY DEF Tags, Bodies, AnyPane
    <2> HIDE DEF new
    <2>4. /\ a \in AllSurfaces /\ a.backend = s.backend /\ a.remote = s.remote
          /\ new \in ClientJobs /\ JobIsFormed(new) /\ new.kind = "request" /\ new.era = era
          /\ new.catalog = None
          /\ AppliedTo(s, others) => AppliedTo(a, others \cup {new})
      BY <1>2, <1>8, <2>1, <2>2, <2>3, AskFacts
    <2> HIDE DEF a
    <2>5. /\ b \in AllSurfaces /\ b.backend = s.backend /\ b.remote = s.remote
          /\ AppliedTo(a, others \cup {new}) => AppliedTo(b, others \cup {new})
      BY <2>4, PlanFacts
    <2> HIDE DEF b
    <2> QED
      BY <1>1, <1>8, <1>10, <2>1, <2>4, <2>5, SurfacesStep
  <1> QED
    BY <1>7, <1>11, <1>12, <1>13 DEF s

\* What came back for a request leaves the client typed.
LEMMA AnswerFacts ==
    ASSUME NoneIsNothing, SessionsInv, NEW job \in clientJobs, job.kind = "request",
           NEW c, c = Sessions!FinishRequest(surfaces.client, job.connection, job.result, job.catalog),
           NEW e, \/ e = c
                  \/ /\ job.result = "screen"
                     /\ e = Sessions!ApplySnapshot(c, job.pane, job.connection.instance)
    PROVE  /\ c \in Clients /\ ~c.inFlight
           /\ e \in Clients /\ ~e.inFlight /\ e.health = c.health /\ e.connection = c.connection
           /\ e.catalog = c.catalog /\ e.resync = c.resync
           /\ c.resync = surfaces.client.resync
           /\ c.connection # None => c.connection = job.connection
           /\ \/ c.catalog = surfaces.client.catalog
              \/ /\ job.result = "catalog" /\ job.catalog.instance = job.connection.instance
                 /\ c.catalog = job.catalog /\ job.catalog \in Catalogs
           /\ job.result = "screen" =>
                job.body = "snapshot" /\ job.pane \in Panes /\ job.connection.instance \in Nat
           /\ OfOneInstance(surfaces.client) /\ surfaces.client.health = "Ready"
                /\ job.connection.instance = surfaces.client.catalog.instance => OfOneInstance(c)
  <1> DEFINE old == surfaces.client
             connection == job.connection
             result == job.result
             catalog == job.catalog
  <1>1. old \in Clients
    BY DEF SessionsInv, TypeInv, SurfacesTyped, AllSurfaces
  <1>2. /\ connection \in Connections /\ (result = "catalog" => catalog \in Catalogs)
        /\ result = "screen" => job.body = "snapshot" /\ job.pane \in Panes
    BY HostFacts DEF JobIsFormed, ClientJobs
  <1>3. connection.instance \in Nat
    BY <1>2 DEF Connections
  <1>4. c = Sessions!FinishRequest(old, connection, result, catalog)
    OBVIOUS
  <1>5. OfOneInstance(old) /\ old.health = "Ready" => old.catalog # None
    BY DEF OfOneInstance
  <1> HIDE DEF old, connection, result, catalog
  <1>6. /\ c \in Clients /\ ~c.inFlight /\ c.resync = old.resync
        /\ c.connection # None => c.connection = connection
        /\ \/ c.catalog = old.catalog
           \/ result = "catalog" /\ catalog.instance = connection.instance /\ c.catalog = catalog
        /\ OfOneInstance(old) /\ old.health = "Ready"
             /\ connection.instance = old.catalog.instance => OfOneInstance(c)
    <2> DEFINE d == Sessions!FinishRequest(old, connection, result, catalog)
               changes == result = "catalog" /\ catalog.instance = connection.instance
               fails == result = "lost" \/ (result = "catalog" /\ ~changes)
    <2>1. /\ d \in Clients
          /\ ~d.inFlight
          /\ fails => d = Sessions!MarkTransportLost(old)
          /\ ~fails /\ result # "detached" => d.connection = connection /\ d.health = old.health
          /\ result = "detached" => d.connection = None /\ d.health = "Stopped"
          /\ d.catalog = IF changes THEN catalog ELSE old.catalog
          /\ d.resync = old.resync
          /\ OfOneInstance(old) /\ old.catalog # None
               /\ connection.instance = old.catalog.instance
               /\ old.health = "Ready" => OfOneInstance(d)
      BY <1>1, <1>2, FinishFacts
    <2>2. Sessions!MarkTransportLost(old).connection = None
      BY <1>1, LostFacts
    <2> QED
      BY <1>4, <1>5, <2>1, <2>2
  <1>7. CASE e = c
    BY <1>2, <1>3, <1>6, <1>7 DEF old, connection, result, catalog
  <1>8. CASE job.result = "screen" /\ e = Sessions!ApplySnapshot(c, job.pane, job.connection.instance)
    <2>1. job.pane \in Panes
      BY <1>2, <1>8 DEF result
    <2>2. /\ e \in Clients /\ e.health = c.health /\ e.inFlight = c.inFlight
          /\ e.connection = c.connection /\ e.catalog = c.catalog /\ e.resync = c.resync
      BY <1>3, <1>6, <1>8, <2>1, SnapshotFacts DEF connection
    <2> QED
      BY <1>2, <1>3, <1>6, <2>2 DEF old, connection, result, catalog
  <1> QED
    BY <1>7, <1>8

\* The answer to the request of this era lands in the client that made it.
LEMMA AnswerLands ==
    ASSUME NoneIsNothing, SessionsInv, NEW job \in clientJobs, job.kind = "request",
           ~misapplied, Current(job),
           NEW c, c = Sessions!FinishRequest(surfaces.client, job.connection, job.result, job.catalog),
           NEW s, s.backend = surfaces.backend, s.remote = surfaces.remote,
           \/ s.client = c
           \/ /\ job.result = "screen"
              /\ s.client = Sessions!ApplySnapshot(c, job.pane, job.connection.instance)
    PROVE  Landed(s, clientJobs \ {job})
  <1> DEFINE e == s.client
             place == PlaceOf(surfaces)
  <1>1. /\ c \in Clients /\ ~c.inFlight
        /\ e \in Clients /\ ~e.inFlight /\ e.health = c.health /\ e.connection = c.connection
        /\ e.catalog = c.catalog /\ e.resync = c.resync
        /\ c.resync = surfaces.client.resync
        /\ c.connection # None => c.connection = job.connection
        /\ \/ c.catalog = surfaces.client.catalog
           \/ /\ job.result = "catalog" /\ job.catalog.instance = job.connection.instance
              /\ c.catalog = job.catalog /\ job.catalog \in Catalogs
        /\ job.result = "screen" =>
             job.body = "snapshot" /\ job.pane \in Panes /\ job.connection.instance \in Nat
        /\ OfOneInstance(surfaces.client) /\ surfaces.client.health = "Ready"
             /\ job.connection.instance = surfaces.client.catalog.instance => OfOneInstance(c)
    BY AnswerFacts
  <1>2. /\ ShownInv(surfaces) /\ LinkInv(surfaces, clientJobs)
        /\ AnswersShown(surfaces, job)
        /\ \A j \in clientJobs \ {job} : ~Current(j)
    BY CompletedFacts DEF AppliedTo
  <1>3. /\ job.link = surfaces.backend /\ job.place = place /\ surfaces.client.health = "Ready"
        /\ job.connection.link = job.link
        /\ job.connection.instance = surfaces.client.catalog.instance
        /\ job.result = "catalog" =>
             \A i \in 1..Len(surfaces.client.resync) :
               \/ surfaces.client.resync[i] \in job.catalog.panes
               \/ Gone(surfaces.client.resync[i], place)
        /\ job.body = "snapshot" /\ job.result = "screen" =>
             job.pane \in Sessions!PanesOf(surfaces.client.catalog)
    BY <1>2 DEF AnswersShown
  <1>4. OfOneInstance(surfaces.client) /\ OfOneInstance(c)
    BY <1>1, <1>2, <1>3 DEF ShownInv
  <1>5. OfOneInstance(e)
    <2>1. CASE e = c
      BY <1>4, <2>1
    <2>2. CASE e # c
      <3>1. job.result = "screen" /\ e = Sessions!ApplySnapshot(c, job.pane, job.connection.instance)
        BY <2>2
      <3>2. c.catalog = surfaces.client.catalog
        BY <1>1, <3>1
      <3> HIDE DEF e
      <3> QED
        BY <1>1, <1>3, <1>4, <3>1, <3>2, SnapshotFacts
    <2> QED
      BY <2>1, <2>2
  <1>6. PlaceOf(s) = place
    BY DEF PlaceOf
  <1>7. job.catalog \in Catalogs => Sessions!PanesOf(job.catalog) = job.catalog.panes
    BY DEF NoneIsNothing, Sessions!PanesOf
  <1>8. Sessions!PanesOf(e.catalog) \subseteq services[place].given
    BY <1>1, <1>2, <1>3 DEF ShownInv, SessionsInv, HostsInv
  <1>9. \A i \in 1..Len(e.resync) :
          e.resync[i] \in Sessions!PanesOf(e.catalog) \/ Gone(e.resync[i], place)
    BY <1>1, <1>2, <1>3, <1>7 DEF ShownInv
  <1>10. e.catalog.instance = surfaces.client.catalog.instance
    BY <1>1, <1>3
  <1>11. LinkInv(s, clientJobs \ {job})
    <2>1. surfaces.remote => HelperIs(s, e.catalog.instance)
      BY <1>2, <1>3, <1>10 DEF LinkInv, HelperIs
    <2> QED
      BY <1>2, <1>3, <2>1 DEF LinkInv
  <1>12. e.connection # None => e.connection.link = s.backend
    BY <1>1, <1>3
  <1> HIDE DEF place
  <1> QED
    BY <1>1, <1>2, <1>5, <1>6, <1>8, <1>9, <1>11, <1>12 DEF Landed

\* What has landed is applied when the selection is of the catalog.
LEMMA LandedFacts ==
    ASSUME NEW s, NEW pool, Landed(s, pool),
           s.selected # None => s.selected \in Sessions!PanesOf(s.client.catalog)
    PROVE  AppliedTo(s, pool)
  BY DEF Landed, AppliedTo, ShownInv, FlightInv

\* A completion that nobody waits for is dropped: it is of an earlier era.
LEMMA DroppedKeeps ==
    ASSUME NoneIsNothing, SessionsInv, NEW job \in clientJobs,
           Sessions!SessionRequestFinished(job), surfaces.pending = None
    PROVE  SessionsInv'
  <1> DEFINE others == clientJobs \ {job}
  <1>1. /\ job.kind = "request" /\ surfaces' = surfaces /\ clientJobs' = others
        /\ UNCHANGED <<workspace, misapplied, connecting, runtime, links, services, started, era>>
    BY DEF Sessions!SessionRequestFinished
  <1>2. SurfacesTyped /\ surfaces \in AllSurfaces /\ surfaces.remote = (surfaces.backend # None)
    BY DEF SessionsInv, TypeInv, SurfacesTyped
  <1>3. misapplied' \/ AppliedTo(surfaces, others)
    <2>1. SUFFICES ASSUME ~misapplied, AppliedTo(surfaces, clientJobs)
                   PROVE  AppliedTo(surfaces, others)
      BY <1>1 DEF SessionsInv
    <2>2. ~Current(job)
      BY <1>1, <2>1 DEF AppliedTo, AnswersShown
    <2> QED
      BY <2>1, <2>2 DEF AppliedTo, FlightInv, LinkInv
  <1>4. /\ misapplied' \in BOOLEAN /\ workspace' \in [terminal : BOOLEAN, migrated : BOOLEAN]
    BY <1>1, <1>2 DEF SurfacesTyped
  <1> QED
    BY <1>1, <1>2, <1>3, <1>4, SurfacesStep

\* A request that failed takes the mark away and leaves the selection.
LEMMA FailedKeeps ==
    ASSUME NoneIsNothing, SessionsInv, NEW job \in clientJobs, job.kind = "request",
           NEW c, c = Sessions!FinishRequest(surfaces.client, job.connection, job.result, job.catalog),
           NEW plan \in BOOLEAN,
           surfaces' = [surfaces EXCEPT !.pending = None, !.client = c, !.plan = plan],
           clientJobs' = clientJobs \ {job},
           \/ job.result = "lost" \/ job.result = "refused"
           \/ job.result = "catalog" /\ job.catalog.instance # job.connection.instance,
           misapplied' = (misapplied \/ job.era # era),
           workspace' \in [terminal : BOOLEAN, migrated : BOOLEAN],
           UNCHANGED <<connecting, runtime, links, services, started, era>>
    PROVE  SessionsInv'
  <1> DEFINE s == [surfaces EXCEPT !.pending = None, !.client = c, !.plan = plan]
             others == clientJobs \ {job}
  <1>1. SurfacesTyped /\ surfaces \in AllSurfaces /\ surfaces.remote = (surfaces.backend # None)
        /\ misapplied \in BOOLEAN
    BY DEF SessionsInv, TypeInv, SurfacesTyped
  <1>2. c \in Clients /\ c.catalog = surfaces.client.catalog
    BY AnswerFacts
  <1>3. /\ s \in AllSurfaces /\ s.client = c /\ s.backend = surfaces.backend
        /\ s.remote = surfaces.remote /\ s.pending = None /\ s.selected = surfaces.selected
    BY <1>1, <1>2 DEF AllSurfaces
  <1>4. surfaces' = s /\ clientJobs' = others
    OBVIOUS
  <1> HIDE DEF s
  <1>5. misapplied' \/ AppliedTo(s, others)
    <2>1. SUFFICES ASSUME ~misapplied, Current(job) PROVE AppliedTo(s, others)
      BY DEF Current
    <2>2. Landed(s, others)
      BY <1>3, <2>1, AnswerLands
    <2>3. s.selected # None => s.selected \in Sessions!PanesOf(s.client.catalog)
      BY <1>2, <1>3, <2>1, CompletedFacts DEF AppliedTo, ShownInv
    <2> QED
      BY <2>2, <2>3, LandedFacts
  <1>6. s.remote = (s.backend # None) /\ misapplied' \in BOOLEAN
    BY <1>1, <1>3
  <1> HIDE DEF others
  <1>7. others \subseteq clientJobs
    BY DEF others
  <1> QED
    BY <1>3, <1>4, <1>5, <1>6, <1>7, SurfacesStep

\* An answer is shown, the selection follows the catalog, and the next pane is asked for.
LEMMA AnsweredKeeps ==
    ASSUME NoneIsNothing, SessionsInv, NEW job \in clientJobs, job.kind = "request",
           NEW c, c = Sessions!FinishRequest(surfaces.client, job.connection, job.result, job.catalog),
           NEW e, \/ e = c
                  \/ /\ job.result = "screen"
                     /\ e = Sessions!ApplySnapshot(c, job.pane, job.connection.instance),
           NEW plan \in BOOLEAN, NEW d,
           d = [surfaces EXCEPT !.pending = None, !.client = e, !.plan = plan],
           NEW pane \in Sessions!Selections(d), NEW s, s = Sessions!Selected(d, pane),
           \/ s.client.resync # <<>> /\ Sessions!Resynced(s, clientJobs \ {job})
           \/ surfaces' = s /\ clientJobs' = clientJobs \ {job},
           misapplied' = (misapplied \/ job.era # era),
           workspace' \in [terminal : BOOLEAN, migrated : BOOLEAN],
           UNCHANGED <<connecting, runtime, links, services, started, era>>
    PROVE  SessionsInv'
  <1> DEFINE others == clientJobs \ {job}
  <1>1. SurfacesTyped /\ surfaces \in AllSurfaces /\ surfaces.remote = (surfaces.backend # None)
        /\ misapplied \in BOOLEAN
    BY DEF SessionsInv, TypeInv, SurfacesTyped
  <1>2. e \in Clients
    BY AnswerFacts
  <1>3. /\ d \in AllSurfaces /\ d.client = e /\ d.backend = surfaces.backend
        /\ d.remote = surfaces.remote /\ d.pending = None
    BY <1>1, <1>2 DEF AllSurfaces
  <1>4. misapplied' \/ Landed(d, others)
    <2>1. SUFFICES ASSUME ~misapplied, Current(job) PROVE Landed(d, others)
      BY DEF Current
    <2> QED
      BY <1>3, <2>1, AnswerLands
  <1>5. /\ s \in AllSurfaces /\ s.backend = surfaces.backend
        /\ s.remote = surfaces.remote /\ s.pending = None
        /\ misapplied' \/ AppliedTo(s, others)
    BY <1>3, <1>4, SelectionFacts
  <1>6. others \subseteq clientJobs /\ misapplied' \in BOOLEAN
    BY <1>1
  <1>7. CASE s.client.resync # <<>> /\ Sessions!Resynced(s, others)
    <2>1. PICK a \in AllSurfaces : \E after :
            /\ surfaces' = a /\ clientJobs' = after
            /\ a.backend = s.backend /\ a.remote = s.remote
            /\ \/ after = others /\ a.pending = s.pending
               \/ \E new \in ClientJobs :
                    /\ after = others \cup {new}
                    /\ JobIsFormed(new) /\ new.kind = "request" /\ new.era = era
                    /\ new.catalog = None
            /\ AppliedTo(s, others) => AppliedTo(a, after)
      BY <1>1, <1>5, <1>7, ResyncedFacts
    <2>2. PICK after :
            /\ surfaces' = a /\ clientJobs' = after
            /\ a.backend = s.backend /\ a.remote = s.remote
            /\ \/ after = others /\ a.pending = s.pending
               \/ \E new \in ClientJobs :
                    /\ after = others \cup {new}
                    /\ JobIsFormed(new) /\ new.kind = "request" /\ new.era = era
                    /\ new.catalog = None
            /\ AppliedTo(s, others) => AppliedTo(a, after)
      BY <2>1
    <2> HIDE DEF others
    <2>3. /\ \/ after = others
             \/ \E new \in ClientJobs :
                  after = others \cup {new} /\ JobIsFormed(new) /\ new.era = era /\ new.catalog = None
          /\ a.pending # None => \E j \in after : j.kind = "request"
      BY <1>5, <2>2
    <2>4. /\ surfaces' = a /\ clientJobs' = after /\ a.remote = (a.backend # None)
          /\ misapplied' \/ AppliedTo(a, after)
      BY <1>1, <1>5, <2>2
    <2> QED
      BY <1>6, <2>3, <2>4, SurfacesStep
  <1>8. CASE surfaces' = s /\ clientJobs' = others
    <2>1. s.remote = (s.backend # None) /\ clientJobs' = others /\ surfaces' = s
      BY <1>1, <1>5, <1>8
    <2> HIDE DEF others
    <2> QED
      BY <1>5, <1>6, <2>1, SurfacesStep
  <1> QED
    BY <1>7, <1>8

\* The answer to a request.
LEMMA RequestFinishedKeeps ==
    ASSUME NoneIsNothing, SessionsInv, NEW job \in clientJobs,
           Sessions!SessionRequestFinished(job)
    PROVE  SessionsInv'
  <1> DEFINE c == Sessions!FinishRequest(surfaces.client, job.connection, job.result, job.catalog)
             shows == surfaces.pending = "snapshot" /\ job.result = "screen"
             e == IF shows THEN Sessions!ApplySnapshot(c, job.pane, job.connection.instance) ELSE c
             imported == surfaces.pending = "migration" /\ job.result = "catalog" /\ surfaces.plan
             plan == surfaces.plan /\ ~imported
             failed == \/ job.result \in {"lost", "refused"}
                       \/ /\ job.result = "catalog"
                          /\ job.catalog.instance # job.connection.instance
             migrated == workspace.migrated \/ (imported /\ ~failed)
             d == [surfaces EXCEPT !.pending = None, !.client = e, !.plan = plan]
             others == clientJobs \ {job}
  <1>1. CASE surfaces.pending = None
    BY <1>1, DroppedKeeps
  <1>2. CASE surfaces.pending # None
    <2>1. /\ job.kind = "request" /\ misapplied' = (misapplied \/ job.era # era)
          /\ workspace' = [workspace EXCEPT !.migrated = migrated]
          /\ UNCHANGED <<connecting, runtime, links, services, started, era>>
      BY <1>2 DEF Sessions!SessionRequestFinished, Sessions!Overtaken
    <2>2. workspace' \in [terminal : BOOLEAN, migrated : BOOLEAN]
      BY <2>1 DEF SessionsInv, TypeInv, SurfacesTyped
    <2>3. surfaces \in AllSurfaces /\ plan \in BOOLEAN
      BY DEF SessionsInv, TypeInv, SurfacesTyped, AllSurfaces
    <2>4. CASE failed
      <3>1. /\ surfaces' = [d EXCEPT !.client = c] /\ clientJobs' = others
        BY <1>2, <2>4 DEF Sessions!SessionRequestFinished
      <3>2. surfaces' = [surfaces EXCEPT !.pending = None, !.client = c, !.plan = plan]
        BY <2>3, <3>1 DEF AllSurfaces
      <3> HIDE DEF c, plan
      <3> QED
        BY <2>1, <2>2, <2>3, <2>4, <3>1, <3>2, FailedKeeps DEF c
    <2>5. CASE ~failed
      <3>1. \E pane \in Sessions!Selections(d) :
              LET s == Sessions!Selected(d, pane) IN
              \/ s.client.resync # <<>> /\ Sessions!Resynced(s, others)
              \/ surfaces' = s /\ clientJobs' = others
        BY <1>2, <2>5 DEF Sessions!SessionRequestFinished
      <3>2. \/ e = c
            \/ job.result = "screen" /\ e = Sessions!ApplySnapshot(c, job.pane, job.connection.instance)
        OBVIOUS
      <3> HIDE DEF e, plan, c
      <3> QED
        BY <2>1, <2>2, <2>3, <3>1, <3>2, AnsweredKeeps DEF c
    <2> QED
      BY <2>4, <2>5
  <1> QED
    BY <1>1, <1>2

-----------------------------------------------------------------------------
(* The SSH connection.                                                      *)

\* The links change, and the surfaces with them: jobs and services go on.
LEMMA LinkStep ==
    ASSUME SessionsInv, NEW s \in AllSurfaces, s.remote = (s.backend # None), surfaces' = s,
           UNCHANGED <<workspace, clientJobs, services, started, misapplied>>,
           connecting' \in BOOLEAN, runtime' \in Links \cup {None}, era' = era \/ era' = era + 1,
           DOMAIN links' \subseteq Links, links' \in [DOMAIN links' -> Clients],
           \A l \in DOMAIN links' :
             links'[l] = Sessions!NewClient \/ (l \in DOMAIN links /\ links'[l] = links[l]),
           s.pending # None => surfaces.pending # None,
           ~misapplied => AppliedTo(surfaces, clientJobs)'
    PROVE  SessionsInv'
  <1>1. SurfacesTyped /\ JobsTyped /\ HostsTyped /\ HostsInv /\ era \in Nat
    BY DEF SessionsInv, TypeInv, SurfacesTyped
  <1>2. SurfacesTyped'
    BY <1>1 DEF SurfacesTyped
  <1>3. JobsTyped'
    <2>1. \A j \in clientJobs : j.era <= era'
      BY <1>1 DEF JobsTyped, ClientJobs
    <2> QED
      BY <1>1, <2>1 DEF JobsTyped
  <1>4. HostsTyped'
    BY <1>1 DEF HostsTyped
  <1>5. HostsInv'
    <2>1. \A l \in DOMAIN links' :
            /\ OfOneInstance(links'[l])
            /\ ~links'[l].inFlight
            /\ Sessions!PanesOf(links'[l].catalog) \subseteq services["remote"].given
      BY <1>1, NewClientFacts DEF HostsInv
    <2> QED
      BY <1>1, <2>1 DEF HostsInv
  <1>6. Waits'
    BY DEF SessionsInv, Waits
  <1> QED
    BY <1>2, <1>3, <1>4, <1>5, <1>6 DEF SessionsInv, TypeInv

\* Without a link, the others are what they were.
LEMMA FewerLinks ==
    ASSUME SessionsInv, NEW gone, links' = [l \in DOMAIN links \ {gone} |-> links[l]]
    PROVE  /\ DOMAIN links' \subseteq Links /\ links' \in [DOMAIN links' -> Clients]
           /\ \A l \in DOMAIN links' : l \in DOMAIN links /\ links'[l] = links[l]
  BY HostFacts

\* A link that fails, or that nothing refers to any more.
LEMMA LinkGone ==
    ASSUME SessionsInv, NEW link, Sessions!LinkFails(link) \/ Sessions!LinkDropped(link)
    PROVE  SessionsInv'
  <1>1. /\ links' = [l \in DOMAIN links \ {link} |-> links[l]]
        /\ UNCHANGED <<surfaces, workspace, connecting, runtime, clientJobs, services, started, era,
                       misapplied>>
    BY DEF Sessions!LinkFails, Sessions!LinkDropped, Sessions!app
  <1>2. /\ DOMAIN links' \subseteq Links /\ links' \in [DOMAIN links' -> Clients]
        /\ \A l \in DOMAIN links' : l \in DOMAIN links /\ links'[l] = links[l]
    BY <1>1, FewerLinks
  <1>3. /\ surfaces \in AllSurfaces /\ surfaces.remote = (surfaces.backend # None)
        /\ connecting \in BOOLEAN /\ runtime \in Links \cup {None}
    BY DEF SessionsInv, TypeInv, SurfacesTyped
  <1>4. ~misapplied => AppliedTo(surfaces, clientJobs)'
    <2>1. \A i : HelperIs(surfaces, i) => HelperIs(surfaces, i)'
      BY <1>1, <1>2 DEF HelperIs
    <2>2. LinkInv(surfaces, clientJobs) => LinkInv(surfaces, clientJobs)'
      <3> HIDE DEF HelperIs
      <3> QED
        BY <1>1, <2>1 DEF LinkInv, Current
    <2>3. ShownInv(surfaces) => ShownInv(surfaces)'
      BY <1>1 DEF ShownInv, Gone, PlaceOf
    <2>4. FlightInv(surfaces, clientJobs) => FlightInv(surfaces, clientJobs)'
      BY <1>1 DEF FlightInv, Current
    <2>5. \A j : AnswersShown(surfaces, j) => AnswersShown(surfaces, j)'
      BY <1>1 DEF AnswersShown, Gone, PlaceOf
    <2> QED
      BY <1>1, <2>2, <2>3, <2>4, <2>5 DEF SessionsInv, AppliedTo, Current
  <1> QED
    BY <1>1, <1>2, <1>3, <1>4, LinkStep

\* A connection that is being made, or could not be, changes nothing that is shown.
LEMMA ConnectingKeeps ==
    ASSUME SessionsInv, Sessions!ConnectRemote \/ Sessions!RemoteFailed
    PROVE  SessionsInv'
  <1>1. /\ connecting' \in BOOLEAN /\ (runtime' = runtime \/ runtime' = None)
        /\ UNCHANGED <<surfaces, workspace, clientJobs, links, services, started, era, misapplied>>
    BY DEF Sessions!ConnectRemote, Sessions!RemoteFailed
  <1>2. /\ surfaces \in AllSurfaces /\ surfaces.remote = (surfaces.backend # None)
        /\ runtime' \in Links \cup {None}
        /\ DOMAIN links \subseteq Links /\ links \in [DOMAIN links -> Clients]
    BY <1>1 DEF SessionsInv, TypeInv, SurfacesTyped, HostsTyped
  <1>3. ~misapplied => AppliedTo(surfaces, clientJobs)'
    <2>1. LinkInv(surfaces, clientJobs) => LinkInv(surfaces, clientJobs)'
      BY <1>1 DEF LinkInv, Current, HelperIs
    <2>2. ShownInv(surfaces) => ShownInv(surfaces)'
      BY <1>1 DEF ShownInv, Gone, PlaceOf
    <2>3. FlightInv(surfaces, clientJobs) => FlightInv(surfaces, clientJobs)'
      BY <1>1 DEF FlightInv, Current
    <2>4. \A j : AnswersShown(surfaces, j) => AnswersShown(surfaces, j)'
      BY <1>1 DEF AnswersShown, Gone, PlaceOf
    <2> QED
      BY <1>1, <2>1, <2>2, <2>3, <2>4 DEF SessionsInv, AppliedTo, Current
  <1> QED
    BY <1>1, <1>2, <1>3, LinkStep

\* Surfaces that are new show nothing and wait for nothing.
LEMMA NewSurfacesFacts ==
    ASSUME NoneIsNothing, NEW backend \in Links
    PROVE  LET s == Sessions!NewSurfaces(backend) IN
           /\ s \in AllSurfaces /\ s.remote /\ s.backend = backend /\ s.backend # None
           /\ s.client = Sessions!NewClient /\ s.pending = None /\ s.selected = None
  <1>1. backend # None
    BY SessionsAssumption DEF Links, NoneIsNothing
  <1> QED
    BY <1>1, NewClientFacts DEF Sessions!NewSurfaces, AllSurfaces

\* With a client that is new, and jobs of earlier eras only, the invariant holds if none of
\* these connects over its link.
LEMMA NewSurfacesApply ==
    ASSUME NoneIsNothing, SessionsInv, NEW backend \in Links, era' = era + 1,
           surfaces' = Sessions!NewSurfaces(backend), UNCHANGED clientJobs, runtime' = backend,
           \A j \in clientJobs :
             j.kind = "connect" /\ j.result = "running" => j.link # backend
    PROVE  AppliedTo(surfaces, clientJobs)'
  <1> DEFINE s == Sessions!NewSurfaces(backend)
  <1>1. /\ s.remote /\ s.backend = backend /\ s.client = Sessions!NewClient /\ s.selected = None
        /\ surfaces' = s
    BY NewSurfacesFacts
  <1> HIDE DEF s
  <1>2. \A j \in clientJobs : ~Current(j)'
    BY DEF SessionsInv, TypeInv, SurfacesTyped, JobsTyped, ClientJobs, Current
  <1>3. ShownInv(surfaces)'
    BY <1>1, NewClientFacts DEF ShownInv
  <1>4. FlightInv(surfaces, clientJobs)'
    BY <1>1, <1>2, NewClientFacts DEF FlightInv
  <1>5. LinkInv(surfaces, clientJobs)'
    BY <1>1, <1>2, NewClientFacts DEF LinkInv
  <1> QED
    BY <1>2, <1>3, <1>4, <1>5 DEF AppliedTo

\* Another provider is selected.
LEMMA SelectProviderKeeps ==
    ASSUME NoneIsNothing, SessionsInv, Sessions!SelectProvider
    PROVE  SessionsInv'
  <1>1. /\ surfaces.remote /\ ~surfaces.client.inFlight /\ runtime # None
        /\ surfaces' = Sessions!NewSurfaces(runtime) /\ era' = era + 1
        /\ UNCHANGED <<workspace, clientJobs, connecting, runtime, links, services, started,
                       misapplied>>
    BY DEF Sessions!SelectProvider
  <1>2. runtime \in Links /\ connecting \in BOOLEAN
        /\ DOMAIN links \subseteq Links /\ links \in [DOMAIN links -> Clients]
    BY <1>1 DEF SessionsInv, TypeInv, SurfacesTyped, HostsTyped
  <1> DEFINE s == Sessions!NewSurfaces(runtime)
  <1>3. s \in AllSurfaces /\ s.remote = (s.backend # None) /\ s.pending = None /\ surfaces' = s
    BY <1>1, <1>2, NewSurfacesFacts
  <1> HIDE DEF s
  <1>4. ASSUME ~misapplied PROVE AppliedTo(surfaces, clientJobs)'
    <2>1. \A j \in clientJobs :
            j.kind = "connect" /\ j.result = "running" => j.link # runtime
      BY <1>1, <1>4 DEF SessionsInv, AppliedTo, FlightInv, LinkInv
    <2> QED
      BY <1>1, <1>2, <2>1, NewSurfacesApply
  <1> QED
    BY <1>1, <1>2, <1>3, <1>4, LinkStep

\* The connection is given up: a remote client is cut off from what it asked.
LEMMA DisconnectKeeps ==
    ASSUME NoneIsNothing, SessionsInv, Sessions!DisconnectRemote
    PROVE  SessionsInv'
  <1> DEFINE c == Sessions!MarkTransportLost(surfaces.client)
             s == IF surfaces.remote THEN [surfaces EXCEPT !.client = c] ELSE surfaces
  <1>1. /\ connecting' = FALSE /\ runtime' = None
        /\ links' = [l \in DOMAIN links \ {runtime} |-> links[l]]
        /\ surfaces' = s
        /\ era' = IF surfaces.remote THEN era + 1 ELSE era
        /\ UNCHANGED <<workspace, clientJobs, services, started, misapplied>>
    BY DEF Sessions!DisconnectRemote
  <1>2. /\ surfaces \in AllSurfaces /\ surfaces.client \in Clients
        /\ surfaces.remote = (surfaces.backend # None)
    BY DEF SessionsInv, TypeInv, SurfacesTyped, AllSurfaces
  <1>3. /\ c \in Clients /\ ~c.inFlight /\ c.connection = None /\ c.health \in {"Stale", "Failed"}
        /\ c.catalog = surfaces.client.catalog /\ c.resync = surfaces.client.resync
        /\ OfOneInstance(surfaces.client) => OfOneInstance(c)
    BY <1>2, LostFacts
  <1> HIDE DEF c
  <1>4. /\ s \in AllSurfaces /\ s.remote = surfaces.remote /\ s.backend = surfaces.backend
        /\ s.pending = surfaces.pending /\ s.selected = surfaces.selected
        /\ s.client = IF surfaces.remote THEN c ELSE surfaces.client
    BY <1>2, <1>3 DEF AllSurfaces
  <1> HIDE DEF s
  <1>5. /\ DOMAIN links' \subseteq Links /\ links' \in [DOMAIN links' -> Clients]
        /\ \A l \in DOMAIN links' : l \in DOMAIN links /\ links'[l] = links[l]
    BY <1>1, FewerLinks
  <1>6. ASSUME ~misapplied PROVE AppliedTo(surfaces, clientJobs)'
    <2>1. AppliedTo(surfaces, clientJobs)
      BY <1>6 DEF SessionsInv
    <2>2. PlaceOf(s) = PlaceOf(surfaces)
      BY <1>4 DEF PlaceOf
    <2>3. ShownInv(surfaces)'
      BY <1>1, <1>3, <1>4, <2>1, <2>2 DEF AppliedTo, ShownInv, Gone
    <2>4. CASE surfaces.remote
      <3>1. \A j \in clientJobs : ~Current(j)'
        BY <1>1, <2>4 DEF SessionsInv, TypeInv, SurfacesTyped, JobsTyped, ClientJobs, Current
      <3>2. FlightInv(surfaces, clientJobs)'
        BY <1>1, <1>3, <1>4, <2>4, <3>1 DEF FlightInv
      <3>3. LinkInv(surfaces, clientJobs)'
        BY <1>1, <1>3, <1>4, <2>4, <3>1 DEF LinkInv
      <3> QED
        BY <1>1, <2>3, <3>1, <3>2, <3>3 DEF AppliedTo
    <2>5. CASE ~surfaces.remote
      <3>1. FlightInv(surfaces, clientJobs)'
        BY <1>1, <1>4, <2>1, <2>5 DEF AppliedTo, FlightInv, Current
      <3>2. LinkInv(surfaces, clientJobs)'
        BY <1>1, <1>4, <2>5 DEF LinkInv
      <3>3. \A j : AnswersShown(surfaces, j) => AnswersShown(surfaces, j)'
        BY <1>1, <1>4, <2>2, <2>5 DEF AnswersShown, Gone
      <3> QED
        BY <1>1, <2>1, <2>3, <2>5, <3>1, <3>2, <3>3 DEF AppliedTo, Current
    <2> QED
      BY <2>4, <2>5
  <1>7. era' = era \/ era' = era + 1
    BY <1>1
  <1> QED
    BY <1>1, <1>2, <1>4, <1>5, <1>6, <1>7, LinkStep

\* A new link has a number that no job connects over.
LEMMA NewLinkFacts ==
    ASSUME TypeInv
    PROVE  LET link == Sessions!Fresh(DOMAIN links \cup Sessions!Referred) IN
           /\ link \in Nat \ {0} /\ link \notin DOMAIN links
           /\ \A j \in clientJobs : j.link # link
  <1> DEFINE ofJobs == {j.link : j \in clientJobs}
             numbers == DOMAIN links \cup Sessions!Referred
  <1>1. IsFiniteSet(clientJobs) /\ IsFiniteSet(DOMAIN links)
    <2>1. IsFiniteSet(Links)
      BY FS_Interval, SessionsAssumption DEF Links
    <2> QED
      BY <2>1, FS_Subset DEF TypeInv, JobsTyped, HostsTyped
  <1>2. IsFiniteSet(ofJobs)
    <2>1. [j \in clientJobs |-> j.link] \in Surjection(clientJobs, ofJobs)
      BY DEF Surjection
    <2> QED
      BY <1>1, <2>1, FS_Surjection
  <1>3. IsFiniteSet({runtime, surfaces.backend})
    <2>1. {runtime, surfaces.backend} = {runtime} \cup {surfaces.backend}
      OBVIOUS
    <2>2. IsFiniteSet({runtime}) /\ IsFiniteSet({surfaces.backend})
      BY FS_Singleton
    <2> QED
      BY <2>1, <2>2, FS_Union
  <1>4. IsFiniteSet(Sessions!Referred)
    BY <1>2, <1>3, FS_Union DEF Sessions!Referred
  <1>5. IsFiniteSet(numbers)
    BY <1>1, <1>4, FS_Union
  <1> DEFINE link == Sessions!Fresh(numbers)
  <1>6. link \in Nat \ {0} /\ link \notin numbers
    BY <1>5, FreshFacts
  <1> HIDE DEF link
  <1>7. \A j \in clientJobs : j.link \in numbers
    BY DEF Sessions!Referred
  <1> QED
    BY <1>6, <1>7 DEF link

\* A connection that is made: a client that is stale goes on over the new link, any other is
\* replaced.
LEMMA RemoteConnectedKeeps ==
    ASSUME NoneIsNothing, SessionsInv, Sessions!RemoteConnected
    PROVE  SessionsInv'
  <1> DEFINE link == Sessions!Fresh(DOMAIN links \cup Sessions!Referred)
             rebinds == surfaces.remote /\ surfaces.client.health \in {"Stale", "Failed"}
             refused == rebinds /\ surfaces.client.inFlight
             c == Sessions!RebindBackend(surfaces.client)
             bound == [surfaces EXCEPT !.client = c, !.backend = link]
  <1>1. /\ link <= MaxLinks /\ connecting' = FALSE /\ runtime' = link
        /\ links' = [l \in DOMAIN links \cup {link} |->
                       IF l = link THEN Sessions!NewClient ELSE links[l]]
        /\ refused => surfaces' = surfaces
        /\ rebinds /\ ~refused => surfaces' = bound
        /\ ~rebinds => surfaces' = Sessions!NewSurfaces(link)
        /\ era' = IF rebinds THEN era ELSE era + 1
        /\ UNCHANGED <<workspace, clientJobs, services, started, misapplied>>
    BY DEF Sessions!RemoteConnected
  <1>2. link \in Nat \ {0} /\ link \notin DOMAIN links /\ \A j \in clientJobs : j.link # link
    BY NewLinkFacts DEF SessionsInv
  <1> HIDE DEF link
  <1>3. link \in Links /\ link # None
    BY <1>1, <1>2, SessionsAssumption DEF Links, NoneIsNothing
  <1>4. /\ surfaces \in AllSurfaces /\ surfaces.client \in Clients
        /\ surfaces.remote = (surfaces.backend # None)
        /\ DOMAIN links \subseteq Links /\ links \in [DOMAIN links -> Clients]
    BY DEF SessionsInv, TypeInv, SurfacesTyped, HostsTyped, AllSurfaces
  <1>5. /\ DOMAIN links' \subseteq Links /\ links' \in [DOMAIN links' -> Clients]
        /\ \A l \in DOMAIN links' :
             links'[l] = Sessions!NewClient \/ (l \in DOMAIN links /\ links'[l] = links[l])
    BY <1>1, <1>3, <1>4, NewClientFacts
  <1>6. /\ c \in Clients /\ c.connection = None /\ c.inFlight = surfaces.client.inFlight
        /\ c.catalog = surfaces.client.catalog /\ c.resync = surfaces.client.resync
        /\ c.health \in {"Stale", "Stopped"}
        /\ OfOneInstance(surfaces.client) /\ ~surfaces.client.inFlight => OfOneInstance(c)
    BY <1>4, PlainFacts, PlainKeeps DEF Sessions!RebindBackend, Clients
  <1> HIDE DEF c
  <1>7. /\ bound \in AllSurfaces /\ bound.client = c /\ bound.backend = link
        /\ bound.remote = surfaces.remote /\ bound.pending = surfaces.pending
        /\ bound.selected = surfaces.selected
    <2>1. c \in Clients /\ link \in Links \cup {None} /\ surfaces \in AllSurfaces
      BY <1>3, <1>4, <1>6
    <2> QED
      BY <2>1 DEF AllSurfaces
  <1> HIDE DEF bound
  <1>8. connecting' \in BOOLEAN /\ runtime' \in Links \cup {None}
        /\ (era' = era \/ era' = era + 1)
    BY <1>1, <1>3
  <1>9. CASE ~rebinds
    <2> DEFINE s == Sessions!NewSurfaces(link)
    <2>1. s \in AllSurfaces /\ s.remote = (s.backend # None) /\ s.pending = None
      BY <1>3, NewSurfacesFacts
    <2>2. AppliedTo(surfaces, clientJobs)'
      BY <1>1, <1>2, <1>3, <1>9, NewSurfacesApply
    <2>3. surfaces' = s
      BY <1>1, <1>9
    <2> HIDE DEF s
    <2> QED
      BY <1>1, <1>5, <1>8, <2>1, <2>2, <2>3, LinkStep
  <1>10. CASE refused
    <2>1. misapplied
      BY <1>10 DEF SessionsInv, AppliedTo, ShownInv, OfOneInstance
    <2> QED
      BY <1>1, <1>4, <1>5, <1>8, <1>10, <2>1, LinkStep
  <1>11. CASE rebinds /\ ~refused
    <2>1. /\ surfaces' = bound /\ era' = era /\ ~surfaces.client.inFlight /\ surfaces.remote
          /\ bound.remote = (bound.backend # None) /\ runtime' = link
          /\ UNCHANGED <<clientJobs, services>>
      BY <1>1, <1>3, <1>7, <1>11
    <2>2. ASSUME ~misapplied PROVE AppliedTo(surfaces, clientJobs)'
      <3>1. AppliedTo(surfaces, clientJobs) /\ \A j \in clientJobs : ~Current(j)
        BY <2>1, <2>2 DEF SessionsInv, AppliedTo, FlightInv
      <3>2. \A j \in clientJobs : ~Current(j)'
        BY <2>1, <3>1 DEF Current
      <3>3. PlaceOf(bound) = PlaceOf(surfaces)
        BY <1>7 DEF PlaceOf
      <3>4. ShownInv(surfaces)'
        BY <1>6, <1>7, <2>1, <3>1, <3>3 DEF AppliedTo, ShownInv, Gone
      <3>5. FlightInv(surfaces, clientJobs)'
        BY <1>6, <1>7, <2>1, <3>2 DEF FlightInv
      <3>6. LinkInv(surfaces, clientJobs)'
        BY <1>2, <1>6, <1>7, <2>1, <3>2 DEF LinkInv
      <3> QED
        BY <2>1, <3>2, <3>4, <3>5, <3>6 DEF AppliedTo
    <2> QED
      BY <1>1, <1>5, <1>7, <1>8, <2>1, <2>2, LinkStep
  <1> QED
    BY <1>9, <1>10, <1>11

-----------------------------------------------------------------------------
(* The invariant holds, and what it says.                                   *)

\* At first nothing is shown and nothing runs.
LEMMA SessionsStart == ASSUME NoneIsNothing, Sessions!Init PROVE SessionsInv
  <1> DEFINE first == Sessions!NewSurfaces(None)
  <1>1. /\ surfaces = first /\ clientJobs = {} /\ connecting = FALSE /\ runtime = None
        /\ workspace \in [terminal : BOOLEAN, migrated : {FALSE}]
        /\ links = [l \in {} |-> Sessions!NewClient] /\ started = 0 /\ era = 0
        /\ misapplied = FALSE
    BY DEF Sessions!Init
  <1>2. /\ first \in AllSurfaces /\ ~first.remote /\ first.backend = None
        /\ first.client = Sessions!NewClient /\ first.pending = None /\ first.selected = None
    BY NewClientFacts DEF Sessions!NewSurfaces, AllSurfaces
  <1> HIDE DEF first
  <1>3. /\ services \in [Sessions!Places -> Services]
        /\ \A place \in Sessions!Places : services[place].panes = {}
    BY DEF Sessions!Init, Services
  <1>4. SurfacesTyped
    <2>1. workspace \in [terminal : BOOLEAN, migrated : BOOLEAN]
      BY <1>1
    <2>2. first.remote = (first.backend # None)
      BY <1>2 DEF AllSurfaces
    <2> QED
      BY <1>1, <1>2, <2>1, <2>2 DEF SurfacesTyped
  <1>5. JobsTyped
    BY <1>1, FS_EmptySet DEF JobsTyped
  <1>6. HostsTyped
    <2>1. DOMAIN links = {}
      BY <1>1
    <2>2. links \in [DOMAIN links -> Clients]
      BY <1>1, NewClientFacts
    <2> QED
      BY <1>1, <1>3, <2>1, <2>2, SessionsAssumption DEF HostsTyped
  <1>7. HostsInv /\ Waits
    BY <1>1, <1>2, <1>3 DEF HostsInv, Waits
  <1>8. AppliedTo(surfaces, clientJobs)
    <2>1. ShownInv(surfaces)
      BY <1>1, <1>2, NewClientFacts DEF ShownInv
    <2>2. FlightInv(surfaces, clientJobs) /\ LinkInv(surfaces, clientJobs)
      BY <1>1, <1>2, NewClientFacts DEF FlightInv, LinkInv
    <2> QED
      BY <1>1, <2>1, <2>2 DEF AppliedTo
  <1> QED
    BY <1>4, <1>5, <1>6, <1>7, <1>8 DEF SessionsInv, TypeInv

\* Every step of the sessions keeps the invariant.
LEMMA SessionsNext == ASSUME NoneIsNothing, SessionsInv, Sessions!Next PROVE SessionsInv'
  <1>1. CASE Sessions!ConnectSessions
    BY <1>1, BeginsConnectKeeps DEF Sessions!ConnectSessions
  <1>2. CASE Sessions!ReconnectSessions
    BY <1>2, BeginsConnectKeeps DEF Sessions!ReconnectSessions
  <1>3. /\ {"catalog", "detach", "act", "change", "snapshot"} \subseteq Bodies
        /\ {"ordinary", "detach", "snapshot"} \subseteq Tags /\ None \in AnyPane
    BY DEF Bodies, Tags, AnyPane
  <1>4. CASE Sessions!RefreshSessions
    BY <1>3, <1>4, AskKeeps DEF Sessions!RefreshSessions
  <1>5. CASE Sessions!DetachSessions
    BY <1>3, <1>5, AskKeeps DEF Sessions!DetachSessions
  <1>6. CASE Sessions!Act
    BY <1>3, <1>6, AskKeeps DEF Sessions!Act
  <1>7. CASE Sessions!Change
    BY <1>3, <1>7, AskKeeps DEF Sessions!Change
  <1>8. CASE Sessions!PollSessions
    <2>1. surfaces.selected # None /\ Sessions!Ask("snapshot", "snapshot", surfaces.selected)
      BY <1>8 DEF Sessions!PollSessions
    <2>2. surfaces.selected \in AnyPane
      BY DEF SessionsInv, TypeInv, SurfacesTyped, AllSurfaces, AnyPane
    <2> QED
      BY <1>3, <2>1, <2>2, AskKeeps
  <1>9. CASE \E pane \in Panes : Sessions!Select(pane)
    BY <1>9, SelectKeeps
  <1>10. CASE Sessions!Runs
    BY <1>10, RunConnectKeeps, RunConnectRemoteKeeps, RunRequestKeeps, RunRequestRemoteKeeps
       DEF Sessions!Runs
  <1>11. CASE Sessions!Completes
    <2>1. PICK job \in clientJobs :
            Sessions!SessionsConnected(job) \/ Sessions!SessionRequestFinished(job)
      BY <1>11 DEF Sessions!Completes
    <2> QED
      BY <2>1, ConnectFailedKeeps, ConnectedKeeps, RequestFinishedKeeps
  <1>12. CASE Sessions!ConnectRemote \/ Sessions!RemoteFailed
    BY <1>12, ConnectingKeeps
  <1>13. CASE Sessions!RemoteConnected
    BY <1>13, RemoteConnectedKeeps
  <1>14. CASE Sessions!SelectProvider
    BY <1>14, SelectProviderKeeps
  <1>15. CASE Sessions!DisconnectRemote
    BY <1>15, DisconnectKeeps
  <1>16. CASE \E link \in 1..MaxLinks : Sessions!LinkFails(link) \/ Sessions!LinkDropped(link)
    BY <1>16, LinkGone
  <1>17. CASE \E place \in Sessions!Places :
                \/ Sessions!Disconnected(place)
                \/ Sessions!ServiceEnds(place)
                \/ Sessions!ServiceStarts(place)
    BY <1>17, ServiceActions
  <1> QED
    BY <1>1, <1>2, <1>4, <1>5, <1>6, <1>7, <1>8, <1>9, <1>10, <1>11, <1>12, <1>13, <1>14, <1>15,
       <1>16, <1>17 DEF Sessions!Next

\* A step of the editor leaves the sessions alone.
LEMMA SessionsStay == ASSUME SessionsInv, UNCHANGED sessionsPart PROVE SessionsInv'
  <1>1. TypeInv' /\ HostsInv' /\ Waits'
    BY DEF sessionsPart, SessionsInv, TypeInv, SurfacesTyped, JobsTyped, HostsTyped, HostsInv, Waits
  <1>2. AppliedTo(surfaces, clientJobs) => AppliedTo(surfaces, clientJobs)'
    BY DEF sessionsPart, AppliedTo, ShownInv, Gone, PlaceOf, FlightInv, Current, AnswersShown,
           LinkInv, HelperIs
  <1> QED
    BY <1>1, <1>2 DEF sessionsPart, SessionsInv

\* Whatever answers cross, whichever connections end and however often a service is started
\* again, what the surfaces show is of one service, and what they wait for is on its way, as
\* long as no completion of an earlier client was applied (session.rs, client.rs).
THEOREM SessionsHold == ASSUME NoneIsNothing PROVE MCSpec => []SessionsInv
  <1>1. MCInit => SessionsInv
    BY SessionsStart DEF MCInit
  <1>2. SessionsInv /\ [MCNext]_<<part, vars, sessionsPart>> => SessionsInv'
    BY SessionsNext, SessionsStay DEF MCNext, EditorActs, SessionsAct
  <1> QED
    BY <1>1, <1>2, PTL DEF MCSpec

\* While the surface waits for an answer there is a job that will bring it, and a client that
\* says it is ready has a connection to ask (client.rs finish_request, app.rs
\* SessionsConnected and SessionRequestFinished).
THEOREM DesktopCanAsk == ASSUME NoneIsNothing PROVE MCSpec => []SessionsCanAsk
  <1>1. SessionsInv => SessionsCanAsk
    <2>1. SUFFICES ASSUME SessionsInv, ~misapplied
                   PROVE  /\ surfaces.pending # None => \E j \in clientJobs : j.kind = "request"
                          /\ surfaces.client.inFlight => clientJobs # {}
                          /\ surfaces.client.health = "Ready" /\ ~surfaces.client.inFlight =>
                               surfaces.client.connection # None
      BY DEF SessionsCanAsk, Sessions!InFlightIsAnswered, Sessions!ReadyCanAsk
    <2> QED
      BY <2>1 DEF SessionsInv, Waits, AppliedTo, FlightInv, ShownInv, OfOneInstance
  <1> QED
    BY <1>1, SessionsHold, PTL

\* The screens a client keeps are of panes of the catalog that is shown, and come from the
\* service instance it comes from, in every state before a completion of an earlier client is
\* applied to a later one (`misapplied`): until then no restart of a service and no
\* reconnection shows under a pane what another one printed (client.rs apply_snapshot,
\* session.rs sync_selection).
THEOREM DesktopScreens == ASSUME NoneIsNothing PROVE MCSpec => []ScreensAreOfCatalog
  <1>1. SessionsInv => ScreensAreOfCatalog
    BY DEF SessionsInv, AppliedTo, ShownInv, OfOneInstance, ScreensAreOfCatalog,
           Sessions!ScreensAreOfCatalog
  <1> QED
    BY <1>1, SessionsHold, PTL

\* Both parts are well typed.
THEOREM DesktopTypes == ASSUME NoneIsNothing PROVE MCSpec => []TypesOK
  <1>1. SessionsInv => Sessions!TypeOK
    <2>1. SUFFICES ASSUME SessionsInv PROVE Sessions!TypeOK
      OBVIOUS
    <2>2. SurfacesTyped /\ HostsTyped
      BY <2>1 DEF SessionsInv, TypeInv
    <2>3. /\ surfaces.client \in Clients /\ surfaces.remote = (surfaces.backend # None)
          /\ surfaces.selected \in Panes \cup {None} /\ surfaces.pending \in Tags \cup {None}
      BY <2>2 DEF SurfacesTyped, AllSurfaces
    <2>4. /\ surfaces.client.health \in Sessions!Healths /\ surfaces.client.inFlight \in BOOLEAN
          /\ surfaces.client.resync \in Seq(Panes)
          /\ DOMAIN surfaces.client.screens \subseteq Panes
      <3>1. surfaces.client.screens \in Screens
        BY <2>3 DEF Clients
      <3> QED
        BY <2>3, <3>1, ScreenFacts DEF Clients
    <2>5. \A place \in Sessions!Places : services[place].panes \subseteq Panes
      BY <2>2 DEF HostsTyped, Services
    <2>6. surfaces.pending \in {None, "ordinary", "snapshot", "detach", "migration"}
      BY <2>3 DEF Tags
    <2>7. /\ runtime \in 1..MaxLinks \cup {None} /\ DOMAIN links \subseteq 1..MaxLinks
          /\ started \in 0..MaxInstances
      BY <2>2 DEF SurfacesTyped, HostsTyped, Links
    <2> QED
      BY <2>3, <2>4, <2>5, <2>6, <2>7 DEF Sessions!TypeOK
  <1>2. MCInit => Init
    BY DEF MCInit
  <1>3. [MCNext]_<<part, vars, sessionsPart>> => [Next]_vars
    BY DEF MCNext, EditorActs, SessionsAct
  <1>4. MCSpec => Spec
    BY <1>2, <1>3, PTL DEF MCSpec, Spec
  <1> QED
    BY <1>1, <1>4, SessionsHold, EditorTypes, PTL DEF TypesOK
=============================================================================
