----------------------- MODULE WorkspaceFiles_proofs -----------------------
(***************************************************************************)
(* Proofs about the files of the open workspace: what is listed is what the*)
(* folder has, no answer to an older question is shown, and what is open is*)
(* what was saved, for any folders, queries and bounds.                    *)
(***************************************************************************)
EXTENDS MCWorkspace_proofs, FiniteSetTheorems

-----------------------------------------------------------------------------
(* The files of the open workspace: the types.                              *)

Optional(values) == values \cup {None}
Errors == {"open", "refresh", "quick", "search", "persistence"}
Listings == [root : Roots, version : Nat, hidden : BOOLEAN, ignored : BOOLEAN]
States == [root : Roots, hidden : BOOLEAN]
Saves == [generation : Nat, root : Roots]
Scans == [generation : Nat, root : Roots, revision : Nat]
Caches == [root : Roots, revision : Nat, files : Listings]
Edits == [add : Optional(Roots), drop : Optional(Roots)]

Openings == [root : Roots, hidden : BOOLEAN, stale : BOOLEAN]
Refreshes == [generation : Nat, inFlight : Optional(Nat), pending : BOOLEAN]
Watches == [root : Optional(Roots), queue : Seq({"changed", "stale"}), lost : BOOLEAN,
            acknowledged : BOOLEAN]
Quicks == [visible : BOOLEAN, ignored : BOOLEAN, generation : Nat, scan : Optional(Scans),
           cache : Optional(Caches), results : Optional(Listings)]
Searches == [query : Optional(Queries), ignored : BOOLEAN, generation : Nat,
             results : Optional([of : Queries, files : Listings])]
Persists == [generation : Nat, inFlight : Optional(Saves), pending : Optional(States),
             active : Seq(Roots), queue : Seq(Roots), last : {"none", "ok", "failed"}]
Choosers == [opening : BOOLEAN, mutating : BOOLEAN, manual : BOOLEAN]

\* What a job may have found.
Answers(values) == Optional([ok : {TRUE}, value : values] \cup {Files!Failed})

BootJobs == [kind : {"boot"}, result : Answers(Seq(Roots))]
PickJobs == [kind : {"pick"}, result : {None}]
OpenJobs == [kind : {"open"}, root : Roots, result : Answers(Listings)]
RefreshJobs == [kind : {"refresh"}, generation : Nat, root : Roots, hidden : BOOLEAN,
                ignored : {FALSE}, result : Answers(Listings)]
PersistJobs == [kind : {"persist"}, generation : Nat, root : Roots, hidden : BOOLEAN,
                recents : Seq(Roots), stored : BOOLEAN, read : Optional(Seq(Roots)),
                edits : Seq(Edits), result : Answers(Seq(Roots))]
RecentJobs == [kind : {"recent"}, edits : Seq(Edits), read : Optional(Seq(Roots)),
               result : Answers(Seq(Roots))]
LocateJobs == [kind : {"locate"}, root : Roots, result : {None}]
QuickJobs == [kind : {"quick"}, generation : Nat, root : Roots, revision : Nat,
              hidden : BOOLEAN, ignored : {TRUE}, result : Answers(Listings)]
DebounceJobs == [kind : {"debounce"}, generation : Nat, root : Roots, query : Queries,
                 result : {None}]
SearchJobs == [kind : {"search"}, generation : Nat, root : Roots, query : Queries,
               hidden : BOOLEAN, ignored : BOOLEAN, result : Answers(Listings)]
IsJob(job) ==
    \/ job \in BootJobs \/ job \in PickJobs \/ job \in OpenJobs \/ job \in RefreshJobs
    \/ job \in PersistJobs \/ job \in RecentJobs \/ job \in LocateJobs \/ job \in QuickJobs
    \/ job \in DebounceJobs \/ job \in SearchJobs

FilesState ==
    /\ tree \in [Roots -> Nat]
    /\ saved \in [Roots -> Optional(BOOLEAN)]
    /\ recentFile \in Seq(Roots) /\ Len(recentFile) <= RecentLimit
    /\ recents \in Seq(Roots)
    /\ opened \in Optional(Openings)
    /\ explorer \in BOOLEAN
    /\ listing \in Optional(Listings)
    /\ listingRevision \in Nat
    /\ refresh \in Refreshes
    /\ failed \subseteq Errors
    /\ watch \in Watches /\ Len(watch.queue) <= EventCapacity
    /\ quick \in Quicks
    /\ search \in Searches
    /\ persist \in Persists
    /\ chooser \in Choosers
    /\ used \in [Files!Kinds -> Nat]

JobsTyped == \A job \in jobs : IsJob(job)

\* Without an open workspace nothing is watched, listed, scanned or saved.
WorkNeedsOpen ==
    /\ opened = None =>
         /\ watch.root = None /\ ~watch.lost /\ ~watch.acknowledged
         /\ refresh.inFlight = None /\ persist.inFlight = None /\ persist.pending = None
         /\ quick.scan = None
         /\ \A job \in jobs : job.kind \notin {"refresh", "persist", "quick", "debounce", "search"}
    /\ watch.root # None => watch.root = opened.root

FilesTypes == FilesState /\ JobsTyped /\ WorkNeedsOpen

-----------------------------------------------------------------------------

\* A list without the entries that are not in a set.
LEMMA FilesAmongIs ==
    ASSUME NEW T, NEW q \in Seq(T), NEW set
    PROVE  /\ Files!Among(q, set) \in Seq(T)
           /\ \A x : Has(Files!Among(q, set), x) <=> x \in set /\ Has(q, x)
  <1>1. Files!Among(q, set) = Search!Among(q, set)
    BY Zenon DEF Files!Among, Search!Among
  <1> QED
    BY <1>1, AmongIs

\* A change of a kind is counted once, and the counts of the other kinds stay.
LEMMA SpendIs ==
    ASSUME FilesState, NEW kind \in Files!Kinds, Files!Spend(kind)
    PROVE  /\ used' \in [Files!Kinds -> Nat]
           /\ used'["recent"] # 0 <=> kind = "recent" \/ used["recent"] # 0
           /\ kind # "recent" => used'["recent"] = used["recent"]
  BY DEF FilesState, Files!Spend, Files!Kinds

\* request_file_refresh: a new generation, which starts at once or waits for the running one.
LEMMA RequestIs ==
    ASSUME NEW f \in Refreshes
    PROVE  LET g == Files!RequestFileRefresh(f) IN
           /\ g \in Refreshes
           /\ g.generation = f.generation + 1
           /\ g.inFlight = IF f.inFlight # None THEN f.inFlight ELSE f.generation + 1
           /\ g.pending <=> f.pending \/ f.inFlight # None
           /\ g.inFlight # None
  <1> DEFINE h == [f EXCEPT !.generation = @ + 1]
  <1>1. /\ h \in Refreshes /\ h.generation = f.generation + 1 /\ h.inFlight = f.inFlight
        /\ h.pending = f.pending /\ f.generation + 1 \in Nat /\ f.generation + 1 # None
    BY FilesAssumption DEF Refreshes
  <1>2. Files!RequestFileRefresh(f) =
          IF f.inFlight # None THEN [h EXCEPT !.pending = TRUE]
          ELSE [h EXCEPT !.inFlight = h.generation]
    BY DEF Files!RequestFileRefresh, Files!Started
  <1> HIDE DEF h
  <1>3. CASE f.inFlight # None
    BY <1>1, <1>2, <1>3 DEF Refreshes, Optional
  <1>4. CASE f.inFlight = None
    BY <1>1, <1>2, <1>4 DEF Refreshes, Optional
  <1> QED
    BY <1>3, <1>4

\* A listing that waited is started with the present generation.
LEMMA StartedIs ==
    ASSUME NEW f \in Refreshes
    PROVE  LET g == Files!Started([f EXCEPT !.pending = FALSE]) IN
           /\ g \in Refreshes /\ g.generation = f.generation /\ g.inFlight = f.generation
           /\ g.inFlight # None /\ ~g.pending
  BY FilesAssumption DEF Refreshes, Optional, Files!Started

\* The job of a listing that was started lists the folder with the options given to it.
LEMMA RefreshingIs ==
    ASSUME NEW f \in Refreshes, NEW g \in Refreshes, NEW root \in Roots, NEW hidden \in BOOLEAN
    PROVE  /\ \A job \in Files!Refreshing(f, g, root, hidden) :
                /\ job \in RefreshJobs /\ job.kind = "refresh" /\ job.result = None
                /\ job.generation = g.inFlight /\ job.root = root /\ job.hidden = hidden
                /\ g.inFlight # None /\ g.inFlight # f.inFlight
           /\ \A job, other \in Files!Refreshing(f, g, root, hidden) : job = other
  <1> DEFINE new == Files!RefreshJob(g.inFlight, root, hidden)
  <1>1. Files!Refreshing(f, g, root, hidden) =
          IF g.inFlight # None /\ g.inFlight # f.inFlight THEN {new} ELSE {}
    BY DEF Files!Refreshing
  <1>2. g.inFlight # None => g.inFlight \in Nat
    BY DEF Refreshes, Optional
  <1>3. g.inFlight # None =>
          /\ new \in RefreshJobs /\ new.kind = "refresh" /\ new.result = None
          /\ new.generation = g.inFlight /\ new.root = root /\ new.hidden = hidden
    BY <1>2 DEF RefreshJobs, Answers, Optional, Files!RefreshJob
  <1> HIDE DEF new
  <1> QED
    BY <1>1, <1>3

\* start_persistence takes the whole queue of recents with it.
LEMMA StartPersistenceIs ==
    ASSUME NEW p \in Persists, NEW state \in States
    PROVE  LET q == Files!StartPersistence(p, state) IN
           /\ q \in Persists /\ q.generation = p.generation + 1 /\ q.inFlight # None
           /\ q.active = p.queue /\ q.queue = << >> /\ q.pending = None /\ q.last = p.last
  <1>1. [generation |-> p.generation + 1, root |-> state.root] \in Saves
    BY DEF Persists, States, Saves
  <1>2. << >> \in Seq(Roots)
    OBVIOUS
  <1> QED
    BY <1>1, <1>2, FilesAssumption DEF Persists, Optional, Saves, Files!StartPersistence

\* A queued root is added to those already queued.
LEMMA EnqueueIs ==
    ASSUME NEW list \in Seq(Roots), NEW root \in Roots
    PROVE  /\ Files!EnqueueRecent(list, root) \in Seq(Roots)
           /\ \A x \in Roots : Has(Files!EnqueueRecent(list, root), x) <=> Has(list, x) \/ x = root
  <1> DEFINE rest == Files!Among(list, Roots \ {root})
  <1>1. rest \in Seq(Roots) /\ \A x : Has(rest, x) <=> x \in Roots \ {root} /\ Has(list, x)
    BY FilesAmongIs
  <1> HIDE DEF rest
  <1>2. Append(rest, root) \in Seq(Roots) /\ \A x : Has(Append(rest, root), x) <=> Has(rest, x) \/ x = root
    BY <1>1, AppendHas
  <1>3. Files!EnqueueRecent(list, root) = Append(rest, root)
    BY DEF Files!EnqueueRecent, rest
  <1> QED
    BY <1>1, <1>2, <1>3

\* The recents of a failed save join those queued since; none is lost.
LEMMA RequeueIs ==
    ASSUME NEW list \in Seq(Roots), NEW more \in Seq(Roots)
    PROVE  /\ Files!RequeueRecents(list, more) \in Seq(Roots)
           /\ \A x \in Roots : Has(Files!RequeueRecents(list, more), x) <=> Has(list, x) \/ Has(more, x)
  <1> DEFINE rest == Files!Among(list, Roots \ Files!ToSet(more))
  <1>1. rest \in Seq(Roots) /\ \A x : Has(rest, x) <=> x \in Roots \ Files!ToSet(more) /\ Has(list, x)
    BY FilesAmongIs
  <1>2. \A x : x \in Files!ToSet(more) <=> Has(more, x)
    BY DEF Files!ToSet, Has
  <1> HIDE DEF rest
  <1>3. more \o rest \in Seq(Roots) /\ \A x : Has(more \o rest, x) <=> Has(more, x) \/ Has(rest, x)
    BY <1>1, ConcatHas
  <1>4. Files!RequeueRecents(list, more) = more \o rest
    BY DEF Files!RequeueRecents, rest
  <1> QED
    BY <1>1, <1>2, <1>3, <1>4

\* request_persistence: the state waits while a save or a listing runs, or is saved at once.
LEMMA RequestPersistenceIs ==
    ASSUME NEW p \in Persists, NEW state \in States, NEW recording \in BOOLEAN,
           NEW refreshing \in BOOLEAN
    PROVE  LET q == Files!RequestPersistence(p, state, recording, refreshing) IN
           /\ q \in Persists
           /\ p.inFlight # None \/ refreshing =>
                /\ q.pending = state /\ q.pending # None /\ q.inFlight = p.inFlight
                /\ q.generation = p.generation /\ q.active = p.active
           /\ p.inFlight = None /\ ~refreshing =>
                /\ q.pending = None /\ q.inFlight # None /\ q.generation = p.generation + 1
           /\ q.last = p.last
           /\ \A x \in Roots : /\ Has(p.queue, x) => Has(q.queue, x) \/ Has(q.active, x)
                               /\ recording /\ x = state.root => Has(q.queue, x) \/ Has(q.active, x)
  <1> DEFINE r == IF recording THEN [p EXCEPT !.queue = Files!EnqueueRecent(@, state.root)] ELSE p
  <1>1. /\ Files!EnqueueRecent(p.queue, state.root) \in Seq(Roots)
        /\ \A x \in Roots : Has(Files!EnqueueRecent(p.queue, state.root), x)
                              <=> Has(p.queue, x) \/ x = state.root
    BY EnqueueIs DEF Persists, States
  <1>2. /\ r \in Persists
        /\ r.inFlight = p.inFlight /\ r.generation = p.generation /\ r.active = p.active
        /\ r.last = p.last
        /\ r.queue = IF recording THEN Files!EnqueueRecent(p.queue, state.root) ELSE p.queue
    BY <1>1 DEF Persists
  <1>3. Files!RequestPersistence(p, state, recording, refreshing) =
          IF p.inFlight # None \/ refreshing
          THEN [r EXCEPT !.pending = state]
          ELSE Files!StartPersistence(r, state)
    BY DEF Files!RequestPersistence
  <1> HIDE DEF r
  <1>4. CASE p.inFlight # None \/ refreshing
    <2> DEFINE q == [r EXCEPT !.pending = state]
    <2>1. /\ q \in Persists /\ q.pending = state /\ q.inFlight = r.inFlight
          /\ q.generation = r.generation /\ q.active = r.active /\ q.queue = r.queue
          /\ q.last = r.last
      BY <1>2 DEF Persists, Optional
    <2>2. state # None
      BY FilesAssumption DEF States
    <2> HIDE DEF q
    <2>3. Files!RequestPersistence(p, state, recording, refreshing) = q
      BY <1>3, <1>4 DEF q
    <2> QED
      BY <1>1, <1>2, <1>4, <2>1, <2>2, <2>3
  <1>5. CASE p.inFlight = None /\ ~refreshing
    <2> DEFINE q == Files!StartPersistence(r, state)
    <2>1. /\ q \in Persists /\ q.generation = r.generation + 1 /\ q.inFlight # None
          /\ q.active = r.queue /\ q.pending = None /\ q.last = r.last
      BY <1>2, StartPersistenceIs
    <2> HIDE DEF q
    <2>3. Files!RequestPersistence(p, state, recording, refreshing) = q
      BY <1>3, <1>5 DEF q
    <2> QED
      BY <1>1, <1>2, <1>5, <2>1, <2>3
  <1> QED
    BY <1>4, <1>5

\* The job of a save that was started carries the state and the recents taken.
LEMMA PersistingIs ==
    ASSUME NEW p \in Persists, NEW q \in Persists, NEW state \in States
    PROVE  /\ \A job \in Files!Persisting(p, q, state) :
                /\ job \in PersistJobs /\ job.kind = "persist" /\ job.result = None
                /\ job.root = state.root /\ job.hidden = state.hidden
                /\ ~job.stored /\ job.read = None /\ job.recents = q.active
                /\ q.generation # p.generation
                /\ \A x \in Roots : Has(q.active, x) =>
                     \E i \in 1..Len(job.edits) : job.edits[i].add = x
                /\ \A i \in 1..Len(job.edits) : job.edits[i].drop = None /\ job.edits[i].add # None
           /\ \A job, other \in Files!Persisting(p, q, state) : job = other
  <1> DEFINE edits == [i \in DOMAIN q.active |-> [add |-> q.active[i], drop |-> None]]
             new == [kind |-> "persist", generation |-> q.generation, root |-> state.root,
                     hidden |-> state.hidden, recents |-> q.active, stored |-> FALSE,
                     read |-> None, edits |-> edits, result |-> None]
  <1>1. /\ q.active \in Seq(Roots) /\ q.generation \in Nat
        /\ state.root \in Roots /\ state.hidden \in BOOLEAN
    BY DEF Persists, States
  <1>2. /\ edits \in Seq(Edits) /\ Len(edits) = Len(q.active)
        /\ \A i \in 1..Len(edits) :
             edits[i].add = q.active[i] /\ edits[i].drop = None /\ q.active[i] \in Roots
    <2>1. edits = [i \in 1..Len(q.active) |-> [add |-> q.active[i], drop |-> None]]
      BY <1>1
    <2>2. \A i \in 1..Len(q.active) : [add |-> q.active[i], drop |-> None] \in Edits
      BY <1>1 DEF Edits, Optional
    <2>3. Len(q.active) \in Nat
      BY <1>1
    <2> QED
      BY <1>1, <2>1, <2>2, <2>3
  <1> HIDE DEF edits
  <1>3. /\ new \in PersistJobs /\ new.kind = "persist" /\ new.result = None
        /\ new.root = state.root /\ new.hidden = state.hidden
        /\ ~new.stored /\ new.read = None /\ new.recents = q.active /\ new.edits = edits
    BY <1>1, <1>2 DEF PersistJobs, Answers, Optional
  <1>4. Files!Persisting(p, q, state) = IF q.generation = p.generation THEN {} ELSE {new}
    BY DEF Files!Persisting, edits
  <1> HIDE DEF new
  <1>5. \A i \in 1..Len(edits) : edits[i].add # None
    BY <1>2, FilesAssumption
  <1>6. \A x \in Roots : Has(q.active, x) => \E i \in 1..Len(edits) : edits[i].add = x
    BY <1>2 DEF Has
  <1> QED
    BY <1>2, <1>3, <1>4, <1>5, <1>6

\* A new scan of quick open leaves what is shown alone.
LEMMA ScanningIs ==
    ASSUME NEW q \in Quicks, NEW root \in Roots, NEW revision \in Nat
    PROVE  LET r == Files!Scanning(q, root, revision) IN
           /\ r \in Quicks /\ r.visible = q.visible /\ r.ignored = q.ignored
           /\ r.cache = q.cache /\ r.results = q.results
  <1>1. [generation |-> q.generation + 1, root |-> root, revision |-> revision] \in Scans
    BY DEF Quicks, Scans
  <1> DEFINE scan == [generation |-> q.generation + 1, root |-> root, revision |-> revision]
             a == [q EXCEPT !.generation = @ + 1]
             b == [a EXCEPT !.scan = scan]
  <1>2. /\ a \in Quicks /\ a.visible = q.visible /\ a.ignored = q.ignored
        /\ a.cache = q.cache /\ a.results = q.results
    BY DEF Quicks
  <1> HIDE DEF a, scan
  <1>3. /\ b \in Quicks /\ b.visible = q.visible /\ b.ignored = q.ignored
        /\ b.cache = q.cache /\ b.results = q.results
    BY <1>1, <1>2 DEF Quicks, Optional, scan
  <1>4. Files!Scanning(q, root, revision) = q \/ Files!Scanning(q, root, revision) = b
    BY DEF Files!Scanning, a, scan
  <1> HIDE DEF b
  <1> QED
    BY <1>3, <1>4

\* The job of a new scan is well-formed.
LEMMA ScanJobIs ==
    ASSUME NEW q \in Quicks, NEW r \in Quicks, NEW hidden \in BOOLEAN
    PROVE  \A job \in Files!ScanJob(q, r, hidden) : job \in QuickJobs /\ job.kind = "quick"
  <1>1. r.scan # None => r.scan \in Scans
    BY DEF Quicks, Optional
  <1> SUFFICES ASSUME NEW job \in Files!ScanJob(q, r, hidden)
               PROVE  job \in QuickJobs /\ job.kind = "quick"
    OBVIOUS
  <1>2. /\ r.scan # None
        /\ job = [kind |-> "quick", generation |-> r.scan.generation, root |-> r.scan.root,
                  revision |-> r.scan.revision, hidden |-> hidden, ignored |-> TRUE,
                  result |-> None]
    BY DEF Files!ScanJob
  <1>3. /\ r.scan.generation \in Nat /\ r.scan.root \in Roots /\ r.scan.revision \in Nat
    BY <1>1, <1>2 DEF Scans
  <1> QED
    BY <1>2, <1>3 DEF QuickJobs, Answers, Optional

\* invalidate_quick_open drops the scan, the cache and the results that showed ignored files.
LEMMA InvalidatedIs ==
    ASSUME NEW q \in Quicks
    PROVE  LET r == Files!Invalidated(q) IN
           /\ r \in Quicks /\ r.visible = q.visible /\ r.ignored = q.ignored
           /\ r.scan = None /\ r.cache = None
           /\ r.results = IF q.ignored THEN None ELSE q.results
  <1> DEFINE a == [q EXCEPT !.generation = @ + 1]
             b == [a EXCEPT !.scan = None]
             c == [b EXCEPT !.cache = None]
             d == [c EXCEPT !.results = IF q.ignored THEN None ELSE @]
  <1>1. /\ a \in Quicks /\ a.visible = q.visible /\ a.ignored = q.ignored
        /\ a.results = q.results
    BY DEF Quicks
  <1>2. Files!Invalidated(q) = d
    BY DEF Files!Invalidated, Quicks
  <1> HIDE DEF a
  <1>3. /\ b \in Quicks /\ b.visible = q.visible /\ b.ignored = q.ignored
        /\ b.results = q.results /\ b.scan = None
    BY <1>1 DEF Quicks, Optional
  <1> HIDE DEF b
  <1>4. /\ c \in Quicks /\ c.visible = q.visible /\ c.ignored = q.ignored
        /\ c.results = q.results /\ c.scan = None /\ c.cache = None
    BY <1>3 DEF Quicks, Optional
  <1> HIDE DEF c
  <1>5. /\ d \in Quicks /\ d.visible = q.visible /\ d.ignored = q.ignored
        /\ d.scan = None /\ d.cache = None
        /\ d.results = IF q.ignored THEN None ELSE q.results
    BY <1>4 DEF Quicks, Optional
  <1> HIDE DEF d
  <1> QED
    BY <1>2, <1>5

Distinct(q) == \A i, j \in 1..Len(q) : q[i] = q[j] => i = j

\* Filtering a list without repetitions leaves one without repetitions.
LEMMA TakenDistinct ==
    ASSUME NEW T, NEW q \in Seq(T), Distinct(q), NEW set, NEW f, Takes(f, q, set, Len(q)),
           NEW n \in 0..Len(q)
    PROVE  Distinct(f[n])
  <1> DEFINE Bad == {k \in 0..n : ~ Distinct(f[k])}
  <1>1. SUFFICES ASSUME Bad # {}
                 PROVE  FALSE
    <2>1. n \in 0..n
      OBVIOUS
    <2> QED
      BY <2>1
  <1>2. PICK m \in Bad : \A k \in Bad : m <= k
    <2>1. Bad \subseteq Nat
      OBVIOUS
    <2> HIDE DEF Bad
    <2> QED
      BY <1>1, <2>1, LeastNumber
  <1>3. m \in 0..n /\ m \in 0..Len(q) /\ ~ Distinct(f[m])
    OBVIOUS
  <1>4. m # 0 => Distinct(f[m - 1])
    <2>1. m # 0 => m - 1 \in 0..n /\ ~(m <= m - 1)
      BY <1>3
    <2> QED
      BY <1>2, <2>1
  <1>5. f[m] = IF m = 0 THEN << >>
               ELSE IF q[m] \in set THEN Append(f[m - 1], q[m]) ELSE f[m - 1]
    BY <1>3 DEF Takes
  <1> HIDE DEF Bad
  <1>6. CASE m = 0
    BY <1>3, <1>5, <1>6 DEF Distinct
  <1>7. CASE m # 0 /\ q[m] \in set
    <2> DEFINE r == f[m - 1]
    <2>1. m - 1 \in 0..Len(q)
      BY <1>3, <1>7
    <2>2. /\ r \in Seq(T)
          /\ \A x : (\E j \in 1..Len(r) : r[j] = x)
                      <=> x \in set /\ \E i \in 1..(m - 1) : q[i] = x
      BY <2>1, TakenIs
    <2>3. f[m] = Append(r, q[m])
      BY <1>5, <1>7
    <2>4. Distinct(r)
      BY <1>4, <1>7
    <2> HIDE DEF r
    <2>5. \A j \in 1..Len(r) : r[j] # q[m]
      <3>1. \A i \in 1..(m - 1) : q[i] # q[m]
        BY <1>3, <1>7 DEF Distinct
      <3> QED
        BY <2>2, <3>1
    <2>6. q[m] \in T
      BY <1>3, <1>7
    <2>7. Distinct(Append(r, q[m]))
      <3> DEFINE s == Append(r, q[m])
      <3>1. /\ Len(s) = Len(r) + 1 /\ Len(r) \in Nat /\ s[Len(r) + 1] = q[m]
            /\ \A j \in 1..Len(r) : s[j] = r[j]
        BY <2>2, <2>6
      <3> HIDE DEF s
      <3>2. \A j \in 1..Len(s) : j \in 1..Len(r) \/ j = Len(r) + 1
        BY <3>1
      <3>3. Distinct(s)
        BY <2>4, <2>5, <3>1, <3>2 DEF Distinct
      <3> QED
        BY <3>3 DEF s
    <2> QED
      BY <1>3, <2>3, <2>7
  <1>8. CASE m # 0 /\ q[m] \notin set
    BY <1>3, <1>4, <1>5, <1>8
  <1> QED
    BY <1>6, <1>7, <1>8

\* The same of the filter the store uses.
LEMMA FilesAmongDistinct ==
    ASSUME NEW T, NEW q \in Seq(T), NEW set, Distinct(q)
    PROVE  Distinct(Files!Among(q, set))
  <1> DEFINE IsTaking(f) ==
               f = [k \in 0..Len(q) |-> IF k = 0 THEN << >>
                        ELSE IF q[k] \in set THEN Append(f[k - 1], q[k]) ELSE f[k - 1]]
             taken == CHOOSE f : IsTaking(f)
  <1>1. IsTaking(taken)
    <2>1. Len(q) \in Nat
      OBVIOUS
    <2>2. PICK g : Takes(g, q, set, Len(q))
      BY <2>1, TakenExists
    <2>3. IsTaking(g)
      BY <2>2, Zenon DEF Takes
    <2> QED
      BY <2>3, Zenon
  <1>2. Files!Among(q, set) = taken[Len(q)]
    BY Zenon DEF Files!Among
  <1>3. Takes(taken, q, set, Len(q))
    BY <1>1, Zenon DEF Takes
  <1>4. Len(q) \in 0..Len(q)
    OBVIOUS
  <1> HIDE DEF taken
  <1>5. Distinct(taken[Len(q)])
    BY <1>3, <1>4, TakenDistinct
  <1> QED
    BY <1>2, <1>5, Zenon

\* A list without repetitions has at most as many entries as there are roots.
LEMMA DistinctIsShort ==
    ASSUME NEW q \in Seq(Roots), Distinct(q)
    PROVE  Len(q) <= Cardinality(Roots)
  <1>1. Len(q) \in Nat /\ q \in [1..Len(q) -> Roots]
    OBVIOUS
  <1>2. q \in Injection(1..Len(q), Roots)
    BY <1>1 DEF Injection, IsInjective, Distinct
  <1>3. Cardinality(1..Len(q)) <= Cardinality(Roots)
    BY <1>2, FS_Injection, FilesAssumption
  <1>4. Cardinality(1..Len(q)) = Len(q)
    BY <1>1, FS_Interval
  <1> QED
    BY <1>3, <1>4

\* An edit of the recent list keeps every root when there is room and nothing is dropped.
LEMMA EditedIs ==
    ASSUME NEW list \in Seq(Roots), NEW edit \in Edits
    PROVE  LET new == Files!Edited(list, edit) IN
           /\ new \in Seq(Roots) /\ Len(new) <= RecentLimit
           /\ Distinct(list) /\ Cardinality(Roots) <= RecentLimit
                /\ edit.drop = None /\ edit.add # None =>
              /\ Distinct(new)
              /\ \A x \in Roots : Has(new, x) <=> Has(list, x) \/ x = edit.add
  <1> DEFINE kept == Files!Among(list, Roots \ {edit.drop, edit.add})
             with == IF edit.add = None THEN kept ELSE <<edit.add>> \o kept
             n == IF Len(with) < RecentLimit THEN Len(with) ELSE RecentLimit
  <1>1. /\ kept \in Seq(Roots)
        /\ \A x : Has(kept, x) <=> x \in Roots \ {edit.drop, edit.add} /\ Has(list, x)
    BY FilesAmongIs
  <1>2. Distinct(list) => Distinct(kept)
    BY FilesAmongDistinct
  <1>3. Files!Edited(list, edit) = SubSeq(with, 1, n)
    BY DEF Files!Edited
  <1>4. edit.add # None => edit.add \in Roots
    BY DEF Edits, Optional
  <1> HIDE DEF kept
  <1>5. edit.add # None =>
          LET more == <<edit.add>> \o kept IN
          /\ more \in Seq(Roots)
          /\ \A x : Has(more, x) <=> x = edit.add \/ Has(kept, x)
          /\ Len(more) = Len(kept) + 1 /\ more[1] = edit.add
          /\ \A i \in 1..Len(kept) : more[i + 1] = kept[i]
    <2> SUFFICES ASSUME edit.add # None
                 PROVE  LET more == <<edit.add>> \o kept IN
                        /\ more \in Seq(Roots)
                        /\ \A x : Has(more, x) <=> x = edit.add \/ Has(kept, x)
                        /\ Len(more) = Len(kept) + 1 /\ more[1] = edit.add
                        /\ \A i \in 1..Len(kept) : more[i + 1] = kept[i]
      OBVIOUS
    <2> DEFINE one == <<edit.add>>
               more == one \o kept
    <2>1. one \in Seq(Roots) /\ Len(one) = 1 /\ one[1] = edit.add
      BY <1>4
    <2> HIDE DEF one
    <2>2. \A x : Has(one, x) <=> x = edit.add
      BY <2>1 DEF Has
    <2>3. more \in Seq(Roots) /\ \A x : Has(more, x) <=> Has(one, x) \/ Has(kept, x)
      BY <1>1, <2>1, ConcatHas
    <2>4. /\ Len(more) = 1 + Len(kept)
          /\ \A k \in 1..(1 + Len(kept)) : more[k] = IF k <= 1 THEN one[k] ELSE kept[k - 1]
      <3>1. /\ Len(more) = Len(one) + Len(kept)
            /\ \A k \in 1..(Len(one) + Len(kept)) :
                 more[k] = IF k <= Len(one) THEN one[k] ELSE kept[k - Len(one)]
        BY <1>1, <2>1, ConcatProperties
      <3> HIDE DEF more
      <3> QED
        BY <2>1, <3>1
    <2>5. Len(kept) \in Nat
      BY <1>1
    <2> HIDE DEF more
    <2>6. /\ Len(more) = Len(kept) + 1 /\ more[1] = edit.add
          /\ \A i \in 1..Len(kept) : more[i + 1] = kept[i]
      BY <2>1, <2>4, <2>5
    <2> QED
      BY <2>2, <2>3, <2>6 DEF more, one
  <1>6. with \in Seq(Roots)
    BY <1>1, <1>5
  <1> HIDE DEF with
  <1>7. n \in Nat /\ n <= Len(with) /\ n <= RecentLimit
    BY <1>6, FilesAssumption
  <1>8. SubSeq(with, 1, n) \in Seq(Roots) /\ Len(SubSeq(with, 1, n)) = n
    <2>1. \A i \in 1..n : with[i] \in Roots
      BY <1>6, <1>7
    <2> QED
      BY <1>7, <2>1, SubSeqProperties
  <1>9. ASSUME Distinct(list), Cardinality(Roots) <= RecentLimit, edit.drop = None,
               edit.add # None
        PROVE  /\ Distinct(SubSeq(with, 1, n))
               /\ \A x \in Roots : Has(SubSeq(with, 1, n), x) <=> Has(list, x) \/ x = edit.add
    <2>1. with = <<edit.add>> \o kept
      BY <1>9 DEF with
    <2>2. /\ \A x : Has(with, x) <=> x = edit.add \/ Has(kept, x)
          /\ Len(with) = Len(kept) + 1 /\ with[1] = edit.add
          /\ \A i \in 1..Len(kept) : with[i + 1] = kept[i]
      BY <1>5, <1>9, <2>1
    <2>3. Distinct(with)
      <3>1. \A i \in 1..Len(kept) : kept[i] # edit.add
        BY <1>1 DEF Has
      <3>2. Len(kept) \in Nat
        BY <1>1
      <3>3. \A i \in 1..Len(with) : i = 1 \/ (i - 1 \in 1..Len(kept) /\ with[i] = kept[i - 1])
        <4>1. ASSUME NEW i \in 1..Len(with), i # 1
              PROVE  i - 1 \in 1..Len(kept) /\ with[i] = kept[i - 1]
          <5>1. i - 1 \in 1..Len(kept) /\ (i - 1) + 1 = i
            BY <2>2, <3>2, <4>1
          <5> QED
            BY <2>2, <5>1
        <4> QED
          BY <4>1
      <3>4. \A i, j \in 1..Len(with) : with[i] = with[j] => i = j
        <4>1. ASSUME NEW i \in 1..Len(with), NEW j \in 1..Len(with), with[i] = with[j]
              PROVE  i = j
          <5>1. CASE i = 1 /\ j = 1
            BY <5>1
          <5>2. CASE i = 1 /\ j # 1
            BY <2>2, <3>1, <3>3, <4>1, <5>2
          <5>3. CASE i # 1 /\ j = 1
            BY <2>2, <3>1, <3>3, <4>1, <5>3
          <5>4. CASE i # 1 /\ j # 1
            <6>1. i - 1 \in 1..Len(kept) /\ j - 1 \in 1..Len(kept) /\ kept[i - 1] = kept[j - 1]
              BY <3>3, <4>1, <5>4
            <6>2. i - 1 = j - 1
              BY <1>2, <1>9, <6>1 DEF Distinct
            <6> QED
              BY <6>2
          <5> QED
            BY <5>1, <5>2, <5>3, <5>4
        <4> QED
          BY <4>1
      <3> QED
        BY <3>4 DEF Distinct
    <2>4. Len(with) <= RecentLimit
      <3>1. Len(with) <= Cardinality(Roots)
        BY <1>6, <2>3, DistinctIsShort
      <3>2. Cardinality(Roots) \in Nat /\ Len(with) \in Nat /\ RecentLimit \in Nat
        BY <1>6, FS_CardinalityType, FilesAssumption
      <3> QED
        BY <1>9, <3>1, <3>2
    <2>5. n = Len(with)
      BY <1>6, <2>4, FilesAssumption
    <2>6. SubSeq(with, 1, n) = with
      BY <1>6, <2>5
    <2>7. \A x \in Roots : Has(with, x) <=> Has(list, x) \/ x = edit.add
      BY <1>1, <1>9, <2>2, FilesAssumption
    <2> QED
      BY <2>3, <2>6, <2>7
  <1> QED
    BY <1>3, <1>7, <1>8, <1>9

-----------------------------------------------------------------------------
(* The files of the open workspace: the invariant.                          *)

\* The watcher has something left to say.
Heard == watch.queue # << >> \/ watch.lost \/ watch.acknowledged
Newest == Files!Listing(opened.root, explorer, FALSE)

\* One listing runs, and unless another waits it lists the folder with the options there are.
RefreshRuns ==
    /\ \A job \in jobs : job.kind = "refresh" => refresh.inFlight = job.generation
    /\ \A job, other \in jobs : job.kind = "refresh" /\ other.kind = "refresh" => job = other
    /\ refresh.inFlight # None => /\ refresh.pending <=> refresh.inFlight # refresh.generation
                                  /\ refresh.inFlight <= refresh.generation
    /\ refresh.inFlight = None => ~refresh.pending
    /\ \A job \in jobs : job.kind = "refresh" /\ ~refresh.pending
                           => job.root = opened.root /\ job.hidden = explorer

\* Unless the watcher has more to say, what is listed is there.
ListsNewest ==
    watch.root # None /\ ~Heard =>
      /\ refresh.inFlight = None /\ "refresh" \notin failed => listing = Newest /\ ~opened.stale
      /\ \A job \in jobs :
           job.kind = "refresh" /\ ~refresh.pending /\ job.result # None /\ job.result.ok
             => job.result.value = Newest

QuickFits ==
    /\ quick.scan # None => quick.ignored
    /\ Files!QuickOpenIsCurrent

SearchedFits ==
    /\ Files!SearchIsCurrent
    /\ \A job \in jobs : job.kind \in {"debounce", "search"} =>
         /\ job.generation <= search.generation
         /\ job.generation = search.generation => job.query = search.query
    /\ \A job \in jobs : job.kind = "search" =>
         /\ job.generation = search.generation => job.ignored = search.ignored
         /\ job.result # None /\ job.result.ok
              => job.result.value.root = job.root /\ job.result.value.ignored = job.ignored

SavesFit ==
    /\ \A job, other \in jobs : job.kind = "persist" /\ other.kind = "persist" => job = other
    /\ persist.pending # None =>
         persist.pending = [root |-> opened.root, hidden |-> opened.hidden]
    /\ \A job \in jobs : job.kind = "persist" =>
         /\ persist.inFlight # None
         /\ persist.pending = None => job.root = opened.root /\ job.hidden = opened.hidden
         /\ job.stored => saved[job.root] = job.hidden
         /\ job.read # None => job.stored
         /\ job.result # None /\ job.result.ok => job.stored
    /\ Files!SettledIsSaved

MutatingFits ==
    /\ \A job \in jobs : job.kind \in {"locate", "recent"} =>
         chooser.mutating /\ used["recent"] # 0
    /\ \A job, other \in jobs :
         job.kind \in {"locate", "recent"} /\ other.kind \in {"locate", "recent"} => job = other

\* Nobody edits the list of recent workspaces, which has room for all of them.
Undisturbed == used["recent"] = 0 /\ Cardinality(Roots) <= RecentLimit

Recording(job) ==
    /\ job.recents = persist.active
    /\ job.read # None => job.read = recentFile
    /\ \A x \in Roots : Has(job.recents, x) =>
         Has(recentFile, x) \/ \E i \in 1..Len(job.edits) : job.edits[i].add = x
    /\ \A i \in 1..Len(job.edits) : job.edits[i].drop = None /\ job.edits[i].add # None
    /\ job.result # None /\ job.result.ok => job.edits = << >>

RecentsFit ==
    /\ persist.inFlight = None => persist.active = << >>
    /\ Undisturbed =>
         /\ Distinct(recentFile)
         /\ opened # None => \/ Has(persist.queue, opened.root) \/ Has(persist.active, opened.root)
                             \/ Has(recentFile, opened.root)
         /\ \A job \in jobs : job.kind = "persist" => Recording(job)

FilesFit ==
    /\ FilesTypes /\ RefreshRuns /\ ListsNewest /\ QuickFits /\ SearchedFits /\ SavesFit
    /\ MutatingFits /\ RecentsFit

-----------------------------------------------------------------------------
\* Jobs that are new are none of a kind.
NoneNew(kind) == \A job \in jobs' : job.kind = kind => job \in jobs
SameRoot == (opened' = None <=> opened = None) /\ opened'.root = opened.root

\* A step that starts no listing and changes none keeps what is known of the listings.
LEMMA RefreshApart ==
    ASSUME RefreshRuns, ListsNewest,
           UNCHANGED <<tree, opened, explorer, listing, refresh, watch>>,
           "refresh" \in failed' <=> "refresh" \in failed, NoneNew("refresh")
    PROVE  RefreshRuns' /\ ListsNewest'
  <1>1. Newest' = Newest /\ Heard' = Heard
    BY DEF Newest, Heard, Files!Listing
  <1>2. RefreshRuns'
    BY DEF RefreshRuns, NoneNew
  <1>3. ListsNewest'
    BY <1>1 DEF ListsNewest, NoneNew
  <1> QED
    BY <1>2, <1>3

\* A step that leaves quick open and the listing alone keeps what it shows honest.
LEMMA QuickApart ==
    ASSUME QuickFits, UNCHANGED <<quick, listing, listingRevision>>, SameRoot
    PROVE  QuickFits'
  BY DEF QuickFits, SameRoot, Files!QuickOpenIsCurrent, Files!QuickOpenSource

\* A step that leaves the search and its jobs alone keeps what is known of it.
LEMMA SearchedApart ==
    ASSUME SearchedFits, UNCHANGED search, SameRoot, NoneNew("debounce"), NoneNew("search")
    PROVE  SearchedFits'
  BY DEF SearchedFits, SameRoot, NoneNew, Files!SearchIsCurrent

\* A step that leaves the saves alone keeps what is known of them.
LEMMA SavesApart ==
    ASSUME SavesFit, UNCHANGED <<persist, saved>>, SameRoot, opened'.hidden = opened.hidden,
           NoneNew("persist")
    PROVE  SavesFit'
  BY DEF SavesFit, SameRoot, NoneNew, Files!SettledIsSaved

\* A step without a new job on the recent list keeps the lock on it.
LEMMA MutatingApart ==
    ASSUME MutatingFits, chooser'.mutating = chooser.mutating,
           used["recent"] # 0 => used'["recent"] # 0, NoneNew("locate"), NoneNew("recent")
    PROVE  MutatingFits'
  BY DEF MutatingFits, NoneNew

\* A step that leaves the queue and the stored list alone keeps the opened root in one of them.
LEMMA RecentsApart ==
    ASSUME RecentsFit, UNCHANGED <<persist, recentFile>>, SameRoot,
           used["recent"] # 0 => used'["recent"] # 0, NoneNew("persist")
    PROVE  RecentsFit'
  <1>1. Undisturbed' => Undisturbed
    BY DEF Undisturbed
  <1>2. \A job : Recording(job) => Recording(job)'
    BY DEF Recording
  <1> QED
    BY <1>1, <1>2 DEF RecentsFit, SameRoot, NoneNew

\* While a workspace stays open, what needs one still has it.
LEMMA OpenApart ==
    ASSUME WorkNeedsOpen, opened # None, SameRoot, watch'.root = watch.root
    PROVE  WorkNeedsOpen'
  BY DEF WorkNeedsOpen, SameRoot

\* The fields of a job, by its kind.
LEMMA JobIs ==
    ASSUME NEW job, IsJob(job)
    PROVE  /\ job.kind = "boot" => job \in BootJobs
           /\ job.kind = "pick" => job \in PickJobs
           /\ job.kind = "open" => job \in OpenJobs
           /\ job.kind = "refresh" => job \in RefreshJobs
           /\ job.kind = "persist" => job \in PersistJobs
           /\ job.kind = "recent" => job \in RecentJobs
           /\ job.kind = "locate" => job \in LocateJobs
           /\ job.kind = "quick" => job \in QuickJobs
           /\ job.kind = "debounce" => job \in DebounceJobs
           /\ job.kind = "search" => job \in SearchJobs
  <1>1. /\ job \in BootJobs => job.kind = "boot"
        /\ job \in PickJobs => job.kind = "pick"
        /\ job \in OpenJobs => job.kind = "open"
        /\ job \in RefreshJobs => job.kind = "refresh"
        /\ job \in PersistJobs => job.kind = "persist"
        /\ job \in RecentJobs => job.kind = "recent"
        /\ job \in LocateJobs => job.kind = "locate"
        /\ job \in QuickJobs => job.kind = "quick"
        /\ job \in DebounceJobs => job.kind = "debounce"
        /\ job \in SearchJobs => job.kind = "search"
    BY DEF BootJobs, PickJobs, OpenJobs, RefreshJobs, PersistJobs, RecentJobs, LocateJobs,
           QuickJobs, DebounceJobs, SearchJobs
  <1> QED
    BY <1>1 DEF IsJob

\* The kinds of jobs.
LEMMA JobKinds ==
    ASSUME NEW job, IsJob(job)
    PROVE  job.kind \in {"boot", "pick", "open", "refresh", "persist", "recent", "locate",
                         "quick", "debounce", "search"}
  <1>1. /\ job \in BootJobs => job.kind = "boot"
        /\ job \in PickJobs => job.kind = "pick"
        /\ job \in OpenJobs => job.kind = "open"
        /\ job \in RefreshJobs => job.kind = "refresh"
        /\ job \in PersistJobs => job.kind = "persist"
        /\ job \in RecentJobs => job.kind = "recent"
        /\ job \in LocateJobs => job.kind = "locate"
        /\ job \in QuickJobs => job.kind = "quick"
        /\ job \in DebounceJobs => job.kind = "debounce"
        /\ job \in SearchJobs => job.kind = "search"
    BY DEF BootJobs, PickJobs, OpenJobs, RefreshJobs, PersistJobs, RecentJobs, LocateJobs,
           QuickJobs, DebounceJobs, SearchJobs
  <1> QED
    BY <1>1 DEF IsJob

\* An answer is a value or a failure.
LEMMA AnswerIs ==
    ASSUME NEW V, NEW v \in V
    PROVE  /\ Files!Done(v) \in Answers(V) /\ Files!Done(v).ok /\ Files!Done(v).value = v
           /\ Files!Failed \in Answers(V) /\ ~Files!Failed.ok
  BY DEF Answers, Optional, Files!Done, Files!Failed

\* A successful answer has a value.
LEMMA AnswerHas ==
    ASSUME NEW V, NEW r \in Answers(V), r # None
    PROVE  r.ok \in BOOLEAN /\ (r.ok => r.value \in V)
  <1>1. CASE r \in [ok : {TRUE}, value : V]
    BY <1>1
  <1>2. CASE r = Files!Failed
    BY <1>2 DEF Files!Failed
  <1> QED
    BY <1>1, <1>2 DEF Answers, Optional

\* A job with its answer is the same job.
LEMMA FinishedIs ==
    ASSUME NEW job, IsJob(job), NEW r
    PROVE  LET new == [job EXCEPT !.result = r] IN
           /\ new.result = r /\ new.kind = job.kind
           /\ job.kind = "refresh" =>
                /\ (r \in Answers(Listings) => new \in RefreshJobs)
                /\ new.generation = job.generation /\ new.root = job.root
                /\ new.hidden = job.hidden
           /\ job.kind = "quick" => (r \in Answers(Listings) => new \in QuickJobs)
           /\ job.kind = "search" =>
                /\ (r \in Answers(Listings) => new \in SearchJobs)
                /\ new.generation = job.generation /\ new.root = job.root
                /\ new.query = job.query /\ new.ignored = job.ignored
           /\ job.kind = "open" => (r \in Answers(Listings) => new \in OpenJobs)
           /\ job.kind = "boot" => (r \in Answers(Seq(Roots)) => new \in BootJobs)
           /\ job.kind = "recent" => (r \in Answers(Seq(Roots)) => new \in RecentJobs)
           /\ job.kind = "persist" =>
                /\ (r \in Answers(Seq(Roots)) => new \in PersistJobs)
                /\ new.root = job.root /\ new.hidden = job.hidden
                /\ new.stored = job.stored /\ new.read = job.read
                /\ new.recents = job.recents /\ new.edits = job.edits
  <1> DEFINE new == [job EXCEPT !.result = r]
             Same(j) == new.result = r /\ new.kind = j
  <1>0. /\ job.kind = "boot" => job \in BootJobs
        /\ job.kind = "pick" => job \in PickJobs
        /\ job.kind = "open" => job \in OpenJobs
        /\ job.kind = "refresh" => job \in RefreshJobs
        /\ job.kind = "persist" => job \in PersistJobs
        /\ job.kind = "recent" => job \in RecentJobs
        /\ job.kind = "locate" => job \in LocateJobs
        /\ job.kind = "quick" => job \in QuickJobs
        /\ job.kind = "debounce" => job \in DebounceJobs
        /\ job.kind = "search" => job \in SearchJobs
    BY JobIs
  <1>1. ASSUME job \in RefreshJobs
        PROVE  /\ Same("refresh")
               /\ (r \in Answers(Listings) => new \in RefreshJobs)
               /\ new.generation = job.generation /\ new.root = job.root
               /\ new.hidden = job.hidden
    BY <1>1 DEF RefreshJobs
  <1>2. ASSUME job \in QuickJobs
        PROVE  Same("quick") /\ (r \in Answers(Listings) => new \in QuickJobs)
    BY <1>2 DEF QuickJobs
  <1>3. ASSUME job \in SearchJobs
        PROVE  /\ Same("search")
               /\ (r \in Answers(Listings) => new \in SearchJobs)
               /\ new.generation = job.generation /\ new.root = job.root
               /\ new.query = job.query /\ new.ignored = job.ignored
    BY <1>3 DEF SearchJobs
  <1>4. ASSUME job \in OpenJobs
        PROVE  Same("open") /\ (r \in Answers(Listings) => new \in OpenJobs)
    BY <1>4 DEF OpenJobs
  <1>5. ASSUME job \in BootJobs
        PROVE  Same("boot") /\ (r \in Answers(Seq(Roots)) => new \in BootJobs)
    BY <1>5 DEF BootJobs
  <1>6. ASSUME job \in RecentJobs
        PROVE  Same("recent") /\ (r \in Answers(Seq(Roots)) => new \in RecentJobs)
    BY <1>6 DEF RecentJobs
  <1>7. ASSUME job \in PersistJobs
        PROVE  /\ Same("persist")
               /\ (r \in Answers(Seq(Roots)) => new \in PersistJobs)
               /\ new.root = job.root /\ new.hidden = job.hidden
               /\ new.stored = job.stored /\ new.read = job.read
               /\ new.recents = job.recents /\ new.edits = job.edits
    BY <1>7 DEF PersistJobs
  <1>8. ASSUME job \in PickJobs PROVE Same("pick")
    BY <1>8 DEF PickJobs
  <1>9. ASSUME job \in LocateJobs PROVE Same("locate")
    BY <1>9 DEF LocateJobs
  <1>10. ASSUME job \in DebounceJobs PROVE Same("debounce")
    BY <1>10 DEF DebounceJobs
  <1>11. job.kind \in {"boot", "pick", "open", "refresh", "persist", "recent", "locate", "quick",
                       "debounce", "search"}
    BY JobKinds
  <1> HIDE DEF new
  <1>12. Same(job.kind)
    BY <1>0, <1>1, <1>2, <1>3, <1>4, <1>5, <1>6, <1>7, <1>8, <1>9, <1>10, <1>11
  <1> QED
    BY <1>0, <1>1, <1>2, <1>3, <1>4, <1>5, <1>6, <1>7, <1>12 DEF new

-----------------------------------------------------------------------------
(* Steps that leave the work on the open workspace alone.                   *)

WorkKinds == {"refresh", "persist", "quick", "debounce", "search"}

\* A step that only touches the choice of a workspace, or finishes a job nobody waits for.
LEMMA CalmIs ==
    ASSUME FilesFit,
           UNCHANGED <<tree, saved, recentFile, opened, explorer, listing, listingRevision,
                       refresh, watch, quick, search, persist>>,
           "refresh" \in failed' <=> "refresh" \in failed, failed' \subseteq Errors,
           recents' \in Seq(Roots), chooser' \in Choosers, used' \in [Files!Kinds -> Nat],
           used["recent"] # 0 => used'["recent"] # 0,
           \A job \in jobs' : job \in jobs \/ (IsJob(job) /\ job.kind \notin WorkKinds),
           MutatingFits'
    PROVE  FilesFit'
  <1>0. /\ FilesState /\ JobsTyped /\ WorkNeedsOpen /\ RefreshRuns /\ ListsNewest /\ QuickFits
        /\ SearchedFits /\ SavesFit /\ RecentsFit
    BY DEF FilesFit, FilesTypes
  <1>1. FilesState'
    BY <1>0 DEF FilesState
  <1>2. JobsTyped'
    BY <1>0 DEF JobsTyped
  <1>3. WorkNeedsOpen'
    BY <1>0 DEF WorkNeedsOpen, WorkKinds
  <1>4. /\ NoneNew("refresh") /\ NoneNew("persist") /\ NoneNew("debounce") /\ NoneNew("search")
        /\ SameRoot
    BY DEF NoneNew, WorkKinds, SameRoot
  <1>5. RefreshRuns' /\ ListsNewest'
    BY <1>0, <1>4, RefreshApart
  <1>6. QuickFits' /\ SearchedFits'
    BY <1>0, <1>4, QuickApart, SearchedApart
  <1>7. SavesFit'
    BY <1>0, <1>4, SavesApart
  <1>8. RecentsFit'
    BY <1>0, <1>4, RecentsApart
  <1> QED
    BY <1>1, <1>2, <1>3, <1>5, <1>6, <1>7, <1>8 DEF FilesFit, FilesTypes

\* What the chooser of folders becomes when one is opened or not.
LEMMA ChooserIs ==
    ASSUME NEW c \in Choosers, NEW d,
           \/ d = [c EXCEPT !.opening = TRUE, !.manual = TRUE]
           \/ d = [c EXCEPT !.opening = TRUE] \/ d = [c EXCEPT !.opening = FALSE] \/ d = c
    PROVE  d \in Choosers /\ d.mutating = c.mutating
  <1>1. c.opening \in BOOLEAN /\ c.mutating \in BOOLEAN /\ c.manual \in BOOLEAN
        /\ c = [opening |-> c.opening, mutating |-> c.mutating, manual |-> c.manual]
    BY DEF Choosers
  <1>2. \E o, m \in BOOLEAN : d = [opening |-> o, mutating |-> c.mutating, manual |-> m]
    BY <1>1
  <1> QED
    BY <1>1, <1>2 DEF Choosers

\* The chooser is locked or released.
LEMMA MutatingIs ==
    ASSUME NEW c \in Choosers, NEW b \in BOOLEAN
    PROVE  [c EXCEPT !.mutating = b] \in Choosers /\ [c EXCEPT !.mutating = b].mutating = b
  BY DEF Choosers

\* The jobs that open, pick and locate a folder are well-formed.
LEMMA NewJobs ==
    /\ \A root \in Roots : LET job == Files!OpenJob(root) IN
         IsJob(job) /\ job.kind = "open" /\ job.result = None
    /\ LET job == [kind |-> "pick", result |-> None] IN IsJob(job) /\ job.kind = "pick"
    /\ \A root \in Roots : LET job == [kind |-> "locate", root |-> root, result |-> None] IN
         IsJob(job) /\ job.kind = "locate"
    /\ \A drop \in Roots, add \in Optional(Roots) : LET job == Files!RecentJob(drop, add) IN
         IsJob(job) /\ job.kind = "recent"
  <1>1. ASSUME NEW root \in Roots
        PROVE  LET job == Files!OpenJob(root) IN
               job \in OpenJobs /\ job.kind = "open" /\ job.result = None
    BY DEF Files!OpenJob, OpenJobs, Answers, Optional
  <1>2. [kind |-> "pick", result |-> None] \in PickJobs
    BY DEF PickJobs
  <1>3. ASSUME NEW root \in Roots
        PROVE  [kind |-> "locate", root |-> root, result |-> None] \in LocateJobs
    BY DEF LocateJobs
  <1>4. ASSUME NEW drop \in Roots, NEW add \in Optional(Roots)
        PROVE  LET job == Files!RecentJob(drop, add) IN job \in RecentJobs /\ job.kind = "recent"
    <2>1. [add |-> add, drop |-> drop] \in Edits
      BY DEF Edits, Optional
    <2> DEFINE edits == <<[add |-> add, drop |-> drop]>>
    <2>2. edits \in Seq(Edits)
      BY <2>1
    <2> HIDE DEF edits
    <2>3. Files!RecentJob(drop, add) = [kind |-> "recent", edits |-> edits, read |-> None,
                                        result |-> None]
      BY DEF Files!RecentJob, edits
    <2> QED
      BY <2>2, <2>3 DEF RecentJobs, Answers, Optional
  <1> QED
    BY <1>1, <1>2, <1>3, <1>4 DEF IsJob


\* OpenFolder keeps the invariant.
LEMMA OpenFolderFits ==
    ASSUME FilesFit, Files!OpenFolder
    PROVE  FilesFit'
  <1>0. FilesState /\ MutatingFits /\ chooser \in Choosers /\ recents \in Seq(Roots)
    BY DEF FilesFit, FilesTypes, FilesState
  <1>1. /\ used' \in [Files!Kinds -> Nat]
        /\ used["recent"] # 0 => used'["recent"] # 0
    <2>1. "open" \in Files!Kinds /\ Files!Spend("open")
      BY DEF Files!OpenFolder, Files!Kinds
    <2> QED
      BY <1>0, <2>1, SpendIs
  <1>2. chooser' \in Choosers /\ chooser'.mutating = chooser.mutating
    BY <1>0, ChooserIs DEF Files!OpenFolder
  <1>3. \A job \in jobs' : job \in jobs \/ (IsJob(job) /\ job.kind = "pick")
    BY NewJobs DEF Files!OpenFolder
  <1>4. MutatingFits'
    BY <1>0, <1>1, <1>2, <1>3, MutatingApart DEF NoneNew
  <1>5. /\ UNCHANGED <<tree, saved, recentFile, opened, explorer, listing, listingRevision,
                       refresh, watch, quick, search, persist, recents>>
        /\ failed' = failed \ {"open"}
    BY DEF Files!OpenFolder, Files!storeVars, Files!listVars
  <1>6. ("refresh" \in failed' <=> "refresh" \in failed) /\ failed' \subseteq Errors
    BY <1>0, <1>5 DEF FilesState
  <1>7. \A job \in jobs' : job \in jobs \/ (IsJob(job) /\ job.kind \notin WorkKinds)
    BY <1>3 DEF WorkKinds
  <1> QED
    BY <1>0, <1>1, <1>2, <1>4, <1>5, <1>6, <1>7, CalmIs

\* FolderPicked keeps the invariant.
LEMMA FolderPickedFits ==
    ASSUME FilesFit, NEW job \in jobs, Files!FolderPicked(job)
    PROVE  FilesFit'
  <1>0. /\ FilesState /\ MutatingFits /\ chooser \in Choosers /\ recents \in Seq(Roots)
        /\ failed \subseteq Errors /\ used \in [Files!Kinds -> Nat]
    BY DEF FilesFit, FilesTypes, FilesState
  <1>1. /\ UNCHANGED <<tree, saved, recentFile, opened, explorer, listing, listingRevision,
                       refresh, watch, quick, search, persist, recents, failed, used>>
    BY DEF Files!FolderPicked, Files!storeVars, Files!listVars
  <1>2. chooser' \in Choosers /\ chooser'.mutating = chooser.mutating
    BY <1>0, ChooserIs DEF Files!FolderPicked
  <1>3. \A new \in jobs' : new \in jobs \/ (IsJob(new) /\ new.kind = "open")
    BY NewJobs DEF Files!FolderPicked
  <1>4. MutatingFits'
    BY <1>0, <1>1, <1>2, <1>3, MutatingApart DEF NoneNew
  <1>5. \A new \in jobs' : new \in jobs \/ (IsJob(new) /\ new.kind \notin WorkKinds)
    BY <1>3 DEF WorkKinds
  <1> QED
    BY <1>0, <1>1, <1>2, <1>4, <1>5, CalmIs

\* RetryRecentWorkspace and a workspace chosen in the command center keep the invariant.
LEMMA RetryRecentFits ==
    ASSUME FilesFit, Files!RetryRecentWorkspace \/ Files!CommandResourceSelected
    PROVE  FilesFit'
  <1>0. /\ FilesState /\ MutatingFits /\ chooser \in Choosers /\ recents \in Seq(Roots)
        /\ failed \subseteq Errors
    BY DEF FilesFit, FilesTypes, FilesState
  <1>1. /\ used' \in [Files!Kinds -> Nat]
        /\ used["recent"] # 0 => used'["recent"] # 0
    <2>1. "open" \in Files!Kinds /\ Files!Spend("open")
      BY DEF Files!RetryRecentWorkspace, Files!CommandResourceSelected, Files!Kinds
    <2> QED
      BY <1>0, <2>1, SpendIs
  <1>2. /\ UNCHANGED <<tree, saved, recentFile, opened, explorer, listing, listingRevision,
                       refresh, watch, quick, search, persist, recents, failed>>
    BY DEF Files!RetryRecentWorkspace, Files!CommandResourceSelected, Files!storeVars,
           Files!listVars
  <1>3. chooser' \in Choosers /\ chooser'.mutating = chooser.mutating
    BY <1>0, ChooserIs DEF Files!RetryRecentWorkspace, Files!CommandResourceSelected
  <1>4. \A new \in jobs' : new \in jobs \/ (IsJob(new) /\ new.kind = "open")
    <2>1. PICK root \in Files!ToSet(recents) : jobs' = jobs \cup {Files!OpenJob(root)}
      BY DEF Files!RetryRecentWorkspace, Files!CommandResourceSelected
    <2>2. root \in Roots
      BY <1>0, <2>1 DEF Files!ToSet
    <2> QED
      BY <2>1, <2>2, NewJobs
  <1>5. MutatingFits'
    BY <1>0, <1>1, <1>3, <1>4, MutatingApart DEF NoneNew
  <1>6. \A new \in jobs' : new \in jobs \/ (IsJob(new) /\ new.kind \notin WorkKinds)
    BY <1>4 DEF WorkKinds
  <1> QED
    BY <1>0, <1>1, <1>2, <1>3, <1>5, <1>6, CalmIs

\* RecentWorkspaceLoaded keeps the invariant.
LEMMA RecentLoadedFits ==
    ASSUME FilesFit, NEW job \in jobs, Files!RecentWorkspaceLoaded(job)
    PROVE  FilesFit'
  <1>0. /\ FilesState /\ MutatingFits /\ chooser \in Choosers /\ recents \in Seq(Roots)
        /\ failed \subseteq Errors /\ used \in [Files!Kinds -> Nat] /\ IsJob(job)
    BY DEF FilesFit, FilesTypes, FilesState, JobsTyped
  <1>1. /\ UNCHANGED <<tree, saved, recentFile, opened, explorer, listing, listingRevision,
                       refresh, watch, quick, search, persist, used>>
    BY DEF Files!RecentWorkspaceLoaded, Files!storeVars, Files!listVars
  <1>2. chooser' \in Choosers /\ chooser'.mutating = chooser.mutating
    BY <1>0, ChooserIs DEF Files!RecentWorkspaceLoaded
  <1>3. job.result # None /\ (job.result.ok => job.result.value \in Seq(Roots))
    <2>1. job \in BootJobs /\ job.result # None
      BY <1>0, JobIs DEF Files!RecentWorkspaceLoaded
    <2>2. job.result \in Answers(Seq(Roots))
      BY <2>1 DEF BootJobs
    <2> QED
      BY <2>1, <2>2, AnswerHas
  <1>4. recents' \in Seq(Roots)
    BY <1>0, <1>3 DEF Files!RecentWorkspaceLoaded
  <1>5. \A new \in jobs' : new \in jobs \/ (IsJob(new) /\ new.kind = "open")
    <2>1. \/ jobs' \subseteq jobs
          \/ jobs' = (jobs \ {job}) \cup {Files!OpenJob(Head(recents'))} /\ recents' # << >>
      BY DEF Files!RecentWorkspaceLoaded
    <2>2. recents' # << >> => Head(recents') \in Roots
      BY <1>4
    <2> QED
      BY <2>1, <2>2, NewJobs
  <1>6. MutatingFits'
    BY <1>0, <1>1, <1>2, <1>5, MutatingApart DEF NoneNew
  <1>7. failed' = failed \/ failed' = failed \cup {"open"}
    BY DEF Files!RecentWorkspaceLoaded
  <1>8. ("refresh" \in failed' <=> "refresh" \in failed) /\ failed' \subseteq Errors
    BY <1>0, <1>7 DEF Errors
  <1>9. \A new \in jobs' : new \in jobs \/ (IsJob(new) /\ new.kind \notin WorkKinds)
    BY <1>5 DEF WorkKinds
  <1> QED
    BY <1>0, <1>1, <1>2, <1>4, <1>6, <1>8, <1>9, CalmIs

\* WorkspaceOpenFailed keeps the invariant.
LEMMA OpenFailedFits ==
    ASSUME FilesFit, NEW job \in jobs, Files!WorkspaceOpenFailed(job)
    PROVE  FilesFit'
  <1>0. /\ FilesState /\ MutatingFits /\ chooser \in Choosers /\ recents \in Seq(Roots)
        /\ failed \subseteq Errors /\ used \in [Files!Kinds -> Nat]
    BY DEF FilesFit, FilesTypes, FilesState
  <1>1. /\ UNCHANGED <<tree, saved, recentFile, opened, explorer, listing, listingRevision,
                       refresh, watch, quick, search, persist, used, recents>>
        /\ failed' = failed \cup {"open"} /\ jobs' \subseteq jobs
    BY DEF Files!WorkspaceOpenFailed, Files!storeVars, Files!listVars
  <1>2. chooser' \in Choosers /\ chooser'.mutating = chooser.mutating
    BY <1>0, ChooserIs DEF Files!WorkspaceOpenFailed
  <1>3. MutatingFits'
    BY <1>0, <1>1, <1>2, MutatingApart DEF NoneNew
  <1>4. ("refresh" \in failed' <=> "refresh" \in failed) /\ failed' \subseteq Errors
    BY <1>0, <1>1 DEF Errors
  <1> QED
    BY <1>0, <1>1, <1>2, <1>3, <1>4, CalmIs

\* Reading a folder, and the recent list at the start, keeps the invariant.
LEMMA RunOpenFits ==
    ASSUME FilesFit, NEW job \in jobs, Files!RunOpen(job) \/ Files!LoadBoot(job)
    PROVE  FilesFit'
  <1>0. /\ FilesState /\ MutatingFits /\ chooser \in Choosers /\ recents \in Seq(Roots)
        /\ failed \subseteq Errors /\ IsJob(job)
        /\ tree \in [Roots -> Nat] /\ saved \in [Roots -> Optional(BOOLEAN)]
        /\ recentFile \in Seq(Roots)
    BY DEF FilesFit, FilesTypes, FilesState, JobsTyped
  <1>1. /\ UNCHANGED <<tree, saved, recentFile, opened, explorer, listing, listingRevision,
                       refresh, watch, quick, search, persist, recents, chooser, failed>>
    BY DEF Files!RunOpen, Files!LoadBoot, Files!storeVars, Files!listVars, Files!saveVars
  <1>2. /\ used' \in [Files!Kinds -> Nat]
        /\ used["recent"] # 0 => used'["recent"] # 0
    <2>1. "failure" \in Files!Kinds /\ (Files!Spend("failure") \/ UNCHANGED used)
      BY DEF Files!RunOpen, Files!LoadBoot, Files!Kinds
    <2>2. CASE Files!Spend("failure")
      BY <1>0, <2>1, <2>2, SpendIs
    <2>3. CASE UNCHANGED used
      BY <1>0, <2>3 DEF FilesState
    <2> QED
      BY <2>1, <2>2, <2>3
  <1>3. \A new \in jobs' : new \in jobs \/ (IsJob(new) /\ new.kind \in {"open", "boot"})
    <2>1. CASE Files!RunOpen(job)
      <3> DEFINE hidden == IF saved[job.root] = None THEN FALSE ELSE saved[job.root]
                 answer == Files!Listing(job.root, hidden, FALSE)
      <3>1. job \in OpenJobs /\ job.kind = "open" /\ job.root \in Roots
        BY <1>0, <2>1, JobIs DEF Files!RunOpen, OpenJobs
      <3>2. answer \in Listings
        <4>1. hidden \in BOOLEAN
          BY <1>0, <3>1 DEF Optional
        <4> HIDE DEF hidden
        <4> QED
          BY <1>0, <3>1, <4>1 DEF Files!Listing, Listings
      <3>3. \E r : /\ r = Files!Done(answer) \/ r = Files!Failed
                   /\ jobs' = (jobs \ {job}) \cup {[job EXCEPT !.result = r]}
        BY <2>1 DEF Files!RunOpen, Files!Finish
      <3> HIDE DEF answer
      <3>4. PICK r : /\ r \in Answers(Listings)
                     /\ jobs' = (jobs \ {job}) \cup {[job EXCEPT !.result = r]}
        BY <3>2, <3>3, AnswerIs
      <3>5. [job EXCEPT !.result = r] \in OpenJobs /\ [job EXCEPT !.result = r].kind = "open"
        BY <1>0, <3>1, <3>4, FinishedIs
      <3> QED
        BY <3>4, <3>5 DEF IsJob
    <2>2. CASE Files!LoadBoot(job)
      <3>1. job.kind = "boot"
        BY <2>2 DEF Files!LoadBoot
      <3>3. \E r : /\ r = Files!Done(recentFile) \/ r = Files!Failed
                   /\ jobs' = (jobs \ {job}) \cup {[job EXCEPT !.result = r]}
        BY <2>2 DEF Files!LoadBoot, Files!Finish
      <3>4. PICK r : /\ r \in Answers(Seq(Roots))
                     /\ jobs' = (jobs \ {job}) \cup {[job EXCEPT !.result = r]}
        BY <1>0, <3>3, AnswerIs
      <3>5. [job EXCEPT !.result = r] \in BootJobs /\ [job EXCEPT !.result = r].kind = "boot"
        BY <1>0, <3>1, <3>4, FinishedIs
      <3> QED
        BY <3>4, <3>5 DEF IsJob
    <2> QED
      BY <2>1, <2>2
  <1>4. MutatingFits'
    BY <1>0, <1>1, <1>2, <1>3, MutatingApart DEF NoneNew
  <1>5. \A new \in jobs' : new \in jobs \/ (IsJob(new) /\ new.kind \notin WorkKinds)
    BY <1>3 DEF WorkKinds
  <1> QED
    BY <1>0, <1>1, <1>2, <1>4, <1>5, CalmIs

\* What it takes to edit the list of recent workspaces.
LEMMA RemoveRecentFits ==
    ASSUME FilesFit, Files!RemoveRecentWorkspace \/ Files!LocateRecentWorkspace
    PROVE  FilesFit'
  <1>0. /\ FilesState /\ MutatingFits /\ chooser \in Choosers /\ recents \in Seq(Roots)
        /\ failed \subseteq Errors
    BY DEF FilesFit, FilesTypes, FilesState
  <1>1. /\ used' \in [Files!Kinds -> Nat] /\ used'["recent"] # 0
    <2>1. "recent" \in Files!Kinds /\ Files!Spend("recent")
      BY DEF Files!RemoveRecentWorkspace, Files!LocateRecentWorkspace, Files!Kinds
    <2> QED
      BY <1>0, <2>1, SpendIs
  <1>2. /\ UNCHANGED <<tree, saved, recentFile, opened, explorer, listing, listingRevision,
                       refresh, watch, quick, search, persist, recents, failed>>
        /\ ~chooser.mutating
    BY DEF Files!RemoveRecentWorkspace, Files!LocateRecentWorkspace, Files!storeVars,
           Files!listVars, Files!ChooserFree
  <1>3. chooser' \in Choosers /\ chooser'.mutating
    <2>1. chooser' = [chooser EXCEPT !.mutating = TRUE]
      BY DEF Files!RemoveRecentWorkspace, Files!LocateRecentWorkspace
    <2> QED
      BY <1>0, <2>1, MutatingIs
  <1>4. \E new : /\ IsJob(new) /\ new.kind \in {"recent", "locate"}
                 /\ jobs' = jobs \cup {new}
    <2>1. CASE Files!RemoveRecentWorkspace
      <3>1. PICK root \in Files!ToSet(recents) :
              jobs' = jobs \cup {Files!RecentJob(root, None)}
        BY <2>1 DEF Files!RemoveRecentWorkspace
      <3>2. root \in Roots /\ None \in Optional(Roots)
        BY <1>0, <3>1 DEF Files!ToSet, Optional
      <3> QED
        BY <3>1, <3>2, NewJobs
    <2>2. CASE Files!LocateRecentWorkspace
      <3>1. PICK root \in Files!ToSet(recents) :
              jobs' = jobs \cup {[kind |-> "locate", root |-> root, result |-> None]}
        BY <2>2 DEF Files!LocateRecentWorkspace
      <3>2. root \in Roots
        BY <1>0, <3>1 DEF Files!ToSet
      <3> QED
        BY <3>1, <3>2, NewJobs
    <2> QED
      BY <2>1, <2>2
  <1>5. MutatingFits'
    <2>1. \A job \in jobs : job.kind \notin {"locate", "recent"}
      BY <1>0, <1>2 DEF MutatingFits
    <2> QED
      BY <1>1, <1>3, <1>4, <2>1 DEF MutatingFits
  <1>6. \A new \in jobs' : new \in jobs \/ (IsJob(new) /\ new.kind \notin WorkKinds)
    BY <1>4 DEF WorkKinds
  <1> QED
    BY <1>0, <1>1, <1>2, <1>3, <1>5, <1>6, CalmIs

\* RecentWorkspaceLocated keeps the invariant.
LEMMA RecentLocatedFits ==
    ASSUME FilesFit, NEW job \in jobs, Files!RecentWorkspaceLocated(job)
    PROVE  FilesFit'
  <1>0. /\ FilesState /\ MutatingFits /\ chooser \in Choosers /\ recents \in Seq(Roots)
        /\ failed \subseteq Errors /\ used \in [Files!Kinds -> Nat] /\ IsJob(job)
        /\ job.kind = "locate"
    BY DEF FilesFit, FilesTypes, FilesState, JobsTyped, Files!RecentWorkspaceLocated
  <1>1. /\ UNCHANGED <<tree, saved, recentFile, opened, explorer, listing, listingRevision,
                       refresh, watch, quick, search, persist, recents, failed, used>>
    BY DEF Files!RecentWorkspaceLocated, Files!storeVars, Files!listVars
  <1>2. \/ /\ chooser' = chooser
           /\ \E new : IsJob(new) /\ new.kind = "recent" /\ jobs' = (jobs \ {job}) \cup {new}
        \/ chooser' = [chooser EXCEPT !.mutating = FALSE] /\ jobs' = jobs \ {job}
    <2>1. job.root \in Roots
      BY <1>0, JobIs DEF LocateJobs
    <2>2. ASSUME NEW root \in Roots
          PROVE  IsJob(Files!RecentJob(job.root, root)) /\ Files!RecentJob(job.root, root).kind = "recent"
      BY <2>1, NewJobs DEF Optional
    <2> QED
      BY <2>2 DEF Files!RecentWorkspaceLocated
  <1>3. chooser' \in Choosers /\ (chooser'.mutating <=> chooser.mutating /\ chooser' = chooser)
    BY <1>0, <1>2, MutatingIs
  <1>4. MutatingFits'
    <2>1. /\ chooser.mutating /\ used["recent"] # 0
          /\ \A other \in jobs \ {job} : other.kind \notin {"locate", "recent"}
      BY <1>0 DEF MutatingFits
    <2> QED
      BY <1>1, <1>2, <2>1 DEF MutatingFits
  <1>5. \A new \in jobs' : new \in jobs \/ (IsJob(new) /\ new.kind \notin WorkKinds)
    BY <1>2 DEF WorkKinds
  <1> QED
    BY <1>0, <1>1, <1>3, <1>4, <1>5, CalmIs

\* RecentWorkspacesUpdated keeps the invariant.
LEMMA RecentUpdatedFits ==
    ASSUME FilesFit, NEW job \in jobs, Files!RecentWorkspacesUpdated(job)
    PROVE  FilesFit'
  <1>0. /\ FilesState /\ MutatingFits /\ chooser \in Choosers /\ recents \in Seq(Roots)
        /\ failed \subseteq Errors /\ used \in [Files!Kinds -> Nat] /\ IsJob(job)
        /\ job.kind = "recent" /\ job.result # None
    BY DEF FilesFit, FilesTypes, FilesState, JobsTyped, Files!RecentWorkspacesUpdated
  <1>1. /\ UNCHANGED <<tree, saved, recentFile, opened, explorer, listing, listingRevision,
                       refresh, watch, quick, search, persist, used>>
        /\ jobs' = jobs \ {job} /\ chooser' = [chooser EXCEPT !.mutating = FALSE]
    BY DEF Files!RecentWorkspacesUpdated, Files!storeVars, Files!listVars
  <1>2. chooser' \in Choosers
    BY <1>0, <1>1, MutatingIs
  <1>3. recents' \in Seq(Roots)
    <2>1. job \in RecentJobs
      BY <1>0, JobIs
    <2>2. job.result \in Answers(Seq(Roots))
      BY <2>1 DEF RecentJobs
    <2>3. job.result.ok => job.result.value \in Seq(Roots)
      BY <1>0, <2>2, AnswerHas
    <2> QED
      BY <1>0, <2>3 DEF Files!RecentWorkspacesUpdated
  <1>4. ("refresh" \in failed' <=> "refresh" \in failed) /\ failed' \subseteq Errors
    <2>1. failed' = failed \ {"persistence"} \/ failed' = failed \cup {"persistence"}
      BY DEF Files!RecentWorkspacesUpdated
    <2> QED
      BY <1>0, <2>1 DEF Errors
  <1>5. MutatingFits'
    <2>1. \A other \in jobs \ {job} : other.kind \notin {"locate", "recent"}
      BY <1>0 DEF MutatingFits
    <2> QED
      BY <1>1, <2>1 DEF MutatingFits
  <1> QED
    BY <1>0, <1>1, <1>2, <1>3, <1>4, <1>5, CalmIs

-----------------------------------------------------------------------------
(* The watcher and the listings.                                            *)

\* The open workspace, after its listing turned stale or its option was switched.
LEMMA OpenedIs ==
    ASSUME opened \in Openings, NEW b \in BOOLEAN
    PROVE  /\ opened # None /\ opened.root \in Roots /\ opened.hidden \in BOOLEAN
           /\ LET o == [opened EXCEPT !.stale = b] IN
              /\ o \in Openings /\ o # None /\ o.root = opened.root /\ o.hidden = opened.hidden
              /\ (o.stale <=> b)
           /\ LET o == [opened EXCEPT !.hidden = b] IN
              /\ o \in Openings /\ o # None /\ o.root = opened.root /\ (o.hidden <=> b)
              /\ o.stale = opened.stale
  BY FilesAssumption DEF Openings

\* The watcher, after an event was queued, or lost because the channel is full.
LEMMA SentIs ==
    ASSUME NEW w \in Watches, Len(w.queue) <= EventCapacity, NEW event \in {"changed", "stale"}
    PROVE  LET v == Files!Sent(w, event) IN
           /\ v \in Watches /\ Len(v.queue) <= EventCapacity /\ v.root = w.root
           /\ v.queue # << >> \/ v.lost
           /\ v.acknowledged = w.acknowledged
  <1>0. /\ w.queue \in Seq({"changed", "stale"}) /\ Len(w.queue) \in Nat /\ EventCapacity \in Nat
    BY FilesAssumption DEF Watches
  <1>1. CASE Len(w.queue) < EventCapacity
    <2> DEFINE q == Append(w.queue, event)
               v == [w EXCEPT !.queue = q]
    <2>1. q \in Seq({"changed", "stale"}) /\ Len(q) = Len(w.queue) + 1 /\ q # << >>
      BY <1>0
    <2>2. Files!Sent(w, event) = v
      BY <1>1 DEF Files!Sent
    <2> HIDE DEF q
    <2>3. v \in Watches /\ v.queue = q /\ v.root = w.root /\ v.acknowledged = w.acknowledged
      BY <2>1 DEF Watches
    <2> HIDE DEF v
    <2> QED
      BY <1>0, <1>1, <2>1, <2>2, <2>3
  <1>2. CASE ~(Len(w.queue) < EventCapacity)
    <2>1. Files!Sent(w, event) = [w EXCEPT !.lost = TRUE]
      BY <1>2 DEF Files!Sent
    <2> QED
      BY <2>1 DEF Watches
  <1> QED
    BY <1>1, <1>2

\* The watcher, after the loss was acknowledged.
LEMMA AcknowledgedIs ==
    ASSUME NEW w \in Watches
    PROVE  LET v == [w EXCEPT !.lost = FALSE, !.acknowledged = TRUE] IN
           v \in Watches /\ v.queue = w.queue /\ v.root = w.root /\ v.acknowledged
  BY DEF Watches

\* The watcher, after what was queued before the loss was dropped.
LEMMA DrainedIs ==
    ASSUME NEW w \in Watches
    PROVE  LET v == [w EXCEPT !.queue = << >>, !.acknowledged = FALSE] IN
           v \in Watches /\ v.queue = << >> /\ v.root = w.root
  <1>1. << >> \in Seq({"changed", "stale"})
    OBVIOUS
  <1> QED
    BY <1>1 DEF Watches

\* The watcher, after some of its events were received.
LEMMA ReceivedIs ==
    ASSUME NEW w \in Watches, Len(w.queue) <= EventCapacity, NEW n \in 1..Len(w.queue)
    PROVE  LET v == [w EXCEPT !.queue = SubSeq(@, n + 1, Len(@))] IN
           v \in Watches /\ Len(v.queue) <= EventCapacity /\ v.root = w.root
  <1> DEFINE q == SubSeq(w.queue, n + 1, Len(w.queue))
             v == [w EXCEPT !.queue = q]
  <1>0. /\ w.queue \in Seq({"changed", "stale"}) /\ Len(w.queue) \in Nat /\ EventCapacity \in Nat
    BY FilesAssumption DEF Watches
  <1>1. q \in Seq({"changed", "stale"}) /\ Len(q) = Len(w.queue) - n /\ n \in Nat /\ n >= 1
    BY <1>0
  <1>2. [w EXCEPT !.queue = SubSeq(@, n + 1, Len(@))] = v
    OBVIOUS
  <1> HIDE DEF q
  <1>3. Len(q) <= EventCapacity
    BY <1>0, <1>1
  <1>4. v \in Watches /\ v.queue = q /\ v.root = w.root
    BY <1>1 DEF Watches
  <1>5. v \in Watches /\ Len(v.queue) <= EventCapacity /\ v.root = w.root
    BY <1>3, <1>4
  <1> HIDE DEF v
  <1> QED
    BY <1>2, <1>5

\* A change outside keeps the invariant: the watcher has something to say of it.
LEMMA OutsideFits ==
    ASSUME FilesFit, Files!Outside
    PROVE  FilesFit'
  <1>0. /\ FilesState /\ JobsTyped /\ WorkNeedsOpen /\ RefreshRuns /\ ListsNewest /\ QuickFits
        /\ SearchedFits /\ SavesFit /\ MutatingFits /\ RecentsFit
        /\ watch \in Watches /\ Len(watch.queue) <= EventCapacity /\ tree \in [Roots -> Nat]
    BY DEF FilesFit, FilesTypes, FilesState
  <1>1. /\ UNCHANGED <<saved, recentFile, opened, explorer, listing, listingRevision, refresh,
                       quick, search, failed, persist, chooser, recents, jobs>>
    BY DEF Files!Outside, Files!WatchError, Files!TreeChanges, Files!storeVars, Files!saveVars
  <1>2. /\ used' \in [Files!Kinds -> Nat]
        /\ used["recent"] # 0 => used'["recent"] # 0
    <2>1. \E kind \in Files!Kinds : Files!Spend(kind)
      <3>1. "change" \in Files!Kinds /\ "failure" \in Files!Kinds
        BY DEF Files!Kinds
      <3> QED
        BY <3>1 DEF Files!Outside, Files!WatchError, Files!TreeChanges
    <2> QED
      BY <1>0, <2>1, SpendIs
  <1>3. tree' \in [Roots -> Nat]
    BY <1>0 DEF Files!Outside, Files!WatchError, Files!TreeChanges
  <1>4. /\ watch' \in Watches /\ Len(watch'.queue) <= EventCapacity /\ watch'.root = watch.root
        /\ \/ watch.root # None /\ (watch'.queue # << >> \/ watch'.lost)
           \/ watch' = watch /\ \A root \in Roots : watch.root = root => tree'[root] = tree[root]
    <2>1. CASE Files!WatchError
      <3>1. watch' = Files!Sent(watch, "stale") /\ watch.root # None
        BY <2>1 DEF Files!WatchError
      <3>2. UNCHANGED tree
        BY <2>1 DEF Files!WatchError
      <3> QED
        BY <1>0, <3>1, SentIs
    <2>2. ASSUME NEW root \in Roots, Files!TreeChanges(root)
          PROVE  /\ watch' \in Watches /\ Len(watch'.queue) <= EventCapacity
                 /\ watch'.root = watch.root
                 /\ \/ watch.root # None /\ (watch'.queue # << >> \/ watch'.lost)
                    \/ /\ watch' = watch
                       /\ \A r \in Roots : watch.root = r => tree'[r] = tree[r]
      <3>1. CASE watch.root = root
        <4>1. watch' = Files!Sent(watch, "changed") /\ root # None
          BY <2>2, <3>1, FilesAssumption DEF Files!TreeChanges
        <4> QED
          BY <1>0, <3>1, <4>1, SentIs
      <3>2. CASE watch.root # root
        BY <1>0, <2>2, <3>2 DEF Files!TreeChanges
      <3> QED
        BY <3>1, <3>2
    <2> QED
      BY <2>1, <2>2 DEF Files!Outside
  <1>5. /\ SameRoot /\ NoneNew("refresh") /\ NoneNew("persist") /\ NoneNew("debounce")
        /\ NoneNew("search") /\ NoneNew("locate") /\ NoneNew("recent")
    BY <1>1 DEF SameRoot, NoneNew
  <1>6. FilesState' /\ JobsTyped'
    BY <1>0, <1>1, <1>2, <1>3, <1>4 DEF FilesState, JobsTyped
  <1>7. WorkNeedsOpen'
    <2>1. CASE watch.root # None
      <3>1. opened # None
        BY <1>0, <2>1 DEF WorkNeedsOpen
      <3> QED
        BY <1>0, <1>4, <1>5, <3>1, OpenApart
    <2>2. CASE watch' = watch
      BY <1>0, <1>1, <2>2 DEF WorkNeedsOpen
    <2> QED
      BY <1>4, <2>1, <2>2
  <1>8. RefreshRuns'
    BY <1>0, <1>1 DEF RefreshRuns
  <1>9. ListsNewest'
    <2>1. CASE watch'.queue # << >> \/ watch'.lost
      BY <2>1 DEF ListsNewest, Heard
    <2>2. CASE watch' = watch /\ \A root \in Roots : watch.root = root => tree'[root] = tree[root]
      <3>1. watch.root # None => watch.root = opened.root /\ watch.root \in Roots
        <4>1. watch.root \in Optional(Roots)
          BY <1>0 DEF Watches
        <4> QED
          BY <1>0, <4>1 DEF WorkNeedsOpen, Optional
      <3>2. watch.root # None => Newest' = Newest
        BY <1>1, <2>2, <3>1 DEF Newest, Files!Listing
      <3>3. Heard' = Heard
        BY <2>2 DEF Heard
      <3> QED
        BY <1>0, <1>1, <2>2, <3>2, <3>3 DEF ListsNewest
    <2> QED
      BY <1>4, <2>1, <2>2
  <1>10. QuickFits' /\ SearchedFits' /\ SavesFit' /\ MutatingFits' /\ RecentsFit'
    BY <1>0, <1>1, <1>2, <1>5, QuickApart, SearchedApart, SavesApart, MutatingApart, RecentsApart
  <1> QED
    BY <1>6, <1>7, <1>8, <1>9, <1>10 DEF FilesFit, FilesTypes

\* Acknowledging lost events keeps the invariant.
LEMMA AcknowledgeFits ==
    ASSUME FilesFit, Files!AcknowledgeLoss
    PROVE  FilesFit'
  <1>0. /\ FilesState /\ JobsTyped /\ WorkNeedsOpen /\ RefreshRuns /\ ListsNewest /\ QuickFits
        /\ SearchedFits /\ SavesFit /\ MutatingFits /\ RecentsFit
        /\ watch \in Watches /\ Len(watch.queue) <= EventCapacity
    BY DEF FilesFit, FilesTypes, FilesState
  <1>1. /\ UNCHANGED <<tree, saved, recentFile, opened, explorer, listing, listingRevision,
                       refresh, quick, search, failed, persist, chooser, recents, jobs, used>>
        /\ watch.root # None
        /\ watch' = [watch EXCEPT !.lost = FALSE, !.acknowledged = TRUE]
    BY DEF Files!AcknowledgeLoss, Files!storeVars, Files!saveVars
  <1>2. /\ watch' \in Watches /\ watch'.queue = watch.queue /\ watch'.root = watch.root
        /\ watch'.acknowledged
    BY <1>0, <1>1, AcknowledgedIs
  <1>3. /\ SameRoot /\ NoneNew("refresh") /\ NoneNew("persist") /\ NoneNew("debounce")
        /\ NoneNew("search") /\ NoneNew("locate") /\ NoneNew("recent")
    BY <1>1 DEF SameRoot, NoneNew
  <1>4. FilesState' /\ JobsTyped'
    BY <1>0, <1>1, <1>2 DEF FilesState, JobsTyped
  <1>5. WorkNeedsOpen'
    BY <1>0, <1>1, <1>2, <1>3, OpenApart DEF WorkNeedsOpen
  <1>6. RefreshRuns' /\ ListsNewest'
    BY <1>0, <1>1, <1>2 DEF RefreshRuns, ListsNewest, Heard
  <1>7. QuickFits' /\ SearchedFits' /\ SavesFit' /\ MutatingFits' /\ RecentsFit'
    BY <1>0, <1>1, <1>3, QuickApart, SearchedApart, SavesApart, MutatingApart, RecentsApart
  <1> QED
    BY <1>4, <1>5, <1>6, <1>7 DEF FilesFit, FilesTypes

\* A requested listing restores what is known of the listings, whatever was listed before.
LEMMA RefreshRequested ==
    ASSUME JobsTyped, refresh \in Refreshes, RefreshRuns,
           NEW h \in Refreshes, h.inFlight = refresh.inFlight, h.inFlight = None => ~h.pending,
           h.generation >= refresh.generation,
           NEW root \in Roots, NEW hidden \in BOOLEAN, opened'.root = root, explorer' = hidden,
           refresh' = Files!RequestFileRefresh(h),
           \A job \in jobs' : job.kind = "refresh" =>
             job \in jobs \/ job \in Files!Refreshing(h, refresh', root, hidden)
    PROVE  RefreshRuns' /\ ListsNewest' /\ refresh' \in Refreshes
  <1> DEFINE new == Files!Refreshing(h, refresh', root, hidden)
  <1>1. /\ refresh' \in Refreshes /\ refresh'.generation = h.generation + 1
        /\ refresh'.inFlight = IF h.inFlight # None THEN h.inFlight ELSE h.generation + 1
        /\ (refresh'.pending <=> h.pending \/ h.inFlight # None)
        /\ refresh'.inFlight # None
    BY RequestIs
  <1>2. /\ h.generation \in Nat /\ refresh.generation \in Nat
        /\ refresh.inFlight # None => refresh.inFlight \in Nat
    BY DEF Refreshes, Optional
  <1>3. /\ \A job \in new :
             /\ job.kind = "refresh" /\ job.result = None
             /\ job.generation = refresh'.inFlight /\ job.root = root /\ job.hidden = hidden
             /\ refresh'.inFlight # h.inFlight
        /\ \A job, other \in new : job = other
    BY <1>1, RefreshingIs
  <1> HIDE DEF new
  <1>4. CASE refresh.inFlight # None
    <2>1. refresh'.inFlight = refresh.inFlight /\ refresh'.pending
      BY <1>1, <1>4
    <2>2. \A job \in jobs' : job.kind = "refresh" => job \in jobs
      BY <1>3, <2>1 DEF new
    <2>3. refresh'.inFlight <= refresh'.generation /\ refresh'.inFlight # refresh'.generation
      BY <1>1, <1>2, <1>4, <2>1 DEF RefreshRuns
    <2> QED
      BY <1>1, <2>1, <2>2, <2>3 DEF RefreshRuns, ListsNewest
  <1>5. CASE refresh.inFlight = None
    <2>1. refresh'.inFlight = h.generation + 1 /\ ~refresh'.pending
      BY <1>1, <1>5
    <2>2. \A job \in jobs : job.kind # "refresh"
      <3>1. ASSUME NEW job \in jobs, job.kind = "refresh"
            PROVE  job.generation \in Nat
        <4>1. job \in RefreshJobs
          BY <3>1, JobIs DEF JobsTyped
        <4> QED
          BY <4>1 DEF RefreshJobs
      <3> QED
        BY <1>5, <3>1, FilesAssumption DEF RefreshRuns
    <2>3. \A job \in jobs' : job.kind = "refresh" => job \in new
      BY <2>2 DEF new
    <2> QED
      BY <1>1, <1>2, <1>3, <2>1, <2>3 DEF RefreshRuns, ListsNewest
  <1> QED
    BY <1>1, <1>4, <1>5

\* Handling an event of the watcher keeps the invariant.
LEMMA FileEventFits ==
    ASSUME FilesFit, opened # None, NEW event \in {"changed", "stale"}, Files!FileEvent(event),
           watch' \in Watches, Len(watch'.queue) <= EventCapacity, watch'.root = watch.root,
           UNCHANGED <<tree, saved, recentFile, explorer, listing, listingRevision, quick,
                       search, persist, chooser, recents, used>>
    PROVE  FilesFit'
  <1>0. /\ FilesState /\ JobsTyped /\ WorkNeedsOpen /\ RefreshRuns /\ ListsNewest /\ QuickFits
        /\ SearchedFits /\ SavesFit /\ MutatingFits /\ RecentsFit
        /\ opened \in Openings /\ explorer \in BOOLEAN /\ refresh \in Refreshes
        /\ failed \subseteq Errors
    BY DEF FilesFit, FilesTypes, FilesState, Optional
  <1>1. /\ opened' \in Openings /\ opened' # None /\ opened'.root = opened.root
        /\ opened'.hidden = opened.hidden /\ opened.root \in Roots
    BY <1>0, OpenedIs DEF Files!FileEvent
  <1>2. /\ refresh' = Files!RequestFileRefresh(refresh)
        /\ jobs' = jobs \cup Files!Refreshing(refresh, refresh', opened.root, explorer)
    BY DEF Files!FileEvent
  <1>3. RefreshRuns' /\ ListsNewest' /\ refresh' \in Refreshes
    <2>1. /\ refresh.inFlight = None => ~refresh.pending
          /\ refresh.generation >= refresh.generation
      BY <1>0 DEF RefreshRuns, Refreshes
    <2> QED
      BY <1>0, <1>1, <1>2, <2>1, RefreshRequested
  <1>4. \A job \in jobs' : job \in jobs \/ (job \in RefreshJobs /\ job.kind = "refresh")
    BY <1>0, <1>1, <1>2, <1>3, RefreshingIs
  <1>5. /\ SameRoot /\ NoneNew("persist") /\ NoneNew("debounce")
        /\ NoneNew("search") /\ NoneNew("locate") /\ NoneNew("recent")
    BY <1>1, <1>4 DEF SameRoot, NoneNew
  <1>6. failed' \subseteq Errors
    BY <1>0 DEF Files!FileEvent, Errors
  <1>7. FilesState'
    BY <1>0, <1>1, <1>3, <1>6 DEF FilesState, Optional
  <1>8. JobsTyped'
    BY <1>0, <1>4 DEF JobsTyped, IsJob
  <1>9. WorkNeedsOpen'
    BY <1>0, <1>5, OpenApart
  <1>10. QuickFits' /\ SearchedFits' /\ SavesFit' /\ MutatingFits' /\ RecentsFit'
    BY <1>0, <1>1, <1>5, QuickApart, SearchedApart, SavesApart, MutatingApart, RecentsApart
  <1> QED
    BY <1>3, <1>7, <1>8, <1>9, <1>10 DEF FilesFit, FilesTypes

\* Polling the watcher keeps the invariant.
LEMMA PollFits ==
    ASSUME FilesFit, Files!PollWatcher \/ Files!DrainObsolete
    PROVE  FilesFit'
  <1>0. WorkNeedsOpen /\ watch \in Watches /\ Len(watch.queue) <= EventCapacity
    BY DEF FilesFit, FilesTypes, FilesState
  <1>1. UNCHANGED <<tree, saved, recentFile, explorer, listing, listingRevision, quick, search,
                    persist, chooser, recents, used>>
    BY DEF Files!PollWatcher, Files!DrainObsolete, Files!storeVars, Files!saveVars
  <1>2. opened # None
    BY <1>0 DEF WorkNeedsOpen, Files!PollWatcher, Files!DrainObsolete
  <1>3. \E event \in {"changed", "stale"} : Files!FileEvent(event)
    BY DEF Files!PollWatcher, Files!DrainObsolete
  <1>4. watch' \in Watches /\ Len(watch'.queue) <= EventCapacity /\ watch'.root = watch.root
    <2>1. CASE Files!PollWatcher
      <3> DEFINE n == IF Len(watch.queue) < EventsPerPoll THEN Len(watch.queue) ELSE EventsPerPoll
      <3>1. watch.queue \in Seq({"changed", "stale"}) /\ watch.queue # << >>
        BY <1>0, <2>1 DEF Watches, Files!PollWatcher
      <3>2. n \in 1..Len(watch.queue)
        BY <3>1, FilesAssumption
      <3>3. watch' = [watch EXCEPT !.queue = SubSeq(@, n + 1, Len(@))]
        BY <2>1 DEF Files!PollWatcher
      <3> HIDE DEF n
      <3> QED
        BY <1>0, <3>2, <3>3, ReceivedIs
    <2>2. CASE Files!DrainObsolete
      <3>1. watch' = [watch EXCEPT !.queue = << >>, !.acknowledged = FALSE]
        BY <2>2 DEF Files!DrainObsolete
      <3>2. watch' \in Watches /\ watch'.queue = << >> /\ watch'.root = watch.root
        BY <1>0, <3>1, DrainedIs
      <3> QED
        BY <3>2, FilesAssumption
    <2> QED
      BY <2>1, <2>2
  <1> QED
    BY <1>1, <1>2, <1>3, <1>4, FileEventFits

-----------------------------------------------------------------------------
(* The jobs that read and write.                                            *)

\* Listing the folder, for a refresh or for quick open, keeps the invariant.
LEMMA RunScanFits ==
    ASSUME FilesFit, NEW job \in jobs, Files!RunScan(job)
    PROVE  FilesFit'
  <1>0. /\ FilesState /\ JobsTyped /\ WorkNeedsOpen /\ RefreshRuns /\ ListsNewest /\ QuickFits
        /\ SearchedFits /\ SavesFit /\ MutatingFits /\ RecentsFit
        /\ tree \in [Roots -> Nat] /\ IsJob(job) /\ job.kind \in {"refresh", "quick", "search"}
        /\ opened # None
    BY DEF FilesFit, FilesTypes, FilesState, JobsTyped, WorkNeedsOpen, Files!RunScan
  <1>1. UNCHANGED <<tree, saved, recentFile, opened, explorer, listing, listingRevision, refresh,
                    watch, quick, search, failed, persist, chooser, recents>>
    BY DEF Files!RunScan, Files!storeVars, Files!listVars, Files!saveVars
  <1>2. /\ used' \in [Files!Kinds -> Nat]
        /\ used["recent"] # 0 => used'["recent"] # 0
    <2>1. "failure" \in Files!Kinds /\ (Files!Spend("failure") \/ UNCHANGED used)
      BY DEF Files!RunScan, Files!Kinds
    <2>2. CASE Files!Spend("failure")
      BY <1>0, <2>1, <2>2, SpendIs
    <2>3. CASE UNCHANGED used
      BY <1>0, <2>3 DEF FilesState
    <2> QED
      BY <2>1, <2>2, <2>3
  <1> DEFINE found == Files!Listing(job.root, job.hidden, job.ignored)
  <1>3. /\ job.root \in Roots /\ job.hidden \in BOOLEAN /\ job.ignored \in BOOLEAN
        /\ job.kind = "refresh" => job.ignored = FALSE
    <2>1. job \in RefreshJobs \/ job \in QuickJobs \/ job \in SearchJobs
      BY <1>0, JobIs
    <2>2. job.kind = "refresh" => job \in RefreshJobs
      BY <1>0, JobIs
    <2> QED
      BY <2>1, <2>2 DEF RefreshJobs, QuickJobs, SearchJobs
  <1>4. /\ found \in Listings /\ found.root = job.root /\ found.ignored = job.ignored
    BY <1>0, <1>3 DEF Files!Listing, Listings
  <1>5. \E r : /\ r = Files!Done(found) \/ r = Files!Failed
               /\ jobs' = (jobs \ {job}) \cup {[job EXCEPT !.result = r]}
    BY DEF Files!RunScan, Files!Finish
  <1>6. PICK r : /\ r \in Answers(Listings) /\ (r.ok => r.value = found)
                 /\ jobs' = (jobs \ {job}) \cup {[job EXCEPT !.result = r]}
    <2> HIDE DEF found
    <2> QED
      BY <1>4, <1>5, AnswerIs
  <1> DEFINE new == [job EXCEPT !.result = r]
  <1>7. /\ new.result = r /\ new.kind = job.kind
        /\ job.kind = "refresh" => /\ new \in RefreshJobs
                                   /\ new.generation = job.generation /\ new.root = job.root
                                   /\ new.hidden = job.hidden
        /\ job.kind = "quick" => new \in QuickJobs
        /\ job.kind = "search" => /\ new \in SearchJobs
                                  /\ new.generation = job.generation /\ new.root = job.root
                                  /\ new.query = job.query /\ new.ignored = job.ignored
    BY <1>0, <1>6, FinishedIs
  <1>8. jobs' = (jobs \ {job}) \cup {new}
    BY <1>6
  <1> HIDE DEF new
  <1>9. /\ SameRoot /\ NoneNew("persist") /\ NoneNew("debounce") /\ NoneNew("locate")
        /\ NoneNew("recent")
    BY <1>0, <1>1, <1>7, <1>8 DEF SameRoot, NoneNew
  <1>10. FilesState'
    BY <1>0, <1>1, <1>2 DEF FilesState
  <1>11. JobsTyped'
    <2>1. IsJob(new)
      BY <1>0, <1>7 DEF IsJob
    <2> QED
      BY <1>0, <1>8, <2>1 DEF JobsTyped
  <1>12. WorkNeedsOpen'
    BY <1>0, <1>1, <1>9, OpenApart
  <1>13. RefreshRuns' /\ ListsNewest'
    <2>1. CASE job.kind # "refresh"
      <3>1. NoneNew("refresh")
        BY <1>7, <1>8, <2>1 DEF NoneNew
      <3> QED
        BY <1>0, <1>1, <3>1, RefreshApart
    <2>2. CASE job.kind = "refresh"
      <3>1. \A other \in jobs' : other.kind = "refresh" => other = new
        BY <1>0, <1>7, <1>8, <2>2 DEF RefreshRuns
      <3>2. RefreshRuns'
        BY <1>0, <1>1, <1>7, <1>8, <2>2, <3>1 DEF RefreshRuns
      <3>3. ~refresh.pending /\ r.ok => r.value = Newest'
        BY <1>0, <1>1, <1>3, <1>6, <2>2 DEF RefreshRuns, Newest, Files!Listing
      <3>4. Newest' = Newest /\ Heard' = Heard
        BY <1>1 DEF Newest, Heard, Files!Listing
      <3>5. ListsNewest'
        BY <1>0, <1>1, <1>7, <3>1, <3>3, <3>4 DEF ListsNewest
      <3> QED
        BY <3>2, <3>5
    <2> QED
      BY <2>1, <2>2
  <1>14. QuickFits' /\ SavesFit' /\ MutatingFits' /\ RecentsFit'
    BY <1>0, <1>1, <1>2, <1>9, QuickApart, SavesApart, MutatingApart, RecentsApart
  <1>15. SearchedFits'
    <2>1. CASE job.kind # "search"
      <3>1. NoneNew("search")
        BY <1>7, <1>8, <2>1 DEF NoneNew
      <3> QED
        BY <1>0, <1>1, <1>9, <3>1, SearchedApart
    <2>2. CASE job.kind = "search"
      <3>1. Files!SearchIsCurrent'
        BY <1>0, <1>1 DEF SearchedFits, Files!SearchIsCurrent
      <3>2. \A other \in jobs' : other.kind \in {"debounce", "search"} =>
              /\ other.generation <= search.generation
              /\ other.generation = search.generation => other.query = search.query
        BY <1>0, <1>7, <1>8, <2>2 DEF SearchedFits
      <3>3. \A other \in jobs' : other.kind = "search" =>
              /\ other.generation = search.generation => other.ignored = search.ignored
              /\ other.result # None /\ other.result.ok
                   => /\ other.result.value.root = other.root
                      /\ other.result.value.ignored = other.ignored
        BY <1>0, <1>4, <1>6, <1>7, <1>8, <2>2 DEF SearchedFits
      <3> QED
        BY <1>1, <3>1, <3>2, <3>3 DEF SearchedFits
    <2> QED
      BY <2>1, <2>2
  <1> QED
    BY <1>10, <1>11, <1>12, <1>13, <1>14, <1>15 DEF FilesFit, FilesTypes

\* A save job, after it stored the state.
LEMMA StoredJobIs ==
    ASSUME NEW job \in PersistJobs, NEW r \in Answers(Seq(Roots))
    PROVE  LET new == [job EXCEPT !.stored = TRUE, !.result = r] IN
           /\ new \in PersistJobs /\ new.kind = "persist" /\ new.stored /\ new.result = r
           /\ new.root = job.root /\ new.hidden = job.hidden /\ new.recents = job.recents
           /\ new.edits = job.edits /\ new.read = job.read
  <1> DEFINE a == [job EXCEPT !.stored = TRUE]
             b == [a EXCEPT !.result = r]
  <1>1. /\ a \in PersistJobs /\ a.stored /\ a.root = job.root /\ a.hidden = job.hidden
        /\ a.recents = job.recents /\ a.edits = job.edits /\ a.read = job.read
    BY DEF PersistJobs
  <1>2. b = [job EXCEPT !.stored = TRUE, !.result = r]
    BY DEF PersistJobs
  <1> HIDE DEF a
  <1>3. /\ b \in PersistJobs /\ b.kind = "persist" /\ b.stored /\ b.result = r
        /\ b.root = a.root /\ b.hidden = a.hidden
        /\ b.recents = a.recents /\ b.edits = a.edits /\ b.read = a.read
    BY <1>1 DEF PersistJobs
  <1> HIDE DEF b
  <1> QED
    BY <1>1, <1>2, <1>3

\* A job on the recent list, after it read the file.
LEMMA ReadJobIs ==
    ASSUME NEW job, NEW list \in Seq(Roots)
    PROVE  LET new == [job EXCEPT !.read = list] IN
           /\ job \in RecentJobs => new \in RecentJobs /\ new.kind = "recent"
           /\ job \in PersistJobs =>
                /\ new \in PersistJobs /\ new.kind = "persist" /\ new.stored = job.stored
                /\ new.root = job.root /\ new.hidden = job.hidden /\ new.recents = job.recents
                /\ new.edits = job.edits /\ new.read = list /\ new.result = job.result
  <1>1. ASSUME job \in RecentJobs
        PROVE  [job EXCEPT !.read = list] \in RecentJobs /\ [job EXCEPT !.read = list].kind = "recent"
    BY <1>1 DEF RecentJobs, Optional
  <1>2. ASSUME job \in PersistJobs
        PROVE  LET new == [job EXCEPT !.read = list] IN
               /\ new \in PersistJobs /\ new.kind = "persist" /\ new.stored = job.stored
               /\ new.root = job.root /\ new.hidden = job.hidden /\ new.recents = job.recents
               /\ new.edits = job.edits /\ new.read = list /\ new.result = job.result
    BY <1>2 DEF PersistJobs, Optional
  <1> QED
    BY <1>1, <1>2

\* A job on the recent list, after it wrote one of its edits.
LEMMA WrittenJobIs ==
    ASSUME NEW job, job \in RecentJobs \/ job \in PersistJobs, job.edits # << >>,
           NEW r \in Answers(Seq(Roots))
    PROVE  LET new == [job EXCEPT !.read = None, !.edits = Tail(@), !.result = r] IN
           /\ Head(job.edits) \in Edits
           /\ job \in RecentJobs => new \in RecentJobs /\ new.kind = "recent"
           /\ job \in PersistJobs =>
                /\ new \in PersistJobs /\ new.kind = "persist" /\ new.stored = job.stored
                /\ new.root = job.root /\ new.hidden = job.hidden /\ new.recents = job.recents
                /\ new.edits = Tail(job.edits) /\ new.read = None /\ new.result = r
  <1> DEFINE a == [job EXCEPT !.read = None]
             b == [a EXCEPT !.edits = Tail(job.edits)]
             c == [b EXCEPT !.result = r]
  <1>1. /\ job.edits \in Seq(Edits)
        /\ c = [job EXCEPT !.read = None, !.edits = Tail(@), !.result = r]
    BY DEF RecentJobs, PersistJobs
  <1>2. Head(job.edits) \in Edits /\ Tail(job.edits) \in Seq(Edits)
    BY <1>1
  <1>3. ASSUME job \in RecentJobs
        PROVE  c \in RecentJobs /\ c.kind = "recent"
    <2>1. a \in RecentJobs /\ None \in Optional(Seq(Roots))
      BY <1>3 DEF RecentJobs, Optional
    <2> HIDE DEF a
    <2>2. b \in RecentJobs
      BY <1>2, <2>1 DEF RecentJobs
    <2> HIDE DEF b
    <2> QED
      BY <2>2 DEF RecentJobs
  <1>4. ASSUME job \in PersistJobs
        PROVE  /\ c \in PersistJobs /\ c.kind = "persist" /\ c.stored = job.stored
               /\ c.root = job.root /\ c.hidden = job.hidden /\ c.recents = job.recents
               /\ c.edits = Tail(job.edits) /\ c.read = None /\ c.result = r
    <2>1. /\ a \in PersistJobs /\ a.stored = job.stored
          /\ a.root = job.root /\ a.hidden = job.hidden /\ a.recents = job.recents
          /\ a.read = None
      BY <1>4 DEF PersistJobs, Optional
    <2> HIDE DEF a
    <2>2. /\ b \in PersistJobs /\ b.stored = a.stored
          /\ b.root = a.root /\ b.hidden = a.hidden /\ b.recents = a.recents
          /\ b.read = a.read /\ b.edits = Tail(job.edits)
      BY <1>2, <2>1 DEF PersistJobs
    <2> HIDE DEF b
    <2>3. /\ c \in PersistJobs /\ c.kind = "persist" /\ c.stored = b.stored
          /\ c.root = b.root /\ c.hidden = b.hidden /\ c.recents = b.recents
          /\ c.edits = b.edits /\ c.read = b.read /\ c.result = r
      BY <2>2 DEF PersistJobs
    <2> HIDE DEF c
    <2> QED
      BY <2>1, <2>2, <2>3
  <1> HIDE DEF c
  <1> QED
    BY <1>1, <1>2, <1>3, <1>4

\* A step of a job at the store: how its record changes, and what it may write.
Advances(job, new) ==
    /\ new.root = job.root /\ new.hidden = job.hidden /\ new.recents = job.recents
    /\ new.stored => saved'[job.root] = job.hidden
    /\ new.read # None => new.stored
    /\ new.result # None /\ new.result.ok => new.stored
    /\ Undisturbed => /\ Distinct(recentFile')
                      /\ \A x \in Roots : Has(recentFile, x) => Has(recentFile', x)
                      /\ Recording(new)'

\* A save whose edits are left alone has still to record what it had.
LEMMA RecordingStays ==
    ASSUME NEW job, NEW new, Recording(job), UNCHANGED <<persist, recentFile>>,
           new.recents = job.recents, new.edits = job.edits,
           new.read # None => new.read = recentFile,
           new.result # None /\ new.result.ok => new.edits = << >>
    PROVE  Recording(new)'
  <1>1. /\ new.recents = persist'.active
        /\ new.read # None => new.read = recentFile'
    BY DEF Recording
  <1>2. \A x \in Roots : Has(new.recents, x) =>
          Has(recentFile', x) \/ \E i \in 1..Len(new.edits) : new.edits[i].add = x
    BY DEF Recording
  <1>3. \A i \in 1..Len(new.edits) : new.edits[i].drop = None /\ new.edits[i].add # None
    BY DEF Recording
  <1> QED
    BY <1>1, <1>2, <1>3 DEF Recording

\* A job on the stores, after it failed.
LEMMA FailedJobIs ==
    ASSUME NEW job
    PROVE  LET new == [job EXCEPT !.result = Files!Failed] IN
           /\ job \in RecentJobs =>
                new \in RecentJobs /\ new.kind = "recent" /\ new.result = Files!Failed
           /\ job \in PersistJobs =>
                /\ new \in PersistJobs /\ new.kind = "persist" /\ new.result = Files!Failed
                /\ new.root = job.root /\ new.hidden = job.hidden /\ new.recents = job.recents
                /\ new.edits = job.edits /\ new.read = job.read /\ new.stored = job.stored
  <1> DEFINE new == [job EXCEPT !.result = Files!Failed]
  <1>1. Files!Failed \in Answers(Seq(Roots))
    <2>1. << >> \in Seq(Roots)
      OBVIOUS
    <2> QED
      BY <2>1, AnswerIs
  <1>2. ASSUME job \in RecentJobs
        PROVE  new \in RecentJobs /\ new.kind = "recent" /\ new.result = Files!Failed
    BY <1>1, <1>2 DEF RecentJobs
  <1>3. ASSUME job \in PersistJobs
        PROVE  /\ new \in PersistJobs /\ new.kind = "persist" /\ new.result = Files!Failed
               /\ new.root = job.root /\ new.hidden = job.hidden /\ new.recents = job.recents
               /\ new.edits = job.edits /\ new.read = job.read /\ new.stored = job.stored
    BY <1>1, <1>3 DEF PersistJobs
  <1> QED
    BY <1>2, <1>3

\* A step of a job on the stores that touches nothing but the file it writes.
LEMMA StoringIs ==
    ASSUME FilesFit, NEW job \in jobs, job.kind \in {"persist", "recent"},
           NEW new, IsJob(new), new.kind = job.kind, jobs' = (jobs \ {job}) \cup {new},
           UNCHANGED <<tree, opened, explorer, listing, listingRevision, refresh, watch, quick,
                       search, failed, persist, chooser, recents>>,
           saved' \in [Roots -> Optional(BOOLEAN)],
           recentFile' \in Seq(Roots), Len(recentFile') <= RecentLimit,
           used' \in [Files!Kinds -> Nat], used["recent"] # 0 => used'["recent"] # 0,
           job.kind = "recent" => UNCHANGED saved,
           job.kind = "persist" => Advances(job, new)
    PROVE  FilesFit'
  <1>0. /\ FilesState /\ JobsTyped /\ WorkNeedsOpen /\ RefreshRuns /\ ListsNewest /\ QuickFits
        /\ SearchedFits /\ SavesFit /\ MutatingFits /\ RecentsFit
    BY DEF FilesFit, FilesTypes
  <1>1. /\ SameRoot /\ NoneNew("refresh") /\ NoneNew("debounce") /\ NoneNew("search")
        /\ job.kind = "recent" => NoneNew("persist")
        /\ job.kind = "persist" => NoneNew("locate") /\ NoneNew("recent")
    BY DEF SameRoot, NoneNew
  <1>2. FilesState'
    BY <1>0 DEF FilesState
  <1>3. JobsTyped'
    BY <1>0 DEF JobsTyped
  <1>4. WorkNeedsOpen'
    BY <1>0 DEF WorkNeedsOpen
  <1>5. RefreshRuns' /\ ListsNewest' /\ QuickFits' /\ SearchedFits'
    BY <1>0, <1>1, RefreshApart, QuickApart, SearchedApart
  <1>6. CASE job.kind = "recent"
    <2>1. SavesFit'
      BY <1>0, <1>1, <1>6, SavesApart
    <2>2. MutatingFits'
      BY <1>0, <1>6 DEF MutatingFits
    <2>3. used["recent"] # 0
      BY <1>0, <1>6 DEF MutatingFits
    <2>4. RecentsFit'
      BY <1>0, <2>3 DEF RecentsFit, Undisturbed
    <2> QED
      BY <1>2, <1>3, <1>4, <1>5, <2>1, <2>2, <2>4 DEF FilesFit, FilesTypes
  <1>7. CASE job.kind = "persist"
    <2>1. MutatingFits'
      BY <1>0, <1>1, <1>7, MutatingApart
    <2>2. \A other \in jobs' : other.kind = "persist" => other = new
      BY <1>0, <1>7 DEF SavesFit
    <2>3. SavesFit'
      <3>1. /\ persist.inFlight # None
            /\ persist.pending = None => job.root = opened.root /\ job.hidden = opened.hidden
            /\ persist.pending # None =>
                 persist.pending = [root |-> opened.root, hidden |-> opened.hidden]
        BY <1>0, <1>7 DEF SavesFit
      <3>2. Files!SettledIsSaved'
        BY <3>1 DEF Files!SettledIsSaved
      <3> QED
        BY <1>7, <2>2, <3>1, <3>2 DEF SavesFit, Advances
    <2>4. RecentsFit'
      <3>1. persist.inFlight # None
        BY <1>0, <1>7 DEF SavesFit
      <3>2. Undisturbed' => Undisturbed
        BY DEF Undisturbed
      <3>3. opened # None => opened.root \in Roots
        BY <1>0, OpenedIs DEF FilesState, Optional
      <3>4. ASSUME Undisturbed'
            PROVE  /\ Distinct(recentFile')
                   /\ opened' # None => \/ Has(persist'.queue, opened'.root)
                                        \/ Has(persist'.active, opened'.root)
                                        \/ Has(recentFile', opened'.root)
                   /\ \A other \in jobs' : other.kind = "persist" => Recording(other)'
        <4>1. /\ Distinct(recentFile') /\ Recording(new)'
              /\ \A x \in Roots : Has(recentFile, x) => Has(recentFile', x)
          BY <1>7, <3>2, <3>4 DEF Advances
        <4>2. opened # None => \/ Has(persist.queue, opened.root) \/ Has(persist.active, opened.root)
                               \/ Has(recentFile, opened.root)
          BY <1>0, <3>2, <3>4 DEF RecentsFit
        <4>3. \A other \in jobs' : other.kind = "persist" => Recording(other)'
          BY <2>2, <4>1
        <4> QED
          BY <3>3, <4>1, <4>2, <4>3
      <3> QED
        BY <3>1, <3>4 DEF RecentsFit
    <2> QED
      BY <1>2, <1>3, <1>4, <1>5, <2>1, <2>3, <2>4 DEF FilesFit, FilesTypes
  <1> QED
    BY <1>6, <1>7

\* Storing the state of a workspace keeps the invariant.
LEMMA StoreStateFits ==
    ASSUME FilesFit, NEW job \in jobs, Files!StoreState(job)
    PROVE  FilesFit'
  <1>0. /\ FilesState /\ SavesFit /\ RecentsFit /\ IsJob(job) /\ job.kind = "persist"
        /\ job.result = None /\ ~job.stored
        /\ recentFile \in Seq(Roots) /\ Len(recentFile) <= RecentLimit
        /\ saved \in [Roots -> Optional(BOOLEAN)] /\ used \in [Files!Kinds -> Nat]
    BY DEF FilesFit, FilesTypes, FilesState, JobsTyped, Files!StoreState
  <1>1. /\ UNCHANGED <<tree, opened, explorer, listing, listingRevision, refresh, watch, quick,
                       search, failed, persist, chooser, recents, recentFile>>
    BY DEF Files!StoreState, Files!listVars, Files!saveVars
  <1>2. job \in PersistJobs
    BY <1>0, JobIs
  <1>3. job.root \in Roots /\ job.hidden \in BOOLEAN /\ job.read = None
    BY <1>0, <1>2 DEF PersistJobs, SavesFit
  <1>4. Undisturbed => Distinct(recentFile) /\ Recording(job)
    BY <1>0 DEF RecentsFit
  <1>5. ASSUME saved' = [saved EXCEPT ![job.root] = job.hidden], UNCHANGED used,
               jobs' = (jobs \ {job}) \cup
                       {[job EXCEPT !.stored = TRUE,
                                    !.result = IF job.edits = <<>> THEN Files!Done(recentFile)
                                               ELSE None]}
        PROVE  FilesFit'
    <2>0. PICK r : r = IF job.edits = <<>> THEN Files!Done(recentFile) ELSE None
      OBVIOUS
    <2> DEFINE new == [job EXCEPT !.stored = TRUE, !.result = r]
    <2>1. r \in Answers(Seq(Roots)) /\ (r # None => job.edits = << >>)
      <3>1. None \in Answers(Seq(Roots))
        BY DEF Answers, Optional
      <3> QED
        BY <1>0, <2>0, <3>1, AnswerIs
    <2>2. jobs' = (jobs \ {job}) \cup {new}
      BY <1>5, <2>0
    <2>3. /\ new \in PersistJobs /\ new.kind = "persist" /\ new.stored /\ new.result = r
          /\ new.root = job.root /\ new.hidden = job.hidden /\ new.recents = job.recents
          /\ new.edits = job.edits /\ new.read = job.read
      BY <1>2, <2>1, StoredJobIs
    <2> HIDE DEF new
    <2>4. saved' \in [Roots -> Optional(BOOLEAN)] /\ saved'[job.root] = job.hidden
      BY <1>0, <1>3, <1>5 DEF Optional
    <2>5. Undisturbed => Recording(new)'
      BY <1>1, <1>3, <1>4, <2>1, <2>3, RecordingStays
    <2>6. Advances(job, new)
      BY <1>1, <1>4, <2>3, <2>4, <2>5 DEF Advances
    <2>7. IsJob(new)
      BY <2>3 DEF IsJob
    <2> QED
      BY <1>0, <1>1, <1>5, <2>2, <2>3, <2>4, <2>6, <2>7, StoringIs
  <1>6. ASSUME Files!Spend("failure"), UNCHANGED saved,
               jobs' = (jobs \ {job}) \cup {[job EXCEPT !.result = Files!Failed]}
        PROVE  FilesFit'
    <2> DEFINE new == [job EXCEPT !.result = Files!Failed]
    <2>1. /\ Files!Failed \in Answers(Seq(Roots)) /\ ~Files!Failed.ok
      <3>1. << >> \in Seq(Roots)
        OBVIOUS
      <3> QED
        BY <3>1, AnswerIs
    <2>2. /\ new \in PersistJobs /\ new.kind = "persist" /\ new.result = Files!Failed
          /\ new.root = job.root /\ new.hidden = job.hidden /\ new.recents = job.recents
          /\ new.edits = job.edits /\ new.read = job.read /\ new.stored = job.stored
      BY <1>2, FailedJobIs
    <2>3. jobs' = (jobs \ {job}) \cup {new}
      BY <1>6
    <2> HIDE DEF new
    <2>4. Undisturbed => Recording(new)'
      BY <1>1, <1>3, <1>4, <2>1, <2>2, RecordingStays
    <2>5. Advances(job, new)
      BY <1>0, <1>1, <1>3, <1>4, <2>1, <2>2, <2>4 DEF Advances
    <2>6. /\ used' \in [Files!Kinds -> Nat]
          /\ used["recent"] # 0 => used'["recent"] # 0
      <3>1. "failure" \in Files!Kinds
        BY DEF Files!Kinds
      <3> QED
        BY <1>0, <1>6, <3>1, SpendIs
    <2>7. IsJob(new)
      BY <2>2 DEF IsJob
    <2> QED
      BY <1>0, <1>1, <1>6, <2>2, <2>3, <2>5, <2>6, <2>7, StoringIs
  <1> QED
    BY <1>5, <1>6 DEF Files!StoreState, Files!Finish

\* Reading the recent list keeps the invariant.
LEMMA LoadRecentFits ==
    ASSUME FilesFit, NEW job \in jobs, Files!LoadRecent(job)
    PROVE  FilesFit'
  <1>0. /\ FilesState /\ SavesFit /\ RecentsFit /\ IsJob(job) /\ job.kind \in {"persist", "recent"}
        /\ job.result = None /\ (job.kind = "persist" => job.stored)
        /\ recentFile \in Seq(Roots) /\ Len(recentFile) <= RecentLimit
        /\ saved \in [Roots -> Optional(BOOLEAN)] /\ used \in [Files!Kinds -> Nat]
    BY DEF FilesFit, FilesTypes, FilesState, JobsTyped, Files!LoadRecent
  <1>1. /\ UNCHANGED <<tree, opened, explorer, listing, listingRevision, refresh, watch, quick,
                       search, failed, persist, chooser, recents, saved, recentFile, used>>
    BY DEF Files!LoadRecent, Files!storeVars, Files!listVars, Files!saveVars
  <1>a. PICK new : new = [job EXCEPT !.read = recentFile]
    OBVIOUS
  <1>2. jobs' = (jobs \ {job}) \cup {new}
    BY <1>a DEF Files!LoadRecent
  <1>3. /\ job.kind = "recent" => new \in RecentJobs /\ new.kind = "recent"
        /\ job.kind = "persist" =>
             /\ new \in PersistJobs /\ new.kind = "persist" /\ new.stored = job.stored
             /\ new.root = job.root /\ new.hidden = job.hidden /\ new.recents = job.recents
             /\ new.edits = job.edits /\ new.read = recentFile /\ new.result = job.result
    <2>1. job.kind = "recent" => job \in RecentJobs
      BY <1>0, JobIs
    <2>2. job.kind = "persist" => job \in PersistJobs
      BY <1>0, JobIs
    <2> QED
      BY <1>0, <1>a, <2>1, <2>2, ReadJobIs
  <1>4. ASSUME job.kind = "persist"
        PROVE  Advances(job, new)
    <2>1. Undisturbed => Distinct(recentFile) /\ Recording(job)
      BY <1>0, <1>4 DEF RecentsFit
    <2>2. Undisturbed => Recording(new)'
      <3>1. new.recents = job.recents /\ new.edits = job.edits /\ new.read = recentFile
        BY <1>3, <1>4
      <3>2. new.result = None
        BY <1>0, <1>3, <1>4
      <3> QED
        BY <1>1, <2>1, <3>1, <3>2, RecordingStays
    <2>3. job.stored /\ saved[job.root] = job.hidden
      BY <1>0, <1>4 DEF SavesFit
    <2> QED
      BY <1>0, <1>1, <1>3, <1>4, <2>1, <2>2, <2>3 DEF Advances
  <1>5. IsJob(new) /\ new.kind = job.kind
    BY <1>0, <1>3 DEF IsJob
  <1> QED
    BY <1>0, <1>1, <1>2, <1>4, <1>5, StoringIs

\* Writing the recent list keeps the invariant.
LEMMA WriteRecentFits ==
    ASSUME FilesFit, NEW job \in jobs, Files!WriteRecent(job)
    PROVE  FilesFit'
  <1>0. /\ FilesState /\ SavesFit /\ RecentsFit /\ IsJob(job) /\ job.kind \in {"persist", "recent"}
        /\ job.result = None /\ job.edits # << >> /\ job.read # None
        /\ recentFile \in Seq(Roots) /\ Len(recentFile) <= RecentLimit
        /\ saved \in [Roots -> Optional(BOOLEAN)] /\ used \in [Files!Kinds -> Nat]
    BY DEF FilesFit, FilesTypes, FilesState, JobsTyped, Files!WriteRecent
  <1>1. /\ UNCHANGED <<tree, opened, explorer, listing, listingRevision, refresh, watch, quick,
                       search, failed, persist, chooser, recents, saved>>
    BY DEF Files!WriteRecent, Files!listVars, Files!saveVars
  <1>2. /\ job.kind = "recent" => job \in RecentJobs
        /\ job.kind = "persist" => job \in PersistJobs
    BY <1>0, JobIs
  <1>3. job.read \in Seq(Roots) /\ job.edits \in Seq(Edits)
    BY <1>0, <1>2 DEF RecentJobs, PersistJobs, Optional
  <1>4. ASSUME job.kind = "persist"
        PROVE  /\ job.stored /\ saved[job.root] = job.hidden
               /\ Undisturbed => /\ Distinct(recentFile) /\ Recording(job)
                                 /\ job.read = recentFile
    <2>1. job.stored
      BY <1>0, <1>4 DEF SavesFit
    <2>2. saved[job.root] = job.hidden
      BY <1>0, <1>4, <2>1 DEF SavesFit
    <2>3. Undisturbed => Distinct(recentFile) /\ Recording(job)
      BY <1>0, <1>4 DEF RecentsFit
    <2> QED
      BY <1>0, <2>1, <2>2, <2>3 DEF Recording
  <1> DEFINE written == Files!Edited(job.read, Head(job.edits))
  <1>5. ASSUME recentFile' = written, UNCHANGED used,
               jobs' = (jobs \ {job}) \cup
                       {[job EXCEPT !.read = None, !.edits = Tail(@),
                                    !.result = IF Len(job.edits) = 1 THEN Files!Done(written)
                                               ELSE None]}
        PROVE  FilesFit'
    <2>0. PICK r : r = IF Len(job.edits) = 1 THEN Files!Done(written) ELSE None
      OBVIOUS
    <2> DEFINE first == Head(job.edits)
               new == [job EXCEPT !.read = None, !.edits = Tail(@), !.result = r]
    <2>1. first \in Edits
      BY <1>0, <1>3
    <2>2. /\ recentFile' \in Seq(Roots) /\ Len(recentFile') <= RecentLimit
          /\ Distinct(job.read) /\ Cardinality(Roots) <= RecentLimit
               /\ first.drop = None /\ first.add # None =>
             /\ Distinct(recentFile')
             /\ \A x \in Roots : Has(recentFile', x) <=> Has(job.read, x) \/ x = first.add
      BY <1>3, <1>5, <2>1, EditedIs
    <2>3. r \in Answers(Seq(Roots)) /\ (r # None => Len(job.edits) = 1)
      <3>1. None \in Answers(Seq(Roots))
        BY DEF Answers, Optional
      <3> QED
        BY <1>5, <2>0, <2>2, <3>1, AnswerIs
    <2>4. jobs' = (jobs \ {job}) \cup {new}
      BY <1>5, <2>0
    <2> HIDE DEF written
    <2>5. /\ job.kind = "recent" => new \in RecentJobs /\ new.kind = "recent"
          /\ job.kind = "persist" =>
               /\ new \in PersistJobs /\ new.kind = "persist" /\ new.stored = job.stored
               /\ new.root = job.root /\ new.hidden = job.hidden /\ new.recents = job.recents
               /\ new.edits = Tail(job.edits) /\ new.read = None /\ new.result = r
      BY <1>0, <1>2, <2>3, WrittenJobIs
    <2> HIDE DEF new
    <2>6. ASSUME job.kind = "persist"
          PROVE  Advances(job, new)
      <3>1. ASSUME Undisturbed
            PROVE  /\ Distinct(recentFile')
                   /\ \A x \in Roots : Has(recentFile, x) => Has(recentFile', x)
                   /\ Recording(new)'
        <4>1. /\ Distinct(recentFile) /\ Recording(job) /\ job.read = recentFile
              /\ Cardinality(Roots) <= RecentLimit
          BY <1>4, <2>6, <3>1 DEF Undisturbed
        <4>2. /\ Len(job.edits) \in Nat /\ Len(job.edits) >= 1 /\ first = job.edits[1]
              /\ Tail(job.edits) \in Seq(Edits) /\ Len(Tail(job.edits)) = Len(job.edits) - 1
              /\ \A i \in 1..(Len(job.edits) - 1) : Tail(job.edits)[i] = job.edits[i + 1]
          BY <1>0, <1>3
        <4>3. first.drop = None /\ first.add # None
          BY <4>1, <4>2 DEF Recording
        <4> HIDE DEF first
        <4>4. /\ Distinct(recentFile')
              /\ \A x \in Roots : Has(recentFile', x) <=> Has(recentFile, x) \/ x = first.add
          BY <2>2, <4>1, <4>3
        <4>5. \A x \in Roots : Has(new.recents, x) =>
                Has(recentFile', x) \/ \E i \in 1..Len(new.edits) : new.edits[i].add = x
          <5>1. ASSUME NEW x \in Roots, Has(job.recents, x), ~Has(recentFile', x)
                PROVE  \E i \in 1..Len(Tail(job.edits)) : Tail(job.edits)[i].add = x
            <6>1. PICK i \in 1..Len(job.edits) : job.edits[i].add = x
              BY <4>1, <4>4, <5>1 DEF Recording
            <6>2. i # 1
              BY <4>2, <4>4, <5>1, <6>1
            <6>3. i - 1 \in 1..(Len(job.edits) - 1) /\ (i - 1) + 1 = i
              BY <4>2, <6>2
            <6> QED
              BY <4>2, <6>1, <6>3
          <5> QED
            BY <2>5, <2>6, <5>1
        <4>6. \A i \in 1..Len(new.edits) : new.edits[i].drop = None /\ new.edits[i].add # None
          <5>1. ASSUME NEW i \in 1..(Len(job.edits) - 1)
                PROVE  Tail(job.edits)[i].drop = None /\ Tail(job.edits)[i].add # None
            <6>1. i + 1 \in 1..Len(job.edits)
              BY <4>2
            <6> QED
              BY <4>1, <4>2, <6>1 DEF Recording
          <5> QED
            BY <2>5, <2>6, <4>2, <5>1
        <4>7. new.result # None /\ new.result.ok => new.edits = << >>
          <5>1. r # None => Tail(job.edits) = << >>
            <6>1. r # None => Len(Tail(job.edits)) = 0
              BY <2>3, <4>2
            <6> QED
              BY <4>2, <6>1, EmptySeq
          <5> QED
            BY <2>5, <2>6, <5>1
        <4>8. Recording(new)'
          BY <1>1, <2>5, <2>6, <4>1, <4>5, <4>6, <4>7 DEF Recording
        <4> QED
          BY <4>4, <4>8
      <3> QED
        BY <1>1, <1>4, <2>5, <2>6, <3>1 DEF Advances
    <2>7. IsJob(new) /\ new.kind = job.kind
      BY <1>0, <2>5 DEF IsJob
    <2> QED
      BY <1>0, <1>1, <1>5, <2>2, <2>4, <2>6, <2>7, StoringIs
  <1>6. ASSUME Files!Spend("failure"), UNCHANGED recentFile,
               jobs' = (jobs \ {job}) \cup {[job EXCEPT !.result = Files!Failed]}
        PROVE  FilesFit'
    <2> DEFINE new == [job EXCEPT !.result = Files!Failed]
    <2>1. /\ Files!Failed \in Answers(Seq(Roots)) /\ ~Files!Failed.ok
      BY <1>0, AnswerIs
    <2>2. /\ new.kind = job.kind /\ new.result = Files!Failed
          /\ job.kind = "recent" => new \in RecentJobs
          /\ job.kind = "persist" =>
               /\ new \in PersistJobs
               /\ new.root = job.root /\ new.hidden = job.hidden /\ new.recents = job.recents
               /\ new.edits = job.edits /\ new.read = job.read /\ new.stored = job.stored
      BY <1>0, <1>2, FailedJobIs
    <2>3. jobs' = (jobs \ {job}) \cup {new}
      BY <1>6
    <2> HIDE DEF new
    <2>4. ASSUME job.kind = "persist"
          PROVE  Advances(job, new)
      <3>1. Undisturbed => Recording(new)'
        BY <1>1, <1>4, <1>6, <2>1, <2>2, <2>4, RecordingStays
      <3> QED
        BY <1>1, <1>4, <1>6, <2>1, <2>2, <2>4, <3>1 DEF Advances
    <2>5. /\ used' \in [Files!Kinds -> Nat]
          /\ used["recent"] # 0 => used'["recent"] # 0
      <3>1. "failure" \in Files!Kinds
        BY DEF Files!Kinds
      <3> QED
        BY <1>0, <1>6, <3>1, SpendIs
    <2>6. IsJob(new)
      BY <1>0, <2>2 DEF IsJob
    <2> QED
      BY <1>0, <1>1, <1>6, <2>2, <2>3, <2>4, <2>5, <2>6, StoringIs
  <1> QED
    BY <1>5, <1>6 DEF Files!WriteRecent, Files!Finish

-----------------------------------------------------------------------------
(* Quick open and search.                                                   *)

\* A step that only touches what quick open and the search show.
LEMMA ShowingIs ==
    ASSUME FilesFit,
           UNCHANGED <<tree, saved, recentFile, opened, explorer, listing, listingRevision,
                       refresh, watch, persist, chooser, recents>>,
           quick' \in Quicks, search' \in Searches,
           "refresh" \in failed' <=> "refresh" \in failed, failed' \subseteq Errors,
           used' \in [Files!Kinds -> Nat], used["recent"] # 0 => used'["recent"] # 0,
           \A job \in jobs' :
             job \in jobs \/ (IsJob(job) /\ job.kind \in {"quick", "debounce", "search"}),
           opened = None => jobs' \subseteq jobs /\ quick'.scan = None,
           QuickFits', SearchedFits'
    PROVE  FilesFit'
  <1>0. /\ FilesState /\ JobsTyped /\ WorkNeedsOpen /\ RefreshRuns /\ ListsNewest
        /\ SavesFit /\ MutatingFits /\ RecentsFit
    BY DEF FilesFit, FilesTypes
  <1>1. /\ SameRoot /\ NoneNew("refresh") /\ NoneNew("persist") /\ NoneNew("locate")
        /\ NoneNew("recent")
    BY DEF SameRoot, NoneNew
  <1>2. FilesState'
    BY <1>0 DEF FilesState
  <1>3. JobsTyped'
    BY <1>0 DEF JobsTyped
  <1>4. WorkNeedsOpen'
    BY <1>0 DEF WorkNeedsOpen
  <1>5. RefreshRuns' /\ ListsNewest' /\ SavesFit' /\ MutatingFits' /\ RecentsFit'
    BY <1>0, <1>1, RefreshApart, SavesApart, MutatingApart, RecentsApart
  <1> QED
    BY <1>2, <1>3, <1>4, <1>5 DEF FilesFit, FilesTypes

\* quick_open_source gives a listing, or none yet.
LEMMA SourceIs ==
    ASSUME NEW q \in Quicks, NEW files \in Optional(Listings), NEW revision, NEW ws
    PROVE  Files!QuickOpenSource(q, files, revision, ws) \in Optional(Listings)
  <1>1. q.cache # None => q.cache.files \in Listings
    BY DEF Quicks, Optional, Caches
  <1> QED
    BY <1>1 DEF Optional, Files!QuickOpenSource

\* The fields of quick open, after its results were replaced.
LEMMA QuickResultsAre ==
    ASSUME NEW q \in Quicks, NEW shown \in Optional(Listings)
    PROVE  LET r == [q EXCEPT !.results = shown] IN
           /\ r \in Quicks /\ r.results = shown /\ r.visible = q.visible
           /\ r.ignored = q.ignored /\ r.cache = q.cache /\ r.scan = q.scan
  BY DEF Quicks

\* The same, after ignored files were asked for or not.
LEMMA QuickIgnoring ==
    ASSUME NEW q \in Quicks, NEW b \in BOOLEAN
    PROVE  LET r == [q EXCEPT !.ignored = b] IN
           /\ r \in Quicks /\ (r.ignored <=> b) /\ r.visible = q.visible
           /\ r.results = q.results /\ r.cache = q.cache /\ r.scan = q.scan
  BY DEF Quicks

\* The same, after its scan was dropped.
LEMMA QuickUnscanned ==
    ASSUME NEW q \in Quicks
    PROVE  LET r == [q EXCEPT !.scan = None] IN
           /\ r \in Quicks /\ r.scan = None /\ r.visible = q.visible /\ r.results = q.results
           /\ r.ignored = q.ignored /\ r.cache = q.cache
  BY DEF Quicks, Optional

\* The same, after a new generation forgot its scan and took new results.
LEMMA QuickRestarted ==
    ASSUME NEW q \in Quicks, NEW shown \in Optional(Listings)
    PROVE  LET r == [q EXCEPT !.generation = @ + 1, !.scan = None, !.results = shown] IN
           /\ r \in Quicks /\ r.scan = None /\ r.visible = q.visible /\ r.results = shown
           /\ r.ignored = q.ignored /\ r.cache = q.cache
  <1> DEFINE o == [q EXCEPT !.generation = @ + 1]
             p == [o EXCEPT !.scan = None]
             r == [p EXCEPT !.results = shown]
  <1>1. r = [q EXCEPT !.generation = @ + 1, !.scan = None, !.results = shown]
    BY DEF Quicks
  <1>2. /\ o \in Quicks /\ o.visible = q.visible /\ o.ignored = q.ignored /\ o.cache = q.cache
    BY DEF Quicks
  <1> HIDE DEF o
  <1>3. /\ p \in Quicks /\ p.scan = None /\ p.visible = o.visible /\ p.ignored = o.ignored
        /\ p.cache = o.cache
    BY <1>2, QuickUnscanned
  <1> HIDE DEF p
  <1>4. /\ r \in Quicks /\ r.results = shown /\ r.visible = p.visible
        /\ r.ignored = p.ignored /\ r.cache = p.cache /\ r.scan = p.scan
    BY <1>3, QuickResultsAre
  <1> HIDE DEF r
  <1> QED
    BY <1>1, <1>2, <1>3, <1>4

\* ToggleQuickOpen keeps the invariant.
LEMMA ToggleQuickFits ==
    ASSUME FilesFit, Files!ToggleQuickOpen
    PROVE  FilesFit'
  <1>0. /\ FilesState /\ WorkNeedsOpen /\ QuickFits /\ SearchedFits
        /\ quick \in Quicks /\ search \in Searches /\ failed \subseteq Errors
        /\ listing \in Optional(Listings) /\ explorer \in BOOLEAN /\ listingRevision \in Nat
    BY DEF FilesFit, FilesTypes, FilesState
  <1>1. UNCHANGED <<tree, saved, recentFile, opened, explorer, listing, listingRevision, refresh,
                    watch, persist, chooser, recents, search, failed>>
    BY DEF Files!ToggleQuickOpen, Files!storeVars, Files!saveVars
  <1>2. /\ used' \in [Files!Kinds -> Nat]
        /\ used["recent"] # 0 => used'["recent"] # 0
    <2>1. "quick" \in Files!Kinds /\ Files!Spend("quick")
      BY DEF Files!ToggleQuickOpen, Files!Kinds
    <2> QED
      BY <1>0, <2>1, SpendIs
  <1> DEFINE source == Files!QuickOpenSource(quick, listing, listingRevision, opened)
             shown == IF quick.visible THEN quick.results ELSE source
             q == [quick EXCEPT !.visible = ~quick.visible, !.results = shown]
             scans == ~quick.visible /\ quick.ignored /\ source = None /\ opened # None
             r == Files!Scanning(q, opened.root, listingRevision)
  <1>3. /\ quick' = IF scans THEN r ELSE q
        /\ jobs' = jobs \cup (IF scans THEN Files!ScanJob(q, r, explorer) ELSE {})
    BY DEF Files!ToggleQuickOpen
  <1>4. source \in Optional(Listings) /\ shown \in Optional(Listings)
    <2>1. source \in Optional(Listings)
      BY <1>0, SourceIs
    <2> HIDE DEF source
    <2> QED
      BY <1>0, <2>1 DEF Quicks
  <1>5. quick.visible \in BOOLEAN
    BY <1>0 DEF Quicks
  <1>6. /\ q \in Quicks /\ (q.visible <=> ~quick.visible) /\ q.results = shown
        /\ q.ignored = quick.ignored /\ q.cache = quick.cache /\ q.scan = quick.scan
    <2> DEFINE o == [quick EXCEPT !.visible = ~quick.visible]
               p == [o EXCEPT !.results = shown]
    <2>1. q = p
      OBVIOUS
    <2>2. quick \in Quicks /\ quick.visible \in BOOLEAN
      BY <1>0, <1>5
    <2>3. /\ o \in Quicks /\ (o.visible <=> ~quick.visible) /\ o.ignored = quick.ignored
          /\ o.cache = quick.cache /\ o.scan = quick.scan
      BY <2>2 DEF Quicks
    <2> HIDE DEF q, o, shown
    <2>4. /\ p \in Quicks /\ p.results = shown /\ p.visible = o.visible
          /\ p.ignored = o.ignored /\ p.cache = o.cache /\ p.scan = o.scan
      BY <1>4, <2>3, QuickResultsAre
    <2> HIDE DEF p
    <2> QED
      BY <2>1, <2>3, <2>4
  <1> HIDE DEF q
  <1>7. scans =>
          /\ r \in Quicks /\ r.visible = q.visible /\ r.ignored = q.ignored
          /\ r.cache = q.cache /\ r.results = q.results
    <2>1. opened # None => opened.root \in Roots
      BY <1>0, OpenedIs DEF FilesState, Optional
    <2> QED
      BY <1>0, <1>6, <2>1, ScanningIs
  <1>8. scans => \A job \in Files!ScanJob(q, r, explorer) : job \in QuickJobs /\ job.kind = "quick"
    <2> HIDE DEF r
    <2> QED
      BY <1>0, <1>6, <1>7, ScanJobIs
  <1> HIDE DEF r
  <1>9. /\ quick' \in Quicks /\ quick'.visible = q.visible /\ quick'.ignored = quick.ignored
        /\ quick'.cache = quick.cache /\ quick'.results = shown
        /\ ~scans => quick'.scan = quick.scan
    BY <1>3, <1>6, <1>7
  <1>10. QuickFits'
    <2>1. quick'.scan # None => quick'.ignored
      BY <1>0, <1>9 DEF QuickFits
    <2>2. quick'.visible => quick'.results = source
      BY <1>6, <1>9
    <2>3. Files!QuickOpenSource(quick, listing, listingRevision, opened)' = source
      BY <1>1, <1>9 DEF Files!QuickOpenSource
    <2> QED
      BY <2>1, <2>2, <2>3 DEF QuickFits, Files!QuickOpenIsCurrent
  <1>11. \A job \in jobs' : job \in jobs \/ (IsJob(job) /\ job.kind = "quick")
    BY <1>3, <1>8 DEF IsJob
  <1>12. SearchedFits'
    <2>1. SameRoot /\ NoneNew("debounce") /\ NoneNew("search")
      BY <1>1, <1>11 DEF SameRoot, NoneNew
    <2> QED
      BY <1>0, <1>1, <2>1, SearchedApart
  <1>13. opened = None => jobs' \subseteq jobs /\ quick'.scan = None
    BY <1>0, <1>3, <1>9 DEF WorkNeedsOpen
  <1> QED
    BY <1>0, <1>1, <1>2, <1>9, <1>10, <1>11, <1>12, <1>13, ShowingIs

\* ToggleQuickOpenIgnored keeps the invariant.
LEMMA ToggleQuickIgnoredFits ==
    ASSUME FilesFit, Files!ToggleQuickOpenIgnored
    PROVE  FilesFit'
  <1>0. /\ FilesState /\ WorkNeedsOpen /\ QuickFits /\ SearchedFits
        /\ quick \in Quicks /\ search \in Searches /\ failed \subseteq Errors
        /\ listing \in Optional(Listings) /\ explorer \in BOOLEAN /\ listingRevision \in Nat
    BY DEF FilesFit, FilesTypes, FilesState
  <1>1. /\ UNCHANGED <<tree, saved, recentFile, opened, explorer, listing, listingRevision,
                       refresh, watch, persist, chooser, recents, search>>
        /\ failed' = failed \ {"quick"}
    BY DEF Files!ToggleQuickOpenIgnored, Files!storeVars, Files!saveVars
  <1>2. /\ used' \in [Files!Kinds -> Nat]
        /\ used["recent"] # 0 => used'["recent"] # 0
    <2>1. "quick" \in Files!Kinds /\ Files!Spend("quick")
      BY DEF Files!ToggleQuickOpenIgnored, Files!Kinds
    <2> QED
      BY <1>0, <2>1, SpendIs
  <1> DEFINE q == [quick EXCEPT !.ignored = ~quick.ignored]
             source == Files!QuickOpenSource(q, listing, listingRevision, opened)
             scans == q.ignored /\ source = None /\ opened # None
             plain == [q EXCEPT !.generation = @ + 1, !.scan = None, !.results = listing]
             empty == [q EXCEPT !.results = None]
             scanned == Files!Scanning(empty, opened.root, listingRevision)
             cached == [q EXCEPT !.results = source]
  <1>3. quick' = IF ~q.ignored THEN plain ELSE IF scans THEN scanned ELSE cached
    BY DEF Files!ToggleQuickOpenIgnored
  <1>4. jobs' = jobs \cup (IF scans THEN Files!ScanJob(q, quick', explorer) ELSE {})
    BY DEF Files!ToggleQuickOpenIgnored
  <1>5. quick.ignored \in BOOLEAN
    BY <1>0 DEF Quicks
  <1>6. /\ q \in Quicks /\ (q.ignored <=> ~quick.ignored) /\ q.visible = quick.visible
        /\ q.cache = quick.cache /\ q.scan = quick.scan
    <2> DEFINE b == ~quick.ignored
    <2>1. b \in BOOLEAN
      BY <1>5
    <2> HIDE DEF b
    <2>2. LET p == [quick EXCEPT !.ignored = b] IN
          /\ p \in Quicks /\ (p.ignored <=> b) /\ p.visible = quick.visible
          /\ p.cache = quick.cache /\ p.scan = quick.scan
      BY <1>0, <2>1, QuickIgnoring
    <2> QED
      BY <2>2 DEF b
  <1> HIDE DEF q
  <1>7. source \in Optional(Listings) /\ None \in Optional(Listings)
    BY <1>0, <1>6, SourceIs DEF Optional
  <1>8. /\ plain \in Quicks /\ plain.scan = None /\ plain.visible = q.visible
        /\ plain.results = listing /\ plain.ignored = q.ignored /\ plain.cache = q.cache
        /\ empty \in Quicks /\ empty.results = None /\ empty.visible = q.visible
        /\ empty.ignored = q.ignored /\ empty.cache = q.cache /\ empty.scan = q.scan
        /\ cached \in Quicks /\ cached.results = source /\ cached.visible = q.visible
        /\ cached.ignored = q.ignored /\ cached.cache = q.cache /\ cached.scan = q.scan
    <2> HIDE DEF source
    <2>1. /\ plain \in Quicks /\ plain.scan = None /\ plain.visible = q.visible
          /\ plain.results = listing /\ plain.ignored = q.ignored /\ plain.cache = q.cache
      BY <1>0, <1>6, QuickRestarted
    <2>2. /\ empty \in Quicks /\ empty.results = None /\ empty.visible = q.visible
          /\ empty.ignored = q.ignored /\ empty.cache = q.cache /\ empty.scan = q.scan
      BY <1>6, <1>7, QuickResultsAre
    <2>3. /\ cached \in Quicks /\ cached.results = source /\ cached.visible = q.visible
          /\ cached.ignored = q.ignored /\ cached.cache = q.cache /\ cached.scan = q.scan
      BY <1>6, <1>7, QuickResultsAre
    <2> QED
      BY <2>1, <2>2, <2>3
  <1> HIDE DEF plain, empty, cached
  <1>9. opened # None => opened.root \in Roots
    BY <1>0, OpenedIs DEF FilesState, Optional
  <1>10. scans => /\ scanned \in Quicks /\ scanned.visible = q.visible
                  /\ scanned.ignored = q.ignored /\ scanned.cache = q.cache
                  /\ scanned.results = None
    BY <1>0, <1>8, <1>9, ScanningIs
  <1> HIDE DEF scanned
  <1>11. /\ quick' \in Quicks /\ quick'.visible = q.visible /\ quick'.ignored = q.ignored
         /\ quick'.cache = q.cache
         /\ ~q.ignored => quick'.results = listing /\ quick'.scan = None
         /\ q.ignored /\ scans => quick'.results = None
         /\ q.ignored /\ ~scans => quick'.results = source /\ quick'.scan = q.scan
    BY <1>3, <1>8, <1>10
  <1>12. QuickFits'
    <2>1. quick'.scan # None => quick'.ignored
      BY <1>11
    <2>2. Files!QuickOpenSource(quick, listing, listingRevision, opened)' = source
      BY <1>1, <1>11 DEF Files!QuickOpenSource
    <2>3. ~q.ignored => source = listing
      BY DEF Files!QuickOpenSource
    <2> QED
      BY <1>11, <2>1, <2>2, <2>3 DEF QuickFits, Files!QuickOpenIsCurrent
  <1>13. \A job \in jobs' : job \in jobs \/ (IsJob(job) /\ job.kind = "quick")
    <2>1. \A job \in Files!ScanJob(q, quick', explorer) : job \in QuickJobs /\ job.kind = "quick"
      BY <1>0, <1>6, <1>11, ScanJobIs
    <2> QED
      BY <1>4, <2>1 DEF IsJob
  <1>14. SearchedFits'
    <2>1. SameRoot /\ NoneNew("debounce") /\ NoneNew("search")
      BY <1>1, <1>13 DEF SameRoot, NoneNew
    <2> QED
      BY <1>0, <1>1, <2>1, SearchedApart
  <1>15. opened = None => jobs' \subseteq jobs /\ quick'.scan = None
    BY <1>0, <1>4, <1>6, <1>11 DEF WorkNeedsOpen
  <1>16. ("refresh" \in failed' <=> "refresh" \in failed) /\ failed' \subseteq Errors
    BY <1>0, <1>1
  <1> QED
    BY <1>0, <1>1, <1>2, <1>11, <1>12, <1>13, <1>14, <1>15, <1>16, ShowingIs

\* QuickOpenFilesLoaded keeps the invariant.
LEMMA QuickLoadedFits ==
    ASSUME FilesFit, NEW job \in jobs, Files!QuickOpenFilesLoaded(job)
    PROVE  FilesFit'
  <1>0. /\ FilesState /\ WorkNeedsOpen /\ QuickFits /\ SearchedFits /\ IsJob(job)
        /\ quick \in Quicks /\ search \in Searches /\ failed \subseteq Errors
        /\ used \in [Files!Kinds -> Nat]
        /\ job.kind = "quick" /\ job.result # None
    BY DEF FilesFit, FilesTypes, FilesState, JobsTyped, Files!QuickOpenFilesLoaded
  <1>1. /\ UNCHANGED <<tree, saved, recentFile, opened, explorer, listing, listingRevision,
                       refresh, watch, persist, chooser, recents, search, used>>
        /\ jobs' = jobs \ {job}
    BY DEF Files!QuickOpenFilesLoaded, Files!storeVars, Files!saveVars
  <1>2. job \in QuickJobs
    BY <1>0, JobIs
  <1>3. /\ job.generation \in Nat /\ job.root \in Roots /\ job.revision \in Nat
        /\ job.result \in Answers(Listings)
    BY <1>2 DEF QuickJobs
  <1>4. job.result.ok => job.result.value \in Listings
    BY <1>0, <1>3, AnswerHas
  <1> DEFINE cache == [root |-> job.root, revision |-> job.revision, files |-> job.result.value]
             scan == [generation |-> job.generation, root |-> job.root, revision |-> job.revision]
             found == [quick EXCEPT !.scan = None, !.results = job.result.value, !.cache = cache]
             without == [quick EXCEPT !.scan = None]
  <1>5. \/ /\ quick.scan = scan /\ opened # None /\ opened.root = job.root
           /\ job.revision = listingRevision
           /\ quick' = IF job.result.ok THEN found ELSE without
        \/ quick' = quick
    BY DEF Files!QuickOpenFilesLoaded, Files!IsCurrentRoot
  <1>6. cache.root = job.root /\ cache.revision = job.revision /\ cache.files = job.result.value
    OBVIOUS
  <1>7. scan # None /\ (job.result.ok => cache \in Caches /\ cache # None)
    <2>1. scan \in [generation : Nat, root : Roots, revision : Nat]
      BY <1>3
    <2>2. job.result.ok => cache \in Caches
      BY <1>3, <1>4 DEF Caches
    <2>3. None \notin Caches /\ None \notin [generation : Nat, root : Roots, revision : Nat]
      BY FilesAssumption DEF Caches, Listings
    <2> HIDE DEF scan, cache
    <2> QED
      BY <2>1, <2>2, <2>3
  <1> HIDE DEF cache, scan
  <1>8. /\ without \in Quicks /\ without.scan = None /\ without.visible = quick.visible
        /\ without.results = quick.results /\ without.ignored = quick.ignored
        /\ without.cache = quick.cache
    BY <1>0, QuickUnscanned
  <1>9. job.result.ok => /\ found \in Quicks /\ found.scan = None
                         /\ found.results = job.result.value /\ found.ignored = quick.ignored
                         /\ found.cache = cache
    <2> SUFFICES ASSUME job.result.ok
                 PROVE  /\ found \in Quicks /\ found.scan = None
                        /\ found.results = job.result.value /\ found.ignored = quick.ignored
                        /\ found.cache = cache
      OBVIOUS
    <2> DEFINE a == [without EXCEPT !.results = job.result.value]
               b == [a EXCEPT !.cache = cache]
    <2>1. b = found
      BY <1>0 DEF Quicks
    <2> HIDE DEF without
    <2>2. /\ a \in Quicks /\ a.scan = None /\ a.results = job.result.value
          /\ a.ignored = quick.ignored
      BY <1>4, <1>8 DEF Quicks, Optional
    <2> HIDE DEF a
    <2>3. /\ b \in Quicks /\ b.scan = None /\ b.results = job.result.value
          /\ b.ignored = quick.ignored /\ b.cache = cache
      BY <1>7, <2>2 DEF Quicks, Optional
    <2> HIDE DEF b
    <2> QED
      BY <2>1, <2>3
  <1> HIDE DEF found, without
  <1>10. quick' \in Quicks /\ (quick'.scan = None \/ quick' = quick)
    BY <1>0, <1>5, <1>8, <1>9
  <1>11. QuickFits'
    <2>1. CASE quick' = quick
      <3>1. SameRoot
        BY <1>1 DEF SameRoot
      <3> QED
        BY <1>0, <1>1, <2>1, <3>1, QuickApart
    <2>2. CASE quick' # quick /\ job.result.ok
      <3>1. /\ quick' = found /\ quick.scan = scan /\ opened # None /\ opened.root = job.root
            /\ job.revision = listingRevision
        BY <1>5, <2>2
      <3>2. quick.ignored
        BY <1>0, <1>7, <3>1 DEF QuickFits
      <3>3. Files!QuickOpenSource(quick, listing, listingRevision, opened)' = job.result.value
        BY <1>1, <1>6, <1>7, <1>9, <2>2, <3>1, <3>2 DEF Files!QuickOpenSource
      <3> QED
        BY <1>9, <2>2, <3>1, <3>3 DEF QuickFits, Files!QuickOpenIsCurrent
    <2>3. CASE quick' # quick /\ ~job.result.ok
      <3>1. quick' = without
        BY <1>5, <2>3
      <3>2. Files!QuickOpenSource(quick, listing, listingRevision, opened)'
              = Files!QuickOpenSource(quick, listing, listingRevision, opened)
        BY <1>1, <1>8, <3>1 DEF Files!QuickOpenSource
      <3> QED
        BY <1>0, <1>8, <3>1, <3>2 DEF QuickFits, Files!QuickOpenIsCurrent
    <2> QED
      BY <2>1, <2>2, <2>3
  <1>12. SearchedFits'
    <2>1. SameRoot /\ NoneNew("debounce") /\ NoneNew("search")
      BY <1>1 DEF SameRoot, NoneNew
    <2> QED
      BY <1>0, <1>1, <2>1, SearchedApart
  <1>13. opened = None => jobs' \subseteq jobs /\ quick'.scan = None
    BY <1>0, <1>1, <1>10 DEF WorkNeedsOpen
  <1>14. ("refresh" \in failed' <=> "refresh" \in failed) /\ failed' \subseteq Errors
    <2>1. failed' = failed \/ failed' = failed \ {"quick"} \/ failed' = failed \cup {"quick"}
      BY DEF Files!QuickOpenFilesLoaded
    <2> QED
      BY <1>0, <2>1 DEF Errors
  <1> QED
    BY <1>0, <1>1, <1>10, <1>11, <1>12, <1>13, <1>14, ShowingIs

\* schedule_search keeps the invariant: the jobs of older generations no longer matter.
LEMMA ScheduleFits ==
    ASSUME FilesFit, NEW query \in Optional(Queries), NEW ignored \in BOOLEAN,
           Files!Spend("search"), Files!ScheduleSearch(query, ignored),
           UNCHANGED <<tree, saved, recentFile, opened, explorer, listing, listingRevision,
                       refresh, watch, persist, chooser, recents, quick>>
    PROVE  FilesFit'
  <1>0. /\ FilesState /\ JobsTyped /\ WorkNeedsOpen /\ QuickFits /\ SearchedFits
        /\ quick \in Quicks /\ search \in Searches /\ failed \subseteq Errors
    BY DEF FilesFit, FilesTypes, FilesState
  <1>1. /\ used' \in [Files!Kinds -> Nat]
        /\ used["recent"] # 0 => used'["recent"] # 0
    <2>1. "search" \in Files!Kinds
      BY DEF Files!Kinds
    <2> QED
      BY <1>0, <2>1, SpendIs
  <1>2. search' = [query |-> query, ignored |-> ignored, generation |-> search.generation + 1,
                   results |-> None]
    BY DEF Files!ScheduleSearch
  <1>3. /\ search' \in Searches /\ search'.query = query /\ search'.ignored = ignored
        /\ search'.generation = search.generation + 1 /\ search'.results = None
        /\ search.generation \in Nat
    BY <1>0, <1>2 DEF Searches, Optional
  <1> DEFINE new == [kind |-> "debounce", generation |-> search.generation + 1,
                     root |-> opened.root, query |-> query, result |-> None]
  <1>4. jobs' = IF query = None \/ opened = None THEN jobs ELSE jobs \cup {new}
    BY <1>3 DEF Files!ScheduleSearch
  <1>5. ~(query = None \/ opened = None) =>
          /\ new \in DebounceJobs /\ new.kind = "debounce" /\ new.generation = search.generation + 1
          /\ new.query = query
    <2>1. opened # None => opened.root \in Roots
      BY <1>0, OpenedIs DEF FilesState, Optional
    <2> QED
      BY <1>3, <2>1 DEF DebounceJobs, Optional
  <1> HIDE DEF new
  <1>6. \A job \in jobs' : job \in jobs \/ (IsJob(job) /\ job.kind = "debounce")
    BY <1>4, <1>5 DEF IsJob
  <1>7. SearchedFits'
    <2>1. \A job \in jobs : job.kind \in {"debounce", "search"} =>
            job.generation <= search.generation /\ job.generation \in Nat
      <3>1. \A job \in jobs : job.kind = "debounce" => job.generation \in Nat
        BY <1>0, JobIs DEF JobsTyped, DebounceJobs
      <3>2. \A job \in jobs : job.kind = "search" => job.generation \in Nat
        BY <1>0, JobIs DEF JobsTyped, SearchJobs
      <3> QED
        BY <1>0, <3>1, <3>2 DEF SearchedFits
    <2>2. \A job \in jobs : job.kind \in {"debounce", "search"} =>
            job.generation <= search'.generation /\ job.generation # search'.generation
      BY <1>3, <2>1
    <2>3. Files!SearchIsCurrent'
      BY <1>3 DEF Files!SearchIsCurrent
    <2>4. \A job \in jobs' : job.kind \in {"debounce", "search"} =>
            /\ job.generation <= search'.generation
            /\ job.generation = search'.generation => job.query = search'.query
      BY <1>3, <1>4, <1>5, <2>2
    <2>5. \A job \in jobs' : job.kind = "search" => job \in jobs
      BY <1>6
    <2> QED
      BY <1>0, <2>2, <2>3, <2>4, <2>5 DEF SearchedFits
  <1>8. QuickFits'
    BY <1>0, QuickApart DEF SameRoot
  <1>9. opened = None => jobs' \subseteq jobs /\ quick'.scan = None
    BY <1>0, <1>4 DEF WorkNeedsOpen
  <1>10. ("refresh" \in failed' <=> "refresh" \in failed) /\ failed' \subseteq Errors
    BY <1>0 DEF Files!ScheduleSearch
  <1> QED
    BY <1>0, <1>1, <1>3, <1>6, <1>7, <1>8, <1>9, <1>10, ShowingIs

\* Changing the query or its option keeps the invariant.
LEMMA SearchChangedFits ==
    ASSUME FilesFit, Files!SearchChanged \/ Files!ToggleSearchIgnored
    PROVE  FilesFit'
  <1>0. search \in Searches
    BY DEF FilesFit, FilesTypes, FilesState
  <1>1. UNCHANGED <<tree, saved, recentFile, opened, explorer, listing, listingRevision, refresh,
                    watch, persist, chooser, recents, quick>>
    BY DEF Files!SearchChanged, Files!ToggleSearchIgnored, Files!storeVars, Files!saveVars
  <1>2. Files!Spend("search")
    BY DEF Files!SearchChanged, Files!ToggleSearchIgnored
  <1>3. CASE Files!SearchChanged
    <2>1. PICK query \in Queries \cup {None} : Files!ScheduleSearch(query, search.ignored)
      BY <1>3 DEF Files!SearchChanged
    <2>2. query \in Optional(Queries) /\ search.ignored \in BOOLEAN
      BY <1>0 DEF Searches, Optional
    <2> QED
      BY <1>1, <1>2, <2>1, <2>2, ScheduleFits
  <1>4. CASE Files!ToggleSearchIgnored
    <2> DEFINE ignored == ~search.ignored
    <2>1. Files!ScheduleSearch(search.query, ignored)
      BY <1>4 DEF Files!ToggleSearchIgnored
    <2>2. search.query \in Optional(Queries) /\ ignored \in BOOLEAN
      BY <1>0 DEF Searches
    <2> HIDE DEF ignored
    <2> QED
      BY <1>1, <1>2, <2>1, <2>2, ScheduleFits
  <1> QED
    BY <1>3, <1>4

\* The end of the debounce keeps the invariant.
LEMMA DebouncedFits ==
    ASSUME FilesFit, NEW job \in jobs, Files!SearchDebounced(job)
    PROVE  FilesFit'
  <1>0. /\ FilesState /\ JobsTyped /\ WorkNeedsOpen /\ QuickFits /\ SearchedFits /\ IsJob(job)
        /\ quick \in Quicks /\ search \in Searches /\ failed \subseteq Errors
        /\ used \in [Files!Kinds -> Nat] /\ explorer \in BOOLEAN
        /\ job.kind = "debounce"
    BY DEF FilesFit, FilesTypes, FilesState, JobsTyped, Files!SearchDebounced
  <1>1. UNCHANGED <<tree, saved, recentFile, opened, explorer, listing, listingRevision, refresh,
                    watch, persist, chooser, recents, quick, search, failed, used>>
    BY DEF Files!SearchDebounced, Files!storeVars, Files!listVars, Files!saveVars
  <1>2. /\ job.generation \in Nat /\ job.root \in Roots /\ job.query \in Queries
        /\ search.ignored \in BOOLEAN
    BY <1>0, JobIs DEF DebounceJobs, Searches
  <1> DEFINE new == [kind |-> "search", generation |-> job.generation, root |-> job.root,
                     query |-> job.query, hidden |-> explorer, ignored |-> search.ignored,
                     result |-> None]
  <1>3. \/ /\ jobs' = (jobs \ {job}) \cup {new}
           /\ job.generation = search.generation /\ job.query = search.query /\ opened # None
        \/ jobs' = jobs \ {job}
    BY DEF Files!SearchDebounced, Files!IsCurrentRoot
  <1>4. /\ new \in SearchJobs /\ new.kind = "search" /\ new.generation = job.generation
        /\ new.query = job.query /\ new.ignored = search.ignored /\ new.result = None
    BY <1>0, <1>2 DEF SearchJobs, Answers, Optional
  <1> HIDE DEF new
  <1>5. \A other \in jobs' : other \in jobs \/ (IsJob(other) /\ other.kind = "search")
    BY <1>3, <1>4 DEF IsJob
  <1>6. SearchedFits'
    <2>1. Files!SearchIsCurrent'
      BY <1>0, <1>1 DEF SearchedFits, Files!SearchIsCurrent
    <2>2. \A other \in jobs' : other.kind \in {"debounce", "search"} =>
            /\ other.generation <= search.generation
            /\ other.generation = search.generation => other.query = search.query
      BY <1>0, <1>3, <1>4 DEF SearchedFits
    <2>3. \A other \in jobs' : other.kind = "search" =>
            /\ other.generation = search.generation => other.ignored = search.ignored
            /\ other.result # None /\ other.result.ok
                 => /\ other.result.value.root = other.root
                    /\ other.result.value.ignored = other.ignored
      BY <1>0, <1>3, <1>4 DEF SearchedFits
    <2> QED
      BY <1>1, <2>1, <2>2, <2>3 DEF SearchedFits
  <1>7. QuickFits'
    BY <1>0, <1>1, QuickApart DEF SameRoot
  <1>8. opened = None => jobs' \subseteq jobs /\ quick'.scan = None
    BY <1>0, <1>1, <1>3 DEF WorkNeedsOpen
  <1> QED
    BY <1>0, <1>1, <1>5, <1>6, <1>7, <1>8, ShowingIs

\* SearchCompleted keeps the invariant.
LEMMA SearchCompletedFits ==
    ASSUME FilesFit, NEW job \in jobs, Files!SearchCompleted(job)
    PROVE  FilesFit'
  <1>0. /\ FilesState /\ JobsTyped /\ WorkNeedsOpen /\ QuickFits /\ SearchedFits /\ IsJob(job)
        /\ quick \in Quicks /\ search \in Searches /\ failed \subseteq Errors
        /\ used \in [Files!Kinds -> Nat]
        /\ job.kind = "search" /\ job.result # None
    BY DEF FilesFit, FilesTypes, FilesState, JobsTyped, Files!SearchCompleted
  <1>1. /\ UNCHANGED <<tree, saved, recentFile, opened, explorer, listing, listingRevision,
                       refresh, watch, persist, chooser, recents, quick, used>>
        /\ jobs' = jobs \ {job}
    BY DEF Files!SearchCompleted, Files!storeVars, Files!saveVars
  <1>2. job \in SearchJobs
    BY <1>0, JobIs
  <1>3. /\ job.root \in Roots /\ job.query \in Queries /\ job.result \in Answers(Listings)
    BY <1>2 DEF SearchJobs
  <1>4. job.result.ok => job.result.value \in Listings
    BY <1>0, <1>3, AnswerHas
  <1> DEFINE results == [of |-> job.query, files |-> job.result.value]
  <1>5. \/ /\ job.result.ok /\ search' = [search EXCEPT !.results = results]
           /\ job.generation = search.generation /\ opened.root = job.root
        \/ search' = search
    BY DEF Files!SearchCompleted, Files!IsCurrentSearch, Files!IsCurrentRoot
  <1>6. /\ results.of = job.query /\ results.files = job.result.value
        /\ job.result.ok => results \in [of : Queries, files : Listings]
    BY <1>3, <1>4
  <1> HIDE DEF results
  <1>7. \/ /\ job.result.ok /\ job.generation = search.generation /\ opened.root = job.root
           /\ search' \in Searches /\ search'.results = results /\ search'.query = search.query
           /\ search'.ignored = search.ignored /\ search'.generation = search.generation
        \/ search' = search
    BY <1>0, <1>5, <1>6 DEF Searches, Optional
  <1>8. /\ search' \in Searches /\ search'.query = search.query
        /\ search'.ignored = search.ignored /\ search'.generation = search.generation
    BY <1>0, <1>7
  <1>9. SearchedFits'
    <2>1. Files!SearchIsCurrent'
      <3>1. CASE search' = search
        BY <1>0, <1>1, <3>1 DEF SearchedFits, Files!SearchIsCurrent
      <3>2. CASE search' # search
        <4>1. /\ job.query = search.query /\ job.ignored = search.ignored
              /\ job.result.value.root = job.root /\ job.result.value.ignored = job.ignored
          BY <1>0, <1>7, <3>2 DEF SearchedFits
        <4> QED
          BY <1>1, <1>6, <1>7, <3>2, <4>1 DEF Files!SearchIsCurrent
      <3> QED
        BY <3>1, <3>2
    <2> QED
      BY <1>0, <1>1, <1>8, <2>1 DEF SearchedFits
  <1>10. QuickFits'
    BY <1>0, <1>1, QuickApart DEF SameRoot
  <1>11. opened = None => jobs' \subseteq jobs /\ quick'.scan = None
    BY <1>0, <1>1 DEF WorkNeedsOpen
  <1>12. ("refresh" \in failed' <=> "refresh" \in failed) /\ failed' \subseteq Errors
    <2>1. failed' = failed \/ failed' = failed \ {"search"} \/ failed' = failed \cup {"search"}
      BY DEF Files!SearchCompleted
    <2> QED
      BY <1>0, <2>1 DEF Errors
  <1> QED
    BY <1>0, <1>1, <1>8, <1>9, <1>10, <1>11, <1>12, ShowingIs

-----------------------------------------------------------------------------
(* Saving the state of the workspace.                                       *)

\* The state that is saved is a root with its option.
LEMMA StateIs ==
    ASSUME NEW state \in States, NEW root, NEW hidden, root = state.root, hidden = state.hidden
    PROVE  state = [root |-> root, hidden |-> hidden] /\ state # None
  BY FilesAssumption DEF States

\* A requested save has the present state, or leaves it waiting.
LEMMA SaveRequested ==
    ASSUME persist \in Persists, recentFile \in Seq(Roots), SavesFit, RecentsFit,
           NEW state \in States, NEW recording \in BOOLEAN, NEW refreshing \in BOOLEAN,
           opened' # None, opened'.root = state.root, opened'.hidden = state.hidden,
           recording \/ (opened # None /\ opened.root = state.root),
           persist' = Files!RequestPersistence(persist, state, recording, refreshing),
           UNCHANGED <<saved, recentFile>>, used["recent"] # 0 => used'["recent"] # 0,
           \A job \in jobs' : job.kind = "persist" =>
             job \in jobs \/ job \in Files!Persisting(persist, persist', state)
    PROVE  SavesFit' /\ RecentsFit' /\ persist' \in Persists
  <1> DEFINE new == Files!Persisting(persist, persist', state)
  <1>1. /\ persist' \in Persists /\ persist'.last = persist.last
        /\ persist.inFlight # None \/ refreshing =>
             /\ persist'.pending = state /\ persist'.pending # None
             /\ persist'.inFlight = persist.inFlight
             /\ persist'.generation = persist.generation /\ persist'.active = persist.active
        /\ persist.inFlight = None /\ ~refreshing =>
             /\ persist'.pending = None /\ persist'.inFlight # None
             /\ persist'.generation = persist.generation + 1
        /\ \A x \in Roots :
             /\ Has(persist.queue, x) => Has(persist'.queue, x) \/ Has(persist'.active, x)
             /\ recording /\ x = state.root =>
                  Has(persist'.queue, x) \/ Has(persist'.active, x)
    BY RequestPersistenceIs
  <1>2. /\ \A job \in new :
             /\ job.kind = "persist" /\ job.result = None
             /\ job.root = state.root /\ job.hidden = state.hidden
             /\ ~job.stored /\ job.read = None /\ job.recents = persist'.active
             /\ persist'.generation # persist.generation
             /\ \A x \in Roots : Has(persist'.active, x) =>
                  \E i \in 1..Len(job.edits) : job.edits[i].add = x
             /\ \A i \in 1..Len(job.edits) : job.edits[i].drop = None /\ job.edits[i].add # None
        /\ \A job, other \in new : job = other
    BY <1>1, PersistingIs
  <1>3. \A job \in jobs' : job.kind = "persist" => job \in jobs \/ job \in new
    OBVIOUS
  <1> HIDE DEF new
  <1>4. state.root \in Roots
    BY DEF States
  <1>5. state = [root |-> opened'.root, hidden |-> opened'.hidden]
    BY StateIs
  <1>6. Undisturbed' => Undisturbed
    BY DEF Undisturbed
  <1>7. CASE persist.inFlight # None \/ refreshing
    <2>1. \A job \in jobs' : job.kind = "persist" => job \in jobs
      BY <1>1, <1>2, <1>3, <1>7
    <2>2. Files!SettledIsSaved'
      BY <1>1, <1>7 DEF Files!SettledIsSaved
    <2>3. SavesFit'
      BY <1>1, <1>5, <1>7, <2>1, <2>2 DEF SavesFit
    <2>4. \A job : Recording(job) => Recording(job)'
      BY <1>1, <1>7 DEF Recording
    <2>5. RecentsFit'
      BY <1>1, <1>4, <1>6, <1>7, <2>1, <2>4 DEF RecentsFit
    <2> QED
      BY <1>1, <2>3, <2>5
  <1>8. CASE persist.inFlight = None /\ ~refreshing
    <2>1. \A job \in jobs' : job.kind = "persist" => job \in new
      BY <1>3, <1>8 DEF SavesFit
    <2>2. Files!SettledIsSaved'
      BY <1>1, <1>8 DEF Files!SettledIsSaved
    <2>3. SavesFit'
      BY <1>1, <1>2, <1>8, <2>1, <2>2 DEF SavesFit
    <2>4. \A job \in new : Recording(job)'
      BY <1>2 DEF Recording
    <2>5. \A x : ~Has(persist.active, x)
      BY <1>8 DEF RecentsFit, Has
    <2>6. RecentsFit'
      BY <1>1, <1>4, <1>6, <1>8, <2>1, <2>4, <2>5 DEF RecentsFit
    <2> QED
      BY <1>1, <2>3, <2>6
  <1> QED
    BY <1>7, <1>8

\* A save that waited is started with the present state.
LEMMA SaveStarted ==
    ASSUME NEW d \in Persists, d.inFlight = None, d.pending # None, opened # None,
           d.pending = [root |-> opened.root, hidden |-> opened.hidden],
           SameRoot, opened'.hidden = opened.hidden,
           persist' = Files!StartPersistence(d, d.pending), UNCHANGED <<saved, recentFile>>,
           \A job \in jobs' : job.kind = "persist" =>
             job \in Files!Persisting(d, persist', d.pending),
           Undisturbed' => /\ Distinct(recentFile)
                           /\ Has(d.queue, opened.root) \/ Has(recentFile, opened.root)
    PROVE  SavesFit' /\ RecentsFit' /\ persist' \in Persists
  <1> DEFINE new == Files!Persisting(d, persist', d.pending)
  <1>1. /\ d.pending \in States /\ d.pending.root = opened.root
        /\ d.pending.hidden = opened.hidden
    BY DEF Persists, Optional
  <1>2. /\ persist' \in Persists /\ persist'.inFlight # None /\ persist'.active = d.queue
        /\ persist'.pending = None
    BY <1>1, StartPersistenceIs
  <1>3. /\ \A job \in new :
             /\ job.kind = "persist" /\ job.result = None
             /\ job.root = opened.root /\ job.hidden = opened.hidden
             /\ ~job.stored /\ job.read = None /\ job.recents = persist'.active
             /\ \A x \in Roots : Has(persist'.active, x) =>
                  \E i \in 1..Len(job.edits) : job.edits[i].add = x
             /\ \A i \in 1..Len(job.edits) : job.edits[i].drop = None /\ job.edits[i].add # None
        /\ \A job, other \in new : job = other
    BY <1>1, <1>2, PersistingIs
  <1>4. \A job \in jobs' : job.kind = "persist" => job \in new
    OBVIOUS
  <1> HIDE DEF new
  <1>5. opened' # None /\ opened'.root = opened.root
    BY DEF SameRoot
  <1>6. Files!SettledIsSaved'
    BY <1>2 DEF Files!SettledIsSaved
  <1>7. SavesFit'
    BY <1>2, <1>3, <1>4, <1>5, <1>6 DEF SavesFit
  <1>8. \A job \in new : Recording(job)'
    BY <1>3 DEF Recording
  <1>9. RecentsFit'
    BY <1>2, <1>4, <1>5, <1>8 DEF RecentsFit
  <1> QED
    BY <1>2, <1>7, <1>9

\* ToggleHiddenFiles keeps the invariant.
LEMMA ToggleHiddenFits ==
    ASSUME FilesFit, Files!ToggleHiddenFiles
    PROVE  FilesFit'
  <1>0. /\ FilesState /\ JobsTyped /\ WorkNeedsOpen /\ RefreshRuns /\ ListsNewest /\ QuickFits
        /\ SearchedFits /\ SavesFit /\ MutatingFits /\ RecentsFit
        /\ opened \in Openings /\ explorer \in BOOLEAN /\ refresh \in Refreshes
        /\ persist \in Persists /\ recentFile \in Seq(Roots)
    BY DEF FilesFit, FilesTypes, FilesState, Optional, Files!ToggleHiddenFiles
  <1>1. UNCHANGED <<tree, saved, recentFile, listing, listingRevision, watch, quick, search,
                    failed, chooser, recents>>
    BY DEF Files!ToggleHiddenFiles, Files!storeVars
  <1>2. /\ used' \in [Files!Kinds -> Nat]
        /\ used["recent"] # 0 => used'["recent"] # 0
    <2>1. "toggle" \in Files!Kinds /\ Files!Spend("toggle")
      BY DEF Files!ToggleHiddenFiles, Files!Kinds
    <2> QED
      BY <1>0, <2>1, SpendIs
  <1> DEFINE hidden == ~explorer
             state == [root |-> opened.root, hidden |-> hidden]
  <1>3. hidden \in BOOLEAN /\ explorer' = hidden /\ opened' = [opened EXCEPT !.hidden = hidden]
    BY <1>0 DEF Files!ToggleHiddenFiles
  <1> HIDE DEF hidden
  <1>4. /\ opened' \in Openings /\ opened' # None /\ opened'.root = opened.root
        /\ opened'.hidden = hidden /\ opened.root \in Roots /\ opened # None
    BY <1>0, <1>3, OpenedIs
  <1>5. /\ refresh' = Files!RequestFileRefresh(refresh)
        /\ persist' = Files!RequestPersistence(persist, state, FALSE, refresh'.inFlight # None)
        /\ jobs' = jobs \cup Files!Refreshing(refresh, refresh', opened.root, hidden)
                        \cup Files!Persisting(persist, persist', state)
    BY <1>4 DEF Files!ToggleHiddenFiles, Files!StateOf, hidden
  <1>6. state \in States /\ state.root = opened.root /\ state.hidden = hidden
    BY <1>3, <1>4 DEF States
  <1> HIDE DEF state
  <1>7. refresh' \in Refreshes
    BY <1>0, <1>5, RequestIs
  <1> DEFINE refreshing == refresh'.inFlight # None
  <1>8. \A job \in Files!Refreshing(refresh, refresh', opened.root, hidden) :
          job \in RefreshJobs /\ job.kind = "refresh"
    BY <1>0, <1>3, <1>4, <1>7, RefreshingIs
  <1>9. persist' \in Persists
    BY <1>0, <1>5, <1>6, RequestPersistenceIs
  <1>10. \A job \in Files!Persisting(persist, persist', state) :
           job \in PersistJobs /\ job.kind = "persist"
    BY <1>0, <1>6, <1>9, PersistingIs
  <1>11. SavesFit' /\ RecentsFit'
    <2>1. \A job \in jobs' : job.kind = "persist" =>
            job \in jobs \/ job \in Files!Persisting(persist, persist', state)
      BY <1>5, <1>8
    <2>2. refreshing \in BOOLEAN /\ FALSE \in BOOLEAN
      OBVIOUS
    <2>3. persist' = Files!RequestPersistence(persist, state, FALSE, refreshing)
      BY <1>5
    <2> HIDE DEF refreshing
    <2> QED
      BY <1>0, <1>1, <1>2, <1>4, <1>6, <2>1, <2>2, <2>3, SaveRequested
  <1>12. RefreshRuns' /\ ListsNewest'
    <2>1. /\ refresh.inFlight = None => ~refresh.pending
          /\ refresh.generation >= refresh.generation
      BY <1>0 DEF RefreshRuns, Refreshes
    <2>2. \A job \in jobs' : job.kind = "refresh" =>
            job \in jobs \/ job \in Files!Refreshing(refresh, refresh', opened.root, hidden)
      BY <1>5, <1>10
    <2> QED
      BY <1>0, <1>3, <1>4, <1>5, <2>1, <2>2, RefreshRequested
  <1>13. /\ SameRoot /\ NoneNew("debounce") /\ NoneNew("search") /\ NoneNew("locate")
         /\ NoneNew("recent")
    BY <1>4, <1>5, <1>8, <1>10 DEF SameRoot, NoneNew
  <1>14. FilesState'
    BY <1>0, <1>1, <1>2, <1>3, <1>4, <1>7, <1>9 DEF FilesState, Optional
  <1>15. JobsTyped'
    BY <1>0, <1>5, <1>8, <1>10 DEF JobsTyped, IsJob
  <1>16. WorkNeedsOpen'
    BY <1>0, <1>1, <1>4, <1>13, OpenApart
  <1>17. QuickFits' /\ SearchedFits' /\ MutatingFits'
    BY <1>0, <1>1, <1>2, <1>13, QuickApart, SearchedApart, MutatingApart
  <1> QED
    BY <1>11, <1>12, <1>14, <1>15, <1>16, <1>17 DEF FilesFit, FilesTypes

\* WorkspaceOpened keeps the invariant.
LEMMA OpenedFits ==
    ASSUME FilesFit, NEW job \in jobs, Files!WorkspaceOpened(job)
    PROVE  FilesFit'
  <1>0. /\ FilesState /\ JobsTyped /\ WorkNeedsOpen /\ RefreshRuns /\ ListsNewest /\ QuickFits
        /\ SearchedFits /\ SavesFit /\ MutatingFits /\ RecentsFit /\ IsJob(job)
        /\ refresh \in Refreshes /\ quick \in Quicks /\ search \in Searches
        /\ chooser \in Choosers /\ listingRevision \in Nat /\ used \in [Files!Kinds -> Nat]
        /\ persist \in Persists /\ recentFile \in Seq(Roots)
        /\ job.kind = "open" /\ job.result # None /\ job.result.ok
    BY DEF FilesFit, FilesTypes, FilesState, JobsTyped, Files!WorkspaceOpened
  <1> DEFINE files == job.result.value
             root == files.root
             hidden == files.hidden
             state == [root |-> root, hidden |-> hidden]
             former == [refresh EXCEPT !.generation = @ + 1, !.pending = FALSE]
             refreshing == refresh.inFlight # None
  <1>1. /\ UNCHANGED <<tree, saved, recentFile, recents>>
        /\ explorer' = hidden /\ listing' = files /\ listingRevision' = listingRevision + 1
        /\ quick' = [Files!Invalidated(quick) EXCEPT !.visible = FALSE, !.results = None]
        /\ search' = [search EXCEPT !.generation = @ + 1, !.results = None]
        /\ persist' = Files!RequestPersistence(persist, state, TRUE, refreshing)
        /\ refresh' = Files!RequestFileRefresh(former)
        /\ chooser' = [chooser EXCEPT !.opening = FALSE]
        /\ jobs' = (jobs \ {job}) \cup Files!Persisting(persist, persist', state)
                     \cup Files!Refreshing(former, refresh', root, hidden)
    BY DEF Files!WorkspaceOpened, Files!storeVars
  <1>2. PICK watched \in BOOLEAN :
          /\ watch' = [root |-> IF watched THEN root ELSE None, queue |-> <<>>,
                       lost |-> FALSE, acknowledged |-> FALSE]
          /\ opened' = [root |-> root, hidden |-> hidden, stale |-> ~watched]
          /\ failed' = IF watched THEN {} ELSE {"refresh"}
          /\ used' = IF watched THEN used ELSE [used EXCEPT !["failure"] = @ + 1]
    BY DEF Files!WorkspaceOpened
  <1>3. files \in Listings /\ root \in Roots /\ hidden \in BOOLEAN
    <2>1. job \in OpenJobs
      BY <1>0, JobIs
    <2>2. job.result \in Answers(Listings)
      BY <2>1 DEF OpenJobs
    <2>3. files \in Listings
      BY <1>0, <2>2, AnswerHas
    <2> QED
      BY <2>3 DEF Listings
  <1> HIDE DEF files, root, hidden
  <1>4. state \in States /\ state.root = root /\ state.hidden = hidden
    BY <1>3 DEF States
  <1> HIDE DEF state
  <1>5. /\ opened' \in Openings /\ opened' # None /\ opened'.root = root
        /\ opened'.hidden = hidden
    <2>1. PICK b \in BOOLEAN : opened' = [root |-> root, hidden |-> hidden, stale |-> b]
      BY <1>2
    <2>2. opened' \in Openings
      BY <1>3, <2>1 DEF Openings
    <2>3. None \notin Openings
      BY FilesAssumption DEF Openings
    <2> QED
      BY <2>1, <2>2, <2>3
  <1>6. /\ watch' \in Watches /\ Len(watch'.queue) <= EventCapacity
        /\ watch'.root = None \/ watch'.root = root
    <2>1. << >> \in Seq({"changed", "stale"}) /\ Len(<< >>) = 0
      OBVIOUS
    <2>2. /\ watch' \in Watches /\ watch'.queue = << >>
          /\ watch'.root = None \/ watch'.root = root
      BY <1>2, <1>3, <2>1 DEF Watches, Optional
    <2> QED
      BY <2>1, <2>2, FilesAssumption
  <1>7. failed' \subseteq Errors
    BY <1>2 DEF Errors
  <1>8. /\ used' \in [Files!Kinds -> Nat]
        /\ used["recent"] # 0 => used'["recent"] # 0
    BY <1>0, <1>2 DEF Files!Kinds
  <1>9. quick' \in Quicks /\ quick'.results = None /\ quick'.scan = None /\ ~quick'.visible
    <2> DEFINE q == Files!Invalidated(quick)
               o == [q EXCEPT !.visible = FALSE]
               p == [o EXCEPT !.results = None]
    <2>1. q \in Quicks /\ q.scan = None
      BY <1>0, InvalidatedIs
    <2>2. quick' = p
      BY <1>1
    <2> HIDE DEF q
    <2>3. o \in Quicks /\ o.scan = None /\ o.visible = FALSE
      BY <2>1 DEF Quicks
    <2> HIDE DEF o
    <2>4. None \in Optional(Listings)
      BY DEF Optional
    <2>5. p \in Quicks /\ p.results = None /\ p.scan = o.scan /\ p.visible = o.visible
      BY <2>3, <2>4, QuickResultsAre
    <2> HIDE DEF p
    <2> QED
      BY <2>2, <2>3, <2>5
  <1>10. QuickFits'
    BY <1>9 DEF QuickFits, Files!QuickOpenIsCurrent
  <1>11. /\ search' \in Searches /\ search'.generation = search.generation + 1
         /\ search'.results = None /\ search.generation \in Nat
    <2> DEFINE o == [search EXCEPT !.generation = @ + 1]
               r == [o EXCEPT !.results = None]
    <2>1. search' = r /\ search \in Searches
      BY <1>0, <1>1
    <2>2. /\ o \in Searches /\ o.generation = search.generation + 1
          /\ search.generation \in Nat
      BY <2>1 DEF Searches
    <2> HIDE DEF o
    <2>3. None \in Optional([of : Queries, files : Listings])
      BY DEF Optional
    <2>4. r \in Searches /\ r.generation = o.generation /\ r.results = None
      BY <2>2, <2>3 DEF Searches
    <2> HIDE DEF r
    <2> QED
      BY <2>1, <2>2, <2>4
  <1>12. /\ former \in Refreshes /\ former.inFlight = refresh.inFlight /\ ~former.pending
         /\ former.generation = refresh.generation + 1 /\ refresh.generation \in Nat
    <2> DEFINE a == [refresh EXCEPT !.generation = @ + 1]
               b == [a EXCEPT !.pending = FALSE]
    <2>1. refresh \in Refreshes
      BY <1>0
    <2>2. /\ a \in Refreshes /\ a.inFlight = refresh.inFlight
          /\ a.generation = refresh.generation + 1 /\ refresh.generation \in Nat
      BY <2>1 DEF Refreshes
    <2>3. former = b
      OBVIOUS
    <2> HIDE DEF a, former
    <2>4. /\ b \in Refreshes /\ b.inFlight = a.inFlight /\ ~b.pending
          /\ b.generation = a.generation
      BY <2>2 DEF Refreshes
    <2> HIDE DEF b
    <2> QED
      BY <2>2, <2>3, <2>4
  <1> HIDE DEF former
  <1>13. refresh' \in Refreshes
    BY <1>1, <1>12, RequestIs
  <1>14. \A new \in Files!Refreshing(former, refresh', root, hidden) :
           new \in RefreshJobs /\ new.kind = "refresh"
    BY <1>3, <1>12, <1>13, RefreshingIs
  <1>15. refreshing \in BOOLEAN /\ TRUE \in BOOLEAN
    OBVIOUS
  <1> HIDE DEF refreshing
  <1>16. persist' \in Persists
    BY <1>0, <1>1, <1>4, <1>15, RequestPersistenceIs
  <1>17. \A new \in Files!Persisting(persist, persist', state) :
           new \in PersistJobs /\ new.kind = "persist"
    BY <1>0, <1>4, <1>16, PersistingIs
  <1>18. SavesFit' /\ RecentsFit'
    <2>1. \A new \in jobs' : new.kind = "persist" =>
            new \in jobs \/ new \in Files!Persisting(persist, persist', state)
      BY <1>1, <1>14
    <2> QED
      BY <1>0, <1>1, <1>4, <1>5, <1>8, <1>15, <2>1, SaveRequested
  <1>19. RefreshRuns' /\ ListsNewest'
    <2>1. \A new \in jobs' : new.kind = "refresh" =>
            new \in jobs \/ new \in Files!Refreshing(former, refresh', root, hidden)
      BY <1>1, <1>17
    <2>2. former.generation >= refresh.generation
      BY <1>12
    <2> QED
      BY <1>0, <1>1, <1>3, <1>5, <1>12, <2>1, <2>2, RefreshRequested
  <1>20. /\ NoneNew("debounce") /\ NoneNew("search") /\ NoneNew("locate") /\ NoneNew("recent")
    BY <1>1, <1>14, <1>17 DEF NoneNew
  <1>21. SearchedFits'
    <2>1. \A other \in jobs : other.kind \in {"debounce", "search"} =>
            other.generation <= search.generation /\ other.generation \in Nat
      <3>1. \A other \in jobs : other.kind = "debounce" => other.generation \in Nat
        BY <1>0, JobIs DEF JobsTyped, DebounceJobs
      <3>2. \A other \in jobs : other.kind = "search" => other.generation \in Nat
        BY <1>0, JobIs DEF JobsTyped, SearchJobs
      <3> QED
        BY <1>0, <3>1, <3>2 DEF SearchedFits
    <2>2. \A other \in jobs : other.kind \in {"debounce", "search"} =>
            other.generation <= search'.generation /\ other.generation # search'.generation
      BY <1>11, <2>1
    <2>3. Files!SearchIsCurrent'
      BY <1>11 DEF Files!SearchIsCurrent
    <2> QED
      BY <1>0, <1>20, <2>2, <2>3 DEF SearchedFits, NoneNew
  <1>22. chooser' \in Choosers /\ chooser'.mutating = chooser.mutating
    BY <1>0, <1>1, ChooserIs
  <1>23. MutatingFits'
    BY <1>0, <1>8, <1>20, <1>22, MutatingApart
  <1>24. FilesState'
    <2>1. listingRevision' \in Nat /\ listing' \in Optional(Listings)
      BY <1>0, <1>1, <1>3 DEF Optional
    <2> QED
      BY <1>0, <1>1, <1>3, <1>5, <1>6, <1>7, <1>8, <1>9, <1>11, <1>13, <1>16, <1>22, <2>1
         DEF FilesState, Optional
  <1>25. JobsTyped'
    BY <1>0, <1>1, <1>14, <1>17 DEF JobsTyped, IsJob
  <1>26. WorkNeedsOpen'
    BY <1>5, <1>6 DEF WorkNeedsOpen
  <1> QED
    BY <1>10, <1>18, <1>19, <1>21, <1>23, <1>24, <1>25, <1>26 DEF FilesFit, FilesTypes

\* FilesRefreshed keeps the invariant.
LEMMA RefreshedFits ==
    ASSUME FilesFit, NEW job \in jobs, Files!FilesRefreshed(job)
    PROVE  FilesFit'
  <1>0. /\ FilesState /\ JobsTyped /\ WorkNeedsOpen /\ RefreshRuns /\ ListsNewest /\ QuickFits
        /\ SearchedFits /\ SavesFit /\ MutatingFits /\ RecentsFit /\ IsJob(job)
        /\ opened \in Openings /\ opened # None /\ explorer \in BOOLEAN
        /\ refresh \in Refreshes /\ quick \in Quicks /\ failed \subseteq Errors
        /\ persist \in Persists /\ listingRevision \in Nat /\ listing \in Optional(Listings)
        /\ job.kind = "refresh" /\ job.result # None
    BY DEF FilesFit, FilesTypes, FilesState, JobsTyped, WorkNeedsOpen, Optional,
           Files!FilesRefreshed
  <1>1. UNCHANGED <<tree, saved, recentFile, explorer, watch, search, chooser, recents, used>>
    BY DEF Files!FilesRefreshed, Files!storeVars
  <1>2. job \in RefreshJobs
    BY <1>0, JobIs
  <1>3. job.generation \in Nat /\ job.result \in Answers(Listings)
    BY <1>2 DEF RefreshJobs
  <1>4. job.result.ok \in BOOLEAN /\ (job.result.ok => job.result.value \in Listings)
    BY <1>0, <1>3, AnswerHas
  <1>5. refresh.inFlight = job.generation /\ refresh.inFlight # None
    BY <1>0, <1>3, FilesAssumption DEF RefreshRuns
  <1>6. (refresh.pending <=> job.generation # refresh.generation) /\ refresh.pending \in BOOLEAN
    BY <1>0, <1>5 DEF RefreshRuns, Refreshes
  <1> DEFINE f == [refresh EXCEPT !.inFlight = None]
             g == IF f.pending THEN Files!Started([f EXCEPT !.pending = FALSE]) ELSE f
             starts == ~f.pending /\ persist.inFlight = None /\ persist.pending # None
             p == IF starts THEN Files!StartPersistence(persist, persist.pending) ELSE persist
             applies == refresh.inFlight = job.generation /\ job.generation = refresh.generation
             fresh == applies /\ job.result.ok
             q == Files!Invalidated(quick)
             rescans == fresh /\ quick.visible /\ quick.ignored
             r == Files!Scanning(q, opened.root, listingRevision + 1)
             shows == [q EXCEPT !.results = IF q.visible THEN listing' ELSE @]
  <1>7. /\ refresh' = g /\ persist' = p
        /\ listing' = IF fresh THEN job.result.value ELSE listing
        /\ listingRevision' = IF fresh THEN listingRevision + 1 ELSE listingRevision
        /\ opened' = IF fresh THEN [opened EXCEPT !.stale = FALSE] ELSE opened
        /\ failed' = IF fresh THEN failed \ {"refresh"}
                     ELSE IF applies THEN failed \cup {"refresh"} ELSE failed
        /\ quick' = IF rescans THEN r ELSE IF fresh THEN shows ELSE quick
        /\ jobs' = (jobs \ {job})
                   \cup Files!Refreshing(f, g, opened.root, explorer)
                   \cup Files!Persisting(persist, p, persist.pending)
                   \cup (IF rescans THEN Files!ScanJob(q, r, explorer) ELSE {})
    BY <1>5 DEF Files!FilesRefreshed
  <1>8. /\ f \in Refreshes /\ f.inFlight = None /\ f.pending = refresh.pending
        /\ f.generation = refresh.generation /\ refresh.generation \in Nat
    BY <1>0 DEF Refreshes, Optional
  <1> HIDE DEF f
  <1>9. /\ g \in Refreshes /\ g.generation = refresh.generation /\ ~g.pending
        /\ g.inFlight = IF refresh.pending THEN refresh.generation ELSE None
        /\ refresh.pending => g.inFlight # None
    BY <1>8, StartedIs
  <1>10. (fresh <=> ~refresh.pending /\ job.result.ok) /\ (applies <=> ~refresh.pending)
    BY <1>5, <1>6
  <1>11. starts <=> ~refresh.pending /\ persist.inFlight = None /\ persist.pending # None
    BY <1>8
  <1> HIDE DEF g, fresh, applies, starts
  <1>12. /\ opened' \in Openings /\ opened' # None /\ opened'.root = opened.root
         /\ opened'.hidden = opened.hidden /\ opened.root \in Roots
         /\ fresh => ~opened'.stale
    BY <1>0, <1>7, OpenedIs
  <1>13. SameRoot
    BY <1>0, <1>12 DEF SameRoot
  <1>14. listing' \in Optional(Listings) /\ listingRevision' \in Nat /\ failed' \subseteq Errors
    <2>1. fresh => job.result.value \in Listings
      BY <1>4, <1>10
    <2> QED
      BY <1>0, <1>7, <2>1 DEF Optional, Errors
  \* The jobs a listing starts.
  <1>15. /\ \A new \in Files!Refreshing(f, g, opened.root, explorer) :
              /\ new \in RefreshJobs /\ new.kind = "refresh" /\ new.result = None
              /\ new.generation = g.inFlight /\ new.root = opened.root /\ new.hidden = explorer
              /\ g.inFlight # None
         /\ \A new, other \in Files!Refreshing(f, g, opened.root, explorer) : new = other
    BY <1>0, <1>8, <1>9, <1>12, RefreshingIs
  <1>16. /\ ~starts => p = persist /\ Files!Persisting(persist, p, persist.pending) = {}
         /\ p \in Persists
         /\ \A new \in Files!Persisting(persist, p, persist.pending) :
              new \in PersistJobs /\ new.kind = "persist"
    <2>1. ~starts => p = persist /\ Files!Persisting(persist, p, persist.pending) = {}
      BY DEF Files!Persisting
    <2>2. CASE starts
      <3>1. persist.pending \in States
        BY <1>0, <1>11, <2>2 DEF Persists, Optional
      <3>2. p \in Persists
        BY <1>0, <2>2, <3>1, StartPersistenceIs
      <3> HIDE DEF p
      <3> QED
        BY <1>0, <2>2, <3>1, <3>2, PersistingIs
    <2> HIDE DEF p
    <2> QED
      BY <1>0, <2>1, <2>2
  <1>17. /\ q \in Quicks /\ q.visible = quick.visible /\ q.ignored = quick.ignored
         /\ q.scan = None /\ q.cache = None
         /\ q.results = IF quick.ignored THEN None ELSE quick.results
    BY <1>0, InvalidatedIs
  <1> HIDE DEF q
  <1>18. /\ r \in Quicks /\ r.visible = q.visible /\ r.ignored = q.ignored
         /\ r.cache = q.cache /\ r.results = q.results
    <2>1. listingRevision + 1 \in Nat
      BY <1>0
    <2> QED
      BY <1>12, <1>17, <2>1, ScanningIs
  <1> HIDE DEF r
  <1>19. \A new \in Files!ScanJob(q, r, explorer) : new \in QuickJobs /\ new.kind = "quick"
    BY <1>0, <1>17, <1>18, ScanJobIs
  <1>20. \A new \in jobs' :
           \/ new \in jobs /\ new # job
           \/ new \in Files!Refreshing(f, g, opened.root, explorer)
           \/ new \in Files!Persisting(persist, p, persist.pending)
           \/ new \in QuickJobs /\ new.kind = "quick"
    BY <1>7, <1>19
  <1>21. /\ NoneNew("debounce") /\ NoneNew("search") /\ NoneNew("locate") /\ NoneNew("recent")
    BY <1>15, <1>16, <1>20 DEF NoneNew
  <1>22. JobsTyped'
    BY <1>0, <1>15, <1>16, <1>20 DEF JobsTyped, IsJob
  <1>23. RefreshRuns' /\ ListsNewest'
    <2>1. \A new \in jobs' : new.kind = "refresh" =>
            new \in Files!Refreshing(f, g, opened.root, explorer)
      BY <1>0, <1>16, <1>20 DEF RefreshRuns
    <2>2. RefreshRuns'
      BY <1>1, <1>7, <1>8, <1>9, <1>12, <1>15, <2>1, FilesAssumption DEF RefreshRuns
    <2>3. \A new \in jobs' : new.kind = "refresh" => new.result = None
      BY <1>15, <2>1
    <2>4. CASE refresh.pending
      BY <1>7, <1>9, <2>2, <2>3, <2>4 DEF ListsNewest
    <2>5. CASE ~refresh.pending
      <3>1. Newest' = Newest /\ Heard' = Heard
        BY <1>1, <1>12 DEF Newest, Heard, Files!Listing
      <3>2. CASE job.result.ok
        <4>1. watch.root # None /\ ~Heard => job.result.value = Newest
          BY <1>0, <2>5, <3>2 DEF ListsNewest
        <4> QED
          BY <1>1, <1>7, <1>10, <1>12, <2>2, <2>3, <2>5, <3>1, <3>2, <4>1 DEF ListsNewest
      <3>3. CASE ~job.result.ok
        <4>1. "refresh" \in failed'
          BY <1>7, <1>10, <2>5, <3>3
        <4> QED
          BY <2>2, <2>3, <4>1 DEF ListsNewest
      <3> QED
        BY <3>2, <3>3
    <2> QED
      BY <2>2, <2>4, <2>5
  <1>24. quick' \in Quicks /\ QuickFits'
    <2>1. CASE rescans
      <3>1. quick' = r /\ quick.ignored
        BY <1>7, <2>1
      <3> QED
        BY <1>17, <1>18, <3>1 DEF QuickFits, Files!QuickOpenIsCurrent
    <2>2. CASE fresh /\ ~rescans
      <3> DEFINE shown == IF q.visible THEN listing' ELSE q.results
      <3>1. shown \in Optional(Listings)
        BY <1>14, <1>17 DEF Quicks
      <3>2. quick' = [q EXCEPT !.results = shown]
        BY <1>7, <2>2
      <3>3. q.visible => ~q.ignored
        BY <1>17, <2>2
      <3>4. q.visible => shown = listing'
        OBVIOUS
      <3> HIDE DEF shown
      <3>5. /\ quick' \in Quicks /\ quick'.results = shown /\ quick'.visible = q.visible
            /\ quick'.ignored = q.ignored /\ quick'.scan = None
        BY <1>17, <3>1, <3>2, QuickResultsAre
      <3> QED
        BY <3>3, <3>4, <3>5 DEF QuickFits, Files!QuickOpenIsCurrent, Files!QuickOpenSource
    <2>3. CASE ~fresh
      <3>1. UNCHANGED <<quick, listing, listingRevision>>
        BY <1>7, <2>3
      <3> QED
        BY <1>0, <1>13, <3>1, QuickApart
    <2> QED
      BY <2>1, <2>2, <2>3
  <1>25. SavesFit' /\ RecentsFit'
    <2>1. CASE ~starts
      <3>1. NoneNew("persist")
        BY <1>15, <1>16, <1>20, <2>1 DEF NoneNew
      <3>2. UNCHANGED persist
        BY <1>7, <1>16, <2>1
      <3> QED
        BY <1>0, <1>1, <1>12, <1>13, <3>1, <3>2, SavesApart, RecentsApart
    <2>2. CASE starts
      <3>1. /\ persist.inFlight = None /\ persist.pending # None
            /\ persist.pending = [root |-> opened.root, hidden |-> opened.hidden]
        BY <1>0, <1>11, <2>2 DEF SavesFit
      <3>2. \A new \in jobs' : new.kind = "persist" =>
              new \in Files!Persisting(persist, p, persist.pending)
        <4>1. \A new \in jobs : new.kind # "persist"
          BY <1>0, <3>1 DEF SavesFit
        <4> QED
          BY <1>15, <1>20, <4>1
      <3>3. Undisturbed' => /\ Distinct(recentFile)
                            /\ Has(persist.queue, opened.root) \/ Has(recentFile, opened.root)
        BY <1>0, <1>1, <3>1 DEF RecentsFit, Undisturbed, Has
      <3>4. persist' = Files!StartPersistence(persist, persist.pending) /\ persist' = p
        BY <1>7, <2>2
      <3> HIDE DEF p
      <3> QED
        BY <1>0, <1>1, <1>12, <1>13, <3>1, <3>2, <3>3, <3>4, SaveStarted
    <2> QED
      BY <2>1, <2>2
  <1>26. SearchedFits' /\ MutatingFits'
    BY <1>0, <1>1, <1>13, <1>21, SearchedApart, MutatingApart
  <1>27. FilesState'
    BY <1>0, <1>1, <1>7, <1>9, <1>12, <1>14, <1>16, <1>24 DEF FilesState, Optional
  <1>28. WorkNeedsOpen'
    BY <1>0, <1>1, <1>13, OpenApart
  <1> QED
    BY <1>22, <1>23, <1>24, <1>25, <1>26, <1>27, <1>28 DEF FilesFit, FilesTypes

Outcomes == {"ok", "failed"}

\* What remains of a save when it is done.
LEMMA SaveDoneIs ==
    ASSUME NEW p \in Persists, NEW list \in Seq(Roots), NEW last \in Outcomes
    PROVE  LET d == [p EXCEPT !.inFlight = None, !.active = <<>>, !.last = last, !.queue = list] IN
           /\ d \in Persists /\ d.inFlight = None /\ d.active = << >> /\ d.last = last
           /\ d.queue = list /\ d.pending = p.pending /\ d.generation = p.generation
  <1> DEFINE a == [p EXCEPT !.inFlight = None]
             b == [a EXCEPT !.active = <<>>]
             c == [b EXCEPT !.last = last]
             d == [c EXCEPT !.queue = list]
  <1>1. d = [p EXCEPT !.inFlight = None, !.active = <<>>, !.last = last, !.queue = list]
    BY DEF Persists
  <1>2. a \in Persists /\ a.inFlight = None /\ a.pending = p.pending /\ a.generation = p.generation
    BY DEF Persists, Optional
  <1> HIDE DEF a
  <1>3. /\ b \in Persists /\ b.inFlight = None /\ b.active = << >> /\ b.pending = p.pending
        /\ b.generation = p.generation
    <2>1. << >> \in Seq(Roots)
      OBVIOUS
    <2> QED
      BY <1>2, <2>1 DEF Persists
  <1> HIDE DEF b
  <1>4. /\ c \in Persists /\ c.inFlight = None /\ c.active = << >> /\ c.last = last
        /\ c.pending = p.pending /\ c.generation = p.generation
    BY <1>3 DEF Persists, Outcomes
  <1> HIDE DEF c
  <1>5. /\ d \in Persists /\ d.inFlight = None /\ d.active = << >> /\ d.last = last
        /\ d.queue = list /\ d.pending = p.pending /\ d.generation = p.generation
    BY <1>4 DEF Persists
  <1> HIDE DEF d
  <1> QED
    BY <1>1, <1>5

\* WorkspacePersisted keeps the invariant.
LEMMA PersistedFits ==
    ASSUME FilesFit, NEW job \in jobs, Files!WorkspacePersisted(job)
    PROVE  FilesFit'
  <1>0. /\ FilesState /\ JobsTyped /\ WorkNeedsOpen /\ RefreshRuns /\ ListsNewest /\ QuickFits
        /\ SearchedFits /\ SavesFit /\ MutatingFits /\ RecentsFit /\ IsJob(job)
        /\ opened \in Openings /\ opened # None /\ failed \subseteq Errors
        /\ persist \in Persists
        /\ job.kind = "persist" /\ job.result # None
    BY DEF FilesFit, FilesTypes, FilesState, JobsTyped, WorkNeedsOpen, Optional,
           Files!WorkspacePersisted
  <1>1. UNCHANGED <<tree, saved, recentFile, opened, explorer, listing, listingRevision, refresh,
                    watch, quick, search, chooser, recents, used>>
    BY DEF Files!WorkspacePersisted, Files!storeVars, Files!listVars
  <1>2. job \in PersistJobs
    BY <1>0, JobIs
  <1>3. job.recents \in Seq(Roots) /\ persist.queue \in Seq(Roots) /\ opened.root \in Roots
    BY <1>0, <1>2, OpenedIs DEF PersistJobs, Persists
  <1> DEFINE ok == job.result.ok
             last == IF ok THEN "ok" ELSE "failed"
             list == IF ok THEN persist.queue
                     ELSE Files!RequeueRecents(persist.queue, job.recents)
             done == [persist EXCEPT !.inFlight = None, !.active = <<>>, !.last = last,
                                     !.queue = list]
             p == IF persist.pending # None
                  THEN Files!StartPersistence(done, persist.pending) ELSE done
  <1>4. persist' = p /\ jobs' = (jobs \ {job}) \cup Files!Persisting(done, p, persist.pending)
    BY DEF Files!WorkspacePersisted
  <1>5. /\ list \in Seq(Roots)
        /\ \A x \in Roots : Has(persist.queue, x) => Has(list, x)
        /\ ~ok => \A x \in Roots : Has(job.recents, x) => Has(list, x)
    BY <1>3, RequeueIs
  <1>6. last \in {"ok", "failed"} /\ (last = "ok" => ok)
    OBVIOUS
  <1> HIDE DEF ok, last, list
  <1>7. /\ done \in Persists /\ done.inFlight = None /\ done.active = << >> /\ done.last = last
        /\ done.queue = list /\ done.pending = persist.pending
        /\ done.generation = persist.generation
    <2>1. persist \in Persists /\ list \in Seq(Roots) /\ last \in Outcomes
      BY <1>0, <1>5, <1>6 DEF Outcomes
    <2> QED
      BY <2>1, SaveDoneIs
  <1> HIDE DEF done
  <1>8. persist.pending # None =>
          /\ persist.pending = [root |-> opened.root, hidden |-> opened.hidden]
          /\ persist.pending \in States
    BY <1>0 DEF SavesFit, Persists, Optional
  <1>9. /\ p \in Persists
        /\ \A new \in Files!Persisting(done, p, persist.pending) :
             new \in PersistJobs /\ new.kind = "persist"
        /\ persist.pending = None => p = done /\ Files!Persisting(done, p, persist.pending) = {}
    <2>1. persist.pending = None => p = done /\ Files!Persisting(done, p, persist.pending) = {}
      BY DEF Files!Persisting
    <2>2. CASE persist.pending # None
      <3>1. p \in Persists
        BY <1>7, <1>8, <2>2, StartPersistenceIs
      <3> HIDE DEF p
      <3> QED
        BY <1>7, <1>8, <2>2, <3>1, PersistingIs
    <2> HIDE DEF p
    <2> QED
      BY <1>7, <2>1, <2>2
  <1>10. /\ SameRoot /\ NoneNew("refresh") /\ NoneNew("debounce") /\ NoneNew("search")
         /\ NoneNew("locate") /\ NoneNew("recent")
    BY <1>1, <1>4, <1>9 DEF SameRoot, NoneNew
  <1>11. \A new \in jobs' : new.kind = "persist" =>
           new \in Files!Persisting(done, p, persist.pending)
    BY <1>0, <1>4 DEF SavesFit
  <1>12. Undisturbed => /\ Distinct(recentFile)
                        /\ Has(done.queue, opened.root) \/ Has(recentFile, opened.root)
    <2> SUFFICES ASSUME Undisturbed
                 PROVE  /\ Distinct(recentFile)
                        /\ Has(done.queue, opened.root) \/ Has(recentFile, opened.root)
      OBVIOUS
    <2>1. /\ Distinct(recentFile) /\ Recording(job)
          /\ \/ Has(persist.queue, opened.root) \/ Has(persist.active, opened.root)
             \/ Has(recentFile, opened.root)
      BY <1>0 DEF RecentsFit
    <2>2. CASE Has(persist.active, opened.root)
      <3>1. Has(job.recents, opened.root)
        BY <2>1, <2>2 DEF Recording
      <3>2. ok => Has(recentFile, opened.root)
        BY <1>0, <1>3, <2>1, <3>1 DEF Recording, ok
      <3> QED
        BY <1>3, <1>5, <1>7, <2>1, <3>1, <3>2
    <2>3. CASE ~Has(persist.active, opened.root)
      BY <1>3, <1>5, <1>7, <2>1, <2>3
    <2> QED
      BY <2>2, <2>3
  <1>13. Undisturbed' => Undisturbed
    BY <1>1 DEF Undisturbed
  <1>14. SavesFit' /\ RecentsFit'
    <2>1. CASE persist.pending # None
      <3>1. persist' = Files!StartPersistence(done, done.pending) /\ persist' = p
        BY <1>4, <1>7, <2>1
      <3>2. UNCHANGED <<saved, recentFile>> /\ opened'.hidden = opened.hidden
        BY <1>1
      <3> HIDE DEF p
      <3> QED
        BY <1>0, <1>7, <1>8, <1>10, <1>11, <1>12, <1>13, <2>1, <3>1, <3>2, SaveStarted
    <2>2. CASE persist.pending = None
      <3>1. persist' = done
        BY <1>4, <1>9, <2>2
      <3>2. \A new \in jobs' : new.kind # "persist"
        BY <1>9, <1>11, <2>2
      <3>3. Files!SettledIsSaved'
        <4>1. ok => saved[opened.root] = opened.hidden
          <5>1. ok => job.stored
            BY <1>0 DEF SavesFit, ok
          <5>2. job.root = opened.root /\ job.hidden = opened.hidden
            BY <1>0, <2>2 DEF SavesFit
          <5>3. job.stored => saved[job.root] = job.hidden
            BY <1>0 DEF SavesFit
          <5> QED
            BY <5>1, <5>2, <5>3
        <4> QED
          BY <1>1, <1>6, <1>7, <3>1, <4>1 DEF Files!SettledIsSaved
      <3>4. SavesFit'
        BY <1>7, <2>2, <3>1, <3>2, <3>3 DEF SavesFit
      <3>5. RecentsFit'
        BY <1>1, <1>7, <1>12, <1>13, <3>1, <3>2 DEF RecentsFit
      <3> QED
        BY <3>4, <3>5
    <2> QED
      BY <2>1, <2>2
  <1>15. ("refresh" \in failed' <=> "refresh" \in failed) /\ failed' \subseteq Errors
    <2>1. \/ failed' = failed \/ failed' = failed \ {"persistence"}
          \/ failed' = failed \cup {"persistence"}
      BY DEF Files!WorkspacePersisted
    <2> QED
      BY <1>0, <2>1 DEF Errors
  <1>16. persist' \in Persists
    BY <1>4, <1>9
  <1>17. FilesState'
    BY <1>0, <1>1, <1>15, <1>16 DEF FilesState
  <1>18. JobsTyped'
    BY <1>0, <1>4, <1>9 DEF JobsTyped, IsJob
  <1>19. WorkNeedsOpen'
    BY <1>0, <1>1, <1>10, OpenApart
  <1>20. RefreshRuns' /\ ListsNewest' /\ QuickFits' /\ SearchedFits' /\ MutatingFits'
    BY <1>0, <1>1, <1>10, <1>15, RefreshApart, QuickApart, SearchedApart, MutatingApart
  <1> QED
    BY <1>14, <1>17, <1>18, <1>19, <1>20 DEF FilesFit, FilesTypes

-----------------------------------------------------------------------------
(* The first state, and every step.                                         *)

\* The invariant holds before any workspace is open.
LEMMA FilesInitFits ==
    ASSUME Files!WorkspaceInit
    PROVE  FilesFit
  <1>1. /\ tree = [r \in Roots |-> 0] /\ saved = [r \in Roots |-> None]
        /\ recentFile \in {<<>>} \cup {<<r>> : r \in Roots}
        /\ opened = None /\ explorer = FALSE /\ listing = None /\ listingRevision = 0
        /\ refresh = [generation |-> 0, inFlight |-> None, pending |-> FALSE]
        /\ failed = {}
        /\ watch = [root |-> None, queue |-> <<>>, lost |-> FALSE, acknowledged |-> FALSE]
        /\ quick = [visible |-> FALSE, ignored |-> FALSE, generation |-> 0, scan |-> None,
                    cache |-> None, results |-> None]
        /\ search = [query |-> None, ignored |-> FALSE, generation |-> 0, results |-> None]
        /\ persist = [generation |-> 0, inFlight |-> None, pending |-> None, active |-> <<>>,
                      queue |-> <<>>, last |-> "none"]
        /\ chooser = [opening |-> FALSE, mutating |-> FALSE, manual |-> FALSE]
        /\ recents = <<>>
        /\ jobs = {[kind |-> "boot", result |-> None]}
        /\ used = [k \in Files!Kinds |-> 0]
    BY DEF Files!WorkspaceInit
  <1>2. \A T : << >> \in Seq(T) /\ Len(<< >>) = 0
    OBVIOUS
  <1>3. recentFile \in Seq(Roots) /\ Len(recentFile) <= RecentLimit /\ Distinct(recentFile)
    <2>1. CASE recentFile = << >>
      BY <1>2, <2>1, FilesAssumption DEF Distinct
    <2>2. ASSUME NEW r \in Roots, recentFile = <<r>>
          PROVE  recentFile \in Seq(Roots) /\ Len(recentFile) = 1 /\ Distinct(recentFile)
      BY <2>2 DEF Distinct
    <2>3. 1 <= RecentLimit
      BY FilesAssumption
    <2> QED
      BY <1>1, <2>1, <2>2, <2>3
  <1>4. watch \in Watches /\ Len(watch.queue) <= EventCapacity
    <2>1. watch \in Watches /\ watch.queue = << >>
      BY <1>1, <1>2 DEF Watches, Optional
    <2> QED
      BY <1>2, <2>1, FilesAssumption
  <1>5. persist \in Persists
    BY <1>1, <1>2 DEF Persists, Optional
  <1>6. refresh \in Refreshes /\ chooser \in Choosers
    BY <1>1 DEF Refreshes, Choosers, Optional
  <1>7. quick \in Quicks /\ search \in Searches
    BY <1>1 DEF Quicks, Searches, Optional
  <1>8. FilesState
    <2>1. tree \in [Roots -> Nat] /\ saved \in [Roots -> Optional(BOOLEAN)]
      BY <1>1 DEF Optional
    <2>2. used \in [Files!Kinds -> Nat] /\ recents \in Seq(Roots) /\ failed \subseteq Errors
      BY <1>1, <1>2
    <2>3. opened \in Optional(Openings) /\ listing \in Optional(Listings)
      BY <1>1 DEF Optional
    <2> QED
      BY <1>1, <1>3, <1>4, <1>5, <1>6, <1>7, <2>1, <2>2, <2>3 DEF FilesState
  <1>9. \A job \in jobs : job \in BootJobs /\ job.kind = "boot"
    <2>1. None \in Answers(Seq(Roots))
      BY DEF Answers, Optional
    <2> QED
      BY <1>1, <2>1 DEF BootJobs
  <1>10. JobsTyped
    BY <1>9 DEF JobsTyped, IsJob
  <1>11. WorkNeedsOpen
    BY <1>1, <1>9 DEF WorkNeedsOpen
  <1>12. RefreshRuns /\ ListsNewest
    BY <1>1, <1>9 DEF RefreshRuns, ListsNewest
  <1>13. QuickFits /\ SearchedFits
    BY <1>1, <1>9 DEF QuickFits, SearchedFits, Files!QuickOpenIsCurrent, Files!SearchIsCurrent
  <1>14. SavesFit
    BY <1>1, <1>9 DEF SavesFit, Files!SettledIsSaved
  <1>15. MutatingFits /\ RecentsFit
    BY <1>1, <1>3, <1>9 DEF MutatingFits, RecentsFit
  <1> QED
    BY <1>8, <1>10, <1>11, <1>12, <1>13, <1>14, <1>15 DEF FilesFit, FilesTypes

\* The steps of the other parts keep the invariant.
LEMMA FilesRestFits ==
    ASSUME FilesFit, UNCHANGED filesPart
    PROVE  FilesFit'
  <1>0. /\ MutatingFits /\ chooser \in Choosers /\ recents \in Seq(Roots)
        /\ failed \subseteq Errors /\ used \in [Files!Kinds -> Nat]
    BY DEF FilesFit, FilesTypes, FilesState
  <1>1. UNCHANGED <<tree, saved, recentFile, opened, explorer, listing, listingRevision, refresh,
                    watch, quick, search, persist, failed, recents, chooser, jobs, used>>
    BY DEF filesPart
  <1>2. MutatingFits'
    BY <1>0, <1>1 DEF MutatingFits
  <1> QED
    BY <1>0, <1>1, <1>2, CalmIs

\* Every step of the files keeps the invariant.
LEMMA FilesStepFits ==
    ASSUME FilesFit, Files!WorkspaceNext
    PROVE  FilesFit'
  <1>1. CASE Files!Outside
    BY <1>1, OutsideFits
  <1>2. ASSUME NEW job \in jobs, Files!Work(job)
        PROVE  FilesFit'
    BY <1>2, RunScanFits, RunOpenFits, LoadRecentFits, WriteRecentFits, StoreStateFits
       DEF Files!Work
  <1>3. CASE Files!UserMessages
    BY <1>3, OpenFolderFits, RetryRecentFits, ToggleHiddenFits, RemoveRecentFits, ToggleQuickFits,
       ToggleQuickIgnoredFits, SearchChangedFits DEF Files!UserMessages
  <1>4. CASE Files!PollWatcher \/ Files!DrainObsolete
    BY <1>4, PollFits
  <1>5. CASE Files!AcknowledgeLoss
    BY <1>5, AcknowledgeFits
  <1>6. ASSUME NEW job \in jobs, Files!JobMessages(job)
        PROVE  FilesFit'
    BY <1>6, FolderPickedFits, RecentLoadedFits, OpenedFits, OpenFailedFits, RefreshedFits,
       PersistedFits, RecentLocatedFits, RecentUpdatedFits, QuickLoadedFits, DebouncedFits,
       SearchCompletedFits DEF Files!JobMessages
  <1> QED
    BY <1>1, <1>2, <1>3, <1>4, <1>5, <1>6 DEF Files!WorkspaceNext

\* A set whose elements are all the same has at most one.
LEMMA AtMostOne ==
    ASSUME NEW S, \A x, y \in S : x = y
    PROVE  Cardinality(S) <= 1
  <1>1. CASE S = {}
    BY <1>1, FS_EmptySet
  <1>2. CASE S # {}
    <2>1. PICK x : S = {x}
      BY <1>2
    <2> QED
      BY <2>1, FS_Singleton
  <1> QED
    BY <1>1, <1>2

\* The instance of the files counts as the library does.
LEMMA FilesCardinality ==
    ASSUME NEW S
    PROVE  Files!Cardinality(S) = Cardinality(S)
  BY DEF Files!Cardinality, Cardinality

\* The invariant holds in every state, whichever part acts.
LEMMA FilesAlwaysFit ==
    MCSpec => []FilesFit
  <1>1. MCInit => FilesFit
    BY FilesInitFits DEF MCInit
  <1>2. FilesFit /\ [MCNext]_allVars => FilesFit'
    <2> SUFFICES ASSUME FilesFit, [MCNext]_allVars
                 PROVE  FilesFit'
      OBVIOUS
    <2>1. CASE FilesAct
      BY <2>1, FilesStepFits DEF FilesAct
    <2>2. CASE UNCHANGED filesPart
      BY <2>2, FilesRestFits
    <2>3. CASE UNCHANGED allVars
      <3>1. UNCHANGED filesPart
        BY <2>3 DEF allVars
      <3> QED
        BY <3>1, FilesRestFits
    <2> QED
      BY <2>1, <2>2, <2>3 DEF MCNext, ExplorerActs, LayoutActs, ShellActs, ScreenActs, SearchActs,
         DrainActs
  <1> QED
    BY <1>1, <1>2, PTL DEF MCSpec

-----------------------------------------------------------------------------
(* The theorems.                                                            *)

\* Whatever changes outside, and whatever jobs and watcher events are late, lost or overtaken:
\* with no event and no listing on its way the explorer shows the folder as it is with the
\* present options, and no answer of an older query, option or root is shown.
THEOREM NothingStale ==
    MCSpec => []NothingStaleIsShown
  <1>1. FilesFit => NothingStaleIsShown
    <2> SUFFICES ASSUME FilesFit
                 PROVE  NothingStaleIsShown
      OBVIOUS
    <2>0. /\ FilesState /\ RefreshRuns /\ ListsNewest /\ QuickFits
          /\ SearchedFits /\ SavesFit /\ MutatingFits
      BY DEF FilesFit, FilesTypes
    <2>1. Files!WorkspaceTypeOK
      <3>1. Cardinality({j \in jobs : j.kind = "persist"}) <= 1
        BY <2>0, AtMostOne DEF SavesFit
      <3>2. Cardinality({j \in jobs : j.kind = "refresh"}) <= 1
        BY <2>0, AtMostOne DEF RefreshRuns
      <3>3. Cardinality({j \in jobs : j.kind \in {"locate", "recent"}}) <= 1
        BY <2>0, AtMostOne DEF MutatingFits
      <3> QED
        BY <2>0, <3>1, <3>2, <3>3, FilesCardinality DEF FilesState, Errors, Files!WorkspaceTypeOK
    <2>2. Files!FilesAreCurrent
      BY <2>0 DEF ListsNewest, Heard, Newest, Files!FilesAreCurrent
    <2> QED
      BY <2>0, <2>1, <2>2 DEF QuickFits, SearchedFits, NothingStaleIsShown
  <1> QED
    BY <1>1, FilesAlwaysFit, PTL

\* With no save running or failed the store has the present state of the open workspace, and an
\* opened workspace is in the recent list or queued for it, when the list has room.
THEOREM StoreKeepsUp ==
    MCSpec => []StoreCatchesUp
  <1>1. FilesFit => StoreCatchesUp
    <2> SUFFICES ASSUME FilesFit
                 PROVE  StoreCatchesUp
      OBVIOUS
    <2>1. Files!SettledIsSaved
      BY DEF FilesFit, SavesFit
    <2>2. Files!RecentsAreKept
      <3> SUFFICES ASSUME opened # None, used["recent"] = 0, Cardinality(Roots) <= RecentLimit
                   PROVE  opened.root \in Files!ToSet(persist.queue) \cup
                            Files!ToSet(persist.active) \cup Files!ToSet(recentFile)
        BY FilesCardinality DEF Files!RecentsAreKept
      <3>1. \/ Has(persist.queue, opened.root) \/ Has(persist.active, opened.root)
            \/ Has(recentFile, opened.root)
        BY DEF FilesFit, RecentsFit, Undisturbed
      <3>2. \A q, x : Has(q, x) => x \in Files!ToSet(q)
        BY DEF Has, Files!ToSet
      <3> QED
        BY <3>1, <3>2
    <2> QED
      BY <2>1, <2>2 DEF StoreCatchesUp
  <1> QED
    BY <1>1, FilesAlwaysFit, PTL
=============================================================================
