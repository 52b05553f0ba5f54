---------------------------- MODULE ContentSearch ---------------------------
(***************************************************************************)
(* Discovery and content search of a workspace (strukt-fs discovery.rs and *)
(* search.rs), one directory entry and one file at a time, while programs  *)
(* outside change the files and the user may cancel.                       *)
(*                                                                         *)
(* The tree has a fixed set of paths under the root and one directory D;   *)
(* an entry may be absent, a file or a symbolic link.  An ignore file      *)
(* gives each path a verdict; a file's one line has the needle or not, or  *)
(* is binary; sizes are small numbers.  Directory capabilities confine     *)
(* every open to the opened directory, so a path is the entry it names.    *)
(***************************************************************************)
EXTENDS Naturals, Sequences, SequencesExt, FiniteSets

CONSTANTS None, D,
          RootEntries, DirEntries,   \* listings in order of name
          Hidden, Heavy,             \* paths with a dot, or under target, node_modules, .git
          RootRules, DirRules,       \* verdict of the ignore files of the root and of D
          MaxEntries, MaxFileBytes, MaxResults, TotalBudget,
          MaxChanges                 \* bound: changes outside

VARIABLES tree,       \* path -> the entry there
          touched,    \* paths changed since the search began
          options,    \* show_hidden, show_ignored
          cancelled,
          todo,       \* entries the walk has still to look at, inner directory first
          entries, truncated,              \* CapabilityDiscovery
          queue, budget, matches, incomplete,  \* search_content_inner
          file,       \* the file being read: what its open found
          phase, changes

searchVars == <<tree, touched, options, cancelled, todo, entries, truncated, queue,
                budget, matches, incomplete, file, phase, changes>>
walkVars == <<todo, entries, truncated>>
readVars == <<queue, budget, matches, incomplete, file>>

TreePaths == Range(RootEntries) \cup Range(DirEntries)
Entry == [kind : {"absent", "file", "symlink", "directory"},
          text : {"plain", "match", "binary"}, size : 1..MaxFileBytes + 1]
-----------------------------------------------------------------------------
(* Outside.                                                                *)

\* A file is written, removed or replaced by a link; the directory may vanish.
OutsideChanges ==
    /\ changes < MaxChanges
    /\ changes' = changes + 1
    /\ \E path \in TreePaths, entry \in Entry :
         /\ (entry.kind = "directory") => path = D
         /\ path = D => entry.kind \in {"absent", "directory"}
         /\ entry.kind # "file" => entry.text = "plain" /\ entry.size = 1
         /\ tree' = [tree EXCEPT ![path] = entry]
         /\ touched' = touched \cup {path} \cup (IF path = D THEN Range(DirEntries) ELSE {})
    /\ UNCHANGED <<options, cancelled, phase>> /\ UNCHANGED walkVars /\ UNCHANGED readVars

Cancel ==
    /\ phase \in {"walk", "search"}
    /\ ~cancelled
    /\ cancelled' = TRUE
    /\ UNCHANGED <<tree, touched, options, phase, changes>> /\ UNCHANGED walkVars /\ UNCHANGED readVars
-----------------------------------------------------------------------------
(* discover_report_for_root_inner and walk_capability.                     *)

\* A path exists when its directory does.
At(path) ==
    IF path \in Range(DirEntries) /\ tree[D].kind = "absent"
      THEN [kind |-> "absent", text |-> "plain", size |-> 1] ELSE tree[path]

\* The elements of a sequence that are in a set, in order.
Among(seq, set) ==
    LET upTo[n \in 0..Len(seq)] ==
            IF n = 0 THEN << >>
            ELSE IF seq[n] \in set THEN Append(upTo[n - 1], seq[n]) ELSE upTo[n - 1]
    IN  upTo[Len(seq)]
Listing(order) == Among(order, {path \in TreePaths : At(path).kind # "absent"})

\* The verdict of the outermost ignore file.
IgnoredByOuter(path) ==
    IF RootRules[path] # "none" THEN RootRules[path] = "ignore" ELSE DirRules[path] = "ignore"

\* ignored_by: the innermost ignore file with a verdict decides.
IgnoredBy(path) ==
    IF path \in Range(DirEntries) /\ DirRules[path] # "none" THEN DirRules[path] = "ignore"
    ELSE RootRules[path] = "ignore"
Skipped(path) ==
    \/ ~options.hidden /\ path \in Hidden
    \/ ~options.ignored /\ (IgnoredBy(path) \/ path \in Heavy)

BeginSearch(hidden, ignored) ==
    /\ phase = "idle"
    /\ phase' = "walk"
    /\ options' = [hidden |-> hidden, ignored |-> ignored]
    /\ cancelled' = FALSE
    /\ touched' = {}
    /\ todo' = Listing(RootEntries)
    /\ entries' = << >>
    /\ truncated' = FALSE
    /\ queue' = << >> /\ budget' = TotalBudget /\ matches' = << >>
    /\ incomplete' = FALSE /\ file' = None
    /\ UNCHANGED <<tree, changes>>

Fails == phase' = "failed" /\ UNCHANGED <<tree, touched, options, cancelled, changes>>

\* One entry: the entry bound ends the walk, a hidden or ignored one is passed over, a
\* directory's own listing comes next; one that vanished fails the walk.
WalkEntry ==
    /\ phase = "walk" /\ ~cancelled /\ todo # << >>
    /\ IF Len(entries) = MaxEntries
         THEN truncated' = TRUE /\ todo' = << >> /\ UNCHANGED entries
         ELSE LET path == Head(todo)
              IN IF Skipped(path)
                   THEN todo' = Tail(todo) /\ UNCHANGED <<entries, truncated>>
                   ELSE /\ path = D => At(D).kind = "directory"
                        /\ entries' = Append(entries, [path |-> path, kind |-> At(path).kind])
                        /\ todo' = (IF path = D THEN Listing(DirEntries) ELSE << >>) \o Tail(todo)
                        /\ UNCHANGED truncated
    /\ UNCHANGED <<tree, touched, options, cancelled, phase, changes>> /\ UNCHANGED readVars
WalkFails ==
    /\ phase = "walk"
    /\ \/ cancelled
       \/ /\ todo # << >> /\ Head(todo) = D /\ ~Skipped(D)
          /\ Len(entries) < MaxEntries /\ At(D).kind # "directory"
    /\ Fails
    /\ UNCHANGED walkVars /\ UNCHANGED readVars

\* search_content_inner after the discovery: its files, in order.
WalkDone ==
    /\ phase = "walk" /\ ~cancelled /\ todo = << >>
    /\ phase' = "search"
    /\ queue' = Among(entries, [path : TreePaths, kind : {"file"}])
    /\ incomplete' = truncated
    /\ UNCHANGED <<tree, touched, options, cancelled, budget, matches, file, changes>>
    /\ UNCHANGED walkVars
-----------------------------------------------------------------------------
(* search_content_inner.                                                   *)

Limit == IF MaxFileBytes <= budget THEN MaxFileBytes ELSE budget

Searching == phase = "search" /\ ~cancelled
Keep == UNCHANGED <<tree, touched, options, cancelled, changes>> /\ UNCHANGED walkVars

\* symlink_metadata, open without following links, and metadata of the open file: what is
\* gone, no regular file or too large is skipped and makes the result incomplete.
\* The same, skipping a large file quietly.
SkipsQuietly(entry) == IF entry.kind = "file" THEN incomplete ELSE TRUE
SkipsAs(entry) == TRUE
OpenFile ==
    /\ Searching /\ file = None /\ queue # << >> /\ budget > 0
    /\ LET path == Head(queue).path
           entry == At(path)
       IN IF entry.kind # "file" \/ entry.size > Limit
            THEN /\ incomplete' = SkipsAs(entry)
                 /\ queue' = Tail(queue)
                 /\ UNCHANGED file
            ELSE /\ file' = path
                 /\ UNCHANGED <<incomplete, queue>>
    /\ UNCHANGED <<phase, budget, matches>>
    /\ Keep

\* The read takes what is there now, one byte past the limit at most; a file that grew
\* past it, binary content and invalid text are skipped; a needle past the bound of
\* results ends the search.  A file removed after its open is still read.
ReadFile ==
    /\ Searching /\ file # None
    /\ \E entry \in {At(file)} \cup (IF file \in touched THEN Entry ELSE {}) :
         /\ entry.kind = "file"
         /\ LET read == IF entry.size <= Limit THEN entry.size ELSE Limit + 1
                skipped == read > Limit \/ entry.text = "binary"
                found == ~skipped /\ entry.text = "match"
            IN /\ budget' = IF read >= budget THEN 0 ELSE budget - read
               /\ IF found /\ Len(matches) = MaxResults
                    THEN phase' = "done" /\ incomplete' = TRUE /\ UNCHANGED matches
                    ELSE /\ incomplete' = (incomplete \/ skipped)
                         /\ matches' = IF found THEN Append(matches, file) ELSE matches
                         /\ UNCHANGED phase
    /\ file' = None
    /\ queue' = Tail(queue)
    /\ Keep

\* The end of the files or of the budget: an exhausted budget always counts as incomplete.
SearchDone ==
    /\ Searching /\ file = None
    /\ queue = << >> \/ budget = 0
    /\ phase' = "done"
    /\ incomplete' = (incomplete \/ budget = 0)
    /\ UNCHANGED <<queue, budget, matches, file>>
    /\ Keep
\* Cancelled, or the file was replaced between its metadata and its open.
SearchFails ==
    /\ phase = "search"
    /\ cancelled \/ (file = None /\ queue # << >> /\ budget > 0 /\ Head(queue).path \in touched)
    /\ Fails
    /\ UNCHANGED walkVars /\ UNCHANGED readVars
-----------------------------------------------------------------------------
SearchInit ==
    /\ \E found \in [TreePaths \ {D} -> {entry \in Entry : entry.kind = "file"}] :
         tree = [path \in TreePaths |->
                   IF path = D THEN [kind |-> "directory", text |-> "plain", size |-> 1]
                   ELSE found[path]]
    /\ touched = {}
    /\ options = [hidden |-> FALSE, ignored |-> FALSE]
    /\ cancelled = FALSE
    /\ todo = << >> /\ entries = << >> /\ truncated = FALSE
    /\ queue = << >> /\ budget = TotalBudget /\ matches = << >>
    /\ incomplete = FALSE /\ file = None
    /\ phase = "idle"
    /\ changes = 0

SearchNext ==
    \/ OutsideChanges
    \/ Cancel
    \/ \E hidden, ignored \in BOOLEAN : BeginSearch(hidden, ignored)
    \/ WalkEntry \/ WalkFails \/ WalkDone
    \/ OpenFile \/ ReadFile \/ SearchDone \/ SearchFails

SearchSpec == SearchInit /\ [][SearchNext]_searchVars
-----------------------------------------------------------------------------
\* Type invariant.
SearchTypeOK ==
    /\ tree \in [TreePaths -> Entry]
    /\ touched \subseteq TreePaths
    /\ Len(entries) <= MaxEntries /\ Len(matches) <= MaxResults
    /\ budget \in 0..TotalBudget
    /\ Range(matches) \subseteq TreePaths
    /\ phase \in {"idle", "walk", "search", "done", "failed"}

\* A result that does not say it is incomplete has every match: each file with the needle
\* that the options show and that nobody touched during the search is in it, however the
\* bounds on entries, sizes, bytes and results fell.
CompleteOrSaysSo ==
    phase = "done" /\ ~incomplete =>
        \A path \in TreePaths \ touched :
            At(path).kind = "file" /\ At(path).text = "match"
              /\ ~Skipped(path) /\ (path \in Range(DirEntries) => ~Skipped(D) /\ D \notin touched)
            => path \in Range(matches)

\* A path that the rules of its own directory show is searched although an outer rule hides
\* it, and one they hide is never found: the innermost ignore file decides.
IgnoreRulesHold ==
    ~options.ignored =>
        \A path \in Range(matches) :
            path \notin Heavy
              /\ IF path \in Range(DirEntries) /\ DirRules[path] # "none"
                   THEN DirRules[path] = "whitelist" ELSE RootRules[path] # "ignore"
=============================================================================
