-------------------------- MODULE CatalogMutations --------------------------
(***************************************************************************)
(* The session catalog under every sequence of mutations: what a client    *)
(* asks for, and the lifecycle the service reports for its panes.          *)
(***************************************************************************)
EXTENDS CatalogRequests

CONSTANTS
    Lifecycles,     \* bound: the lifecycles the service reports in this run
    MaxGeneration   \* bound: no pane is started more often

vars == <<catalog, used>>

Init ==
    /\ catalog = EmptyCatalog
    /\ used = [session |-> {}, window |-> {}, pane |-> {}]

\* A pane is started: begin_start and finish_start.
Start(pane) ==
    /\ pane \in PanesIn(catalog)
    /\ PaneOf(catalog, pane).generation < MaxGeneration
    /\ \E lifecycle \in Lifecycles :
           LET begun == BeginGeneration(catalog, {pane}) IN
           catalog' = SetLifecycle(begun, [p \in {pane} |->
               [generation |-> PaneOf(begun, p).generation, lifecycle |-> lifecycle]])
    /\ UNCHANGED used

\* The service reports a lifecycle, of this generation or of an older one.
Report(pane) ==
    /\ pane \in PanesIn(catalog)
    /\ \E generation \in 1..PaneOf(catalog, pane).generation, lifecycle \in Lifecycles :
           catalog' = SetLifecycle(catalog, [p \in {pane} |->
               [generation |-> generation, lifecycle |-> lifecycle]])
    /\ UNCHANGED used

Next == Enlarge \/ Rearrange \/ \E pane \in PaneIds : Start(pane) \/ Report(pane)

Spec == Init /\ [][Next]_vars

-----------------------------------------------------------------------------
(* Properties.                                                              *)

\* The split trees really are trees, on top of what validate() looks at: of every
\* split on the way to a leaf both branches lead to leaves.
WellFormed(root) ==
    \A path \in DOMAIN root : \A k \in 0..(Len(path) - 1), b \in {0, 1} :
        \E leaf \in DOMAIN root : IsPrefix(Append(SubSeq(path, 1, k), b), leaf)

TypeOK ==
    /\ \A window \in Windows(catalog) :
         /\ window.id \in WindowIds
         /\ DOMAIN window.root \subseteq Path /\ WellFormed(window.root)
         /\ \A p \in DOMAIN window.panes :
              window.panes[p] \in [generation : 0..MaxGeneration, lifecycle : States]
    /\ used \in [session : SUBSET SessionIds, window : SUBSET WindowIds,
                 pane : SUBSET PaneIds]

\* Every sequence of mutations leaves a catalog that validate() accepts.  The
\* service depends on it: take_persistence() fails on an invalid catalog and the
\* service ends, and close_pane, which validates only after it has changed the
\* window, would return its error with half of the change made.
AlwaysValid == ValidCatalog(catalog)

LivePanes(c) == {p \in PanesIn(c) : PaneOf(c, p).lifecycle \in LiveStates}

\* No mutation takes a live pane out of the catalog: close_pane, close_window and
\* remove_session are refused while a pane they would remove is live.
LiveIsNeverRemoved == [][LivePanes(catalog) \subseteq PanesIn(catalog')]_vars

\* The panes of a window from left to right, or from top to bottom.
Before(root, p, q) ==
    LET a == PathTo(root, p)
        b == PathTo(root, q)
        k == Len(LongestCommonPrefix({a, b}))
    IN  a[k + 1] < b[k + 1]

\* Splitting and closing keep the other panes of the window in their order: the
\* sibling's whole branch moves up, and nothing in it is exchanged.
OrderIsKept ==
    [][\A old \in Windows(catalog) : \A new \in Windows(catalog') :
         old.id = new.id /\ old.root # new.root =>
             \A p, q \in DOMAIN old.panes \cap DOMAIN new.panes :
                 (p # q /\ Before(old.root, p, q)) => Before(new.root, p, q)]_vars

=============================================================================
