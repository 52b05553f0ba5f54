------------------------- MODULE MCWorkspace_proofs -------------------------
(***************************************************************************)
(* Proofs about the local workspace of the desktop: the layout of the      *)
(* terminal tabs can always be restored and shows the state of its         *)
(* runtime, the shell around it shows what it says it shows, a search      *)
(* result is complete or says it is not, and the drains starve no pane,    *)
(* for any workspaces, panes, messages, files and budgets.                 *)
(***************************************************************************)
EXTENDS MCWorkspace, SequenceTheorems, WellFoundedInduction, TLAPS

-----------------------------------------------------------------------------
(* Sequences and numbers.                                                  *)

\* Of a sequence of m elements, q lacks the i-th one, or has n put before the j-th.
Lacks(q, r, m, i) == \A k \in 1..(m - 1) : q[k] = IF k < i THEN r[k] ELSE r[k + 1]
Gains(q, r, m, j, n) ==
    \A k \in 1..(m + 1) : q[k] = IF k < j THEN r[k] ELSE IF k = j THEN n ELSE r[k - 1]

\* A sequence without its i-th element.
LEMMA RemovedAt ==
    ASSUME NEW S, NEW q \in Seq(S), NEW i \in 1..Len(q)
    PROVE  /\ Layout!RemoveAt(q, i) \in Seq(S)
           /\ Len(Layout!RemoveAt(q, i)) = Len(q) - 1
           /\ Lacks(Layout!RemoveAt(q, i), q, Len(q), i)
  <1> DEFINE before == SubSeq(q, 1, i - 1)
             after == SubSeq(q, i + 1, Len(q))
  <1>1. /\ before \in Seq(S) /\ Len(before) = i - 1
        /\ \A k \in 1..(i - 1) : before[k] = q[k]
    <2>1. \A k \in 1..(i - 1) : q[k] \in S
      OBVIOUS
    <2> QED
      BY <2>1, SubSeqProperties
  <1>2. /\ after \in Seq(S) /\ Len(after) = Len(q) - i
        /\ \A k \in 1..(Len(q) - i) : after[k] = q[k + i]
    <2>1. \A k \in (i + 1)..Len(q) : q[k] \in S
      OBVIOUS
    <2> QED
      BY <2>1, SubSeqProperties
  <1>3. Layout!RemoveAt(q, i) = before \o after
    BY DEF Layout!RemoveAt
  <1> HIDE DEF before, after
  <1> DEFINE rest == before \o after
  <1>4. /\ rest \in Seq(S) /\ Len(rest) = Len(before) + Len(after)
        /\ \A k \in 1..(Len(before) + Len(after)) :
              rest[k] = IF k <= Len(before) THEN before[k] ELSE after[k - Len(before)]
    BY <1>1, <1>2, ConcatProperties
  <1> HIDE DEF rest
  <1>5. Len(rest) = Len(q) - 1
    BY <1>1, <1>2, <1>4
  <1>6. ASSUME NEW k \in 1..(Len(q) - 1)
        PROVE  rest[k] = IF k < i THEN q[k] ELSE q[k + 1]
    <2>1. CASE k < i
      <3>1. k \in 1..(i - 1) /\ k <= Len(before) /\ k \in 1..(Len(before) + Len(after))
        BY <1>1, <1>2, <2>1
      <3> QED
        BY <1>1, <1>4, <2>1, <3>1
    <2>2. CASE ~(k < i)
      <3>1. /\ k - (i - 1) \in 1..(Len(q) - i) /\ ~(k <= Len(before))
            /\ k \in 1..(Len(before) + Len(after)) /\ k - (i - 1) + i = k + 1
            /\ k - Len(before) = k - (i - 1)
        BY <1>1, <1>2, <2>2
      <3>2. rest[k] = after[k - (i - 1)]
        BY <1>4, <3>1
      <3> QED
        BY <1>2, <2>2, <3>1, <3>2
    <2> QED
      BY <2>1, <2>2
  <1> QED
    BY <1>3, <1>4, <1>5, <1>6 DEF rest, Lacks

\* A sequence with an element put before its j-th one.
LEMMA InsertedAt ==
    ASSUME NEW S, NEW q \in Seq(S), NEW j \in 1..(Len(q) + 1), NEW e \in S
    PROVE  /\ Layout!InsertAt(q, j, e) \in Seq(S)
           /\ Len(Layout!InsertAt(q, j, e)) = Len(q) + 1
           /\ Gains(Layout!InsertAt(q, j, e), q, Len(q), j, e)
  <1> DEFINE i == j - 1
             before == SubSeq(q, 1, i)
             after == SubSeq(q, i + 1, Len(q))
  <1>0. i \in Nat /\ Len(q) \in Nat /\ i <= Len(q) /\ j = i + 1
    OBVIOUS
  <1> HIDE DEF i
  <1>1. /\ before \in Seq(S) /\ Len(before) = i
        /\ \A k \in 1..i : before[k] = q[k]
    <2>1. \A k \in 1..i : q[k] \in S
      BY <1>0
    <2> QED
      BY <1>0, <2>1, SubSeqProperties
  <1>2. /\ after \in Seq(S) /\ Len(after) = Len(q) - i
        /\ \A k \in 1..(Len(q) - i) : after[k] = q[k + i]
    <2>1. \A k \in (i + 1)..Len(q) : q[k] \in S
      BY <1>0
    <2> QED
      BY <1>0, <2>1, SubSeqProperties
  <1>3. /\ <<e>> \in Seq(S) /\ Len(<<e>>) = 1 /\ <<e>>[1] = e
    OBVIOUS
  <1>4. Layout!InsertAt(q, j, e) = before \o <<e>> \o after
    <2>1. j - 1 = i /\ i + 1 = j
      BY <1>0
    <2>2. SubSeq(q, 1, j - 1) = before /\ SubSeq(q, j, Len(q)) = after
      BY <2>1
    <2> QED
      BY <2>2 DEF Layout!InsertAt
  <1> HIDE DEF before, after
  <1> DEFINE front == before \o <<e>>
  <1>5. /\ front \in Seq(S) /\ Len(front) = i + 1
        /\ \A k \in 1..(i + 1) : front[k] = IF k <= i THEN q[k] ELSE e
    <2>1. /\ front \in Seq(S) /\ Len(front) = Len(before) + 1
          /\ \A k \in 1..(Len(before) + 1) :
                front[k] = IF k <= Len(before) THEN before[k] ELSE <<e>>[k - Len(before)]
      BY <1>1, <1>3, ConcatProperties
    <2>2. ASSUME NEW k \in 1..(i + 1)
          PROVE  front[k] = IF k <= i THEN q[k] ELSE e
      <3>1. CASE k <= i
        BY <1>1, <2>1, <3>1
      <3>2. CASE k = i + 1
        BY <1>1, <1>3, <2>1, <3>2
      <3>3. k <= i \/ k = i + 1
        BY <1>0
      <3> QED
        BY <3>1, <3>2, <3>3
    <2> QED
      BY <1>1, <2>1, <2>2
  <1> HIDE DEF front
  <1> DEFINE all == front \o after
  <1>6. /\ all \in Seq(S) /\ Len(all) = Len(front) + Len(after)
        /\ \A k \in 1..(Len(front) + Len(after)) :
              all[k] = IF k <= Len(front) THEN front[k] ELSE after[k - Len(front)]
    BY <1>2, <1>5, ConcatProperties
  <1>7. Layout!InsertAt(q, j, e) = all
    BY <1>4 DEF front
  <1> HIDE DEF all
  <1>8. Len(all) = Len(q) + 1
    BY <1>0, <1>2, <1>5, <1>6
  <1>9. ASSUME NEW k \in 1..(Len(q) + 1)
        PROVE  all[k] = IF k <= i THEN q[k] ELSE IF k = i + 1 THEN e ELSE q[k - 1]
    <2>1. CASE k <= i + 1
      <3>1. k \in 1..(i + 1) /\ k <= Len(front) /\ k \in 1..(Len(front) + Len(after))
        BY <1>0, <1>2, <1>5, <2>1
      <3> QED
        BY <1>0, <1>5, <1>6, <2>1, <3>1
    <2>2. CASE ~(k <= i + 1)
      <3>0. /\ Len(front) = i + 1 /\ Len(after) = Len(q) - i
            /\ i \in Nat /\ Len(q) \in Nat /\ k \in Nat /\ k > i + 1 /\ k <= Len(q) + 1
        BY <1>0, <1>2, <1>5, <2>2
      <3>1. /\ k - (i + 1) \in 1..(Len(q) - i) /\ ~(k <= Len(front))
            /\ k \in 1..(Len(front) + Len(after)) /\ k - (i + 1) + i = k - 1
            /\ k - Len(front) = k - (i + 1)
        BY <3>0
      <3>2. all[k] = after[k - (i + 1)]
        BY <1>6, <3>1
      <3>3. after[k - (i + 1)] = q[k - (i + 1) + i]
        BY <1>2, <3>1
      <3>4. all[k] = q[k - 1]
        BY <3>1, <3>2, <3>3
      <3>5. ~(k <= i) /\ k # i + 1
        BY <3>0
      <3> QED
        BY <3>4, <3>5
    <2> QED
      BY <2>1, <2>2
  <1> QED
    <2>1. Gains(all, q, Len(q), j, e)
      BY <1>0, <1>9 DEF Gains
    <2> QED
      BY <1>6, <1>7, <1>8, <2>1

\* A set of numbers with a bound has a greatest one.
LEMMA BoundedHasMax ==
    ASSUME NEW S \in SUBSET Nat, S # {}, NEW bound \in Nat, \A s \in S : s <= bound
    PROVE  Layout!Max(S) \in S /\ \A s \in S : s <= Layout!Max(S)
  <1> DEFINE R == OpToRel(<, Nat)
             above == {b \in Nat : \A s \in S : s <= b}
  <1>1. above \subseteq Nat /\ above # {}
    OBVIOUS
  <1>2. PICK b \in above : \A c \in above : ~(<<c, b>> \in R)
    <2>1. IsWellFoundedOn(R, Nat)
      BY NatLessThanWellFounded
    <2> HIDE DEF above, R
    <2> QED
      BY <1>1, <2>1, WFMin, Zenon
  <1>3. ASSUME NEW c \in above
        PROVE  ~(c < b)
    <2>1. b \in Nat /\ c \in Nat
      BY <1>1
    <2> HIDE DEF above
    <2>2. c < b => <<c, b>> \in R
      BY <2>1 DEF OpToRel
    <2> QED
      BY <1>2, <2>2
  <1>4. b \in S
    <2> SUFFICES ASSUME b \notin S PROVE FALSE
      OBVIOUS
    <2>1. b \in Nat /\ \A s \in S : s \in Nat /\ s < b
      BY <1>1
    <2>2. PICK s \in S : s \in Nat /\ s < b
      BY <2>1
    <2>3. b - 1 \in Nat
      BY <2>1, <2>2
    <2>4. b - 1 \in above
      BY <2>1, <2>3
    <2> QED
      BY <1>3, <2>1, <2>4
  <1>5. \E x \in S : \A y \in S : x >= y
    BY <1>4
  <1> QED
    BY <1>5 DEF Layout!Max

-----------------------------------------------------------------------------
(* The leaves of a tab.                                                    *)

\* Every pane is a leaf once.
IsRoot(r) == r \in Seq(Nat) /\ Layout!IsInjective(r)

LEMMA LeafOfIs ==
    ASSUME NEW r, IsRoot(r), NEW p \in Layout!ToSet(r)
    PROVE  Layout!LeafOf(r, p) \in 1..Len(r) /\ r[Layout!LeafOf(r, p)] = p
  <1>1. PICK i \in 1..Len(r) : r[i] = p
    BY DEF IsRoot, Layout!ToSet
  <1>2. {k \in 1..Len(r) : r[k] = p} = {i}
    BY <1>1 DEF IsRoot, Layout!IsInjective
  <1>3. Layout!LeafOf(r, p) = Layout!Min({i})
    BY <1>2 DEF Layout!LeafOf, Layout!SelectInSeq
  <1>4. Layout!Min({i}) = i
    BY <1>1 DEF Layout!Min
  <1> QED
    BY <1>1, <1>3, <1>4

LEMMA GainedValues ==
    ASSUME NEW m \in Nat, NEW j \in 1..(m + 1), NEW n, NEW r, NEW q, Gains(q, r, m, j, n),
           \A a, b \in 1..m : r[a] = r[b] => a = b, n \notin {r[k] : k \in 1..m}
    PROVE  /\ {q[k] : k \in 1..(m + 1)} = {r[k] : k \in 1..m} \cup {n}
           /\ \A a, b \in 1..(m + 1) : q[a] = q[b] => a = b
  <1>1. /\ \A k \in 1..m : k < j => q[k] = r[k]
        /\ \A k \in 1..m : k >= j => q[k + 1] = r[k] /\ k + 1 \in 1..(m + 1)
        /\ q[j] = n
    BY DEF Gains
  <1>2. \A k \in 1..(m + 1) :
           \/ k \in 1..m /\ k < j /\ q[k] = r[k]
           \/ k = j /\ q[k] = n
           \/ k - 1 \in 1..m /\ k > j /\ q[k] = r[k - 1]
    BY DEF Gains
  <1>3. {q[k] : k \in 1..(m + 1)} \subseteq {r[k] : k \in 1..m} \cup {n}
    BY <1>2
  <1>4. {r[k] : k \in 1..m} \cup {n} \subseteq {q[k] : k \in 1..(m + 1)}
    BY <1>1
  <1>5. ASSUME NEW a \in 1..(m + 1), NEW b \in 1..(m + 1), q[a] = q[b]
        PROVE  a = b
    BY <1>2, <1>5
  <1> QED
    BY <1>3, <1>4, <1>5

LEMMA LackedValues ==
    ASSUME NEW m \in Nat, NEW i \in 1..m, NEW r, NEW q, Lacks(q, r, m, i),
           \A a, b \in 1..m : r[a] = r[b] => a = b
    PROVE  /\ {q[k] : k \in 1..(m - 1)} = {r[k] : k \in 1..m} \ {r[i]}
           /\ \A a, b \in 1..(m - 1) : q[a] = q[b] => a = b
  <1>1. /\ \A k \in 1..m : k < i => q[k] = r[k] /\ k \in 1..(m - 1)
        /\ \A k \in 1..m : k > i => q[k - 1] = r[k] /\ k - 1 \in 1..(m - 1)
    BY DEF Lacks
  <1>2. \A k \in 1..(m - 1) :
           \/ k \in 1..m /\ k < i /\ q[k] = r[k]
           \/ k + 1 \in 1..m /\ k + 1 > i /\ q[k] = r[k + 1]
    BY DEF Lacks
  <1>3. {q[k] : k \in 1..(m - 1)} \subseteq {r[k] : k \in 1..m} \ {r[i]}
    BY <1>2
  <1>4. {r[k] : k \in 1..m} \ {r[i]} \subseteq {q[k] : k \in 1..(m - 1)}
    BY <1>1
  <1>5. ASSUME NEW a \in 1..(m - 1), NEW b \in 1..(m - 1), q[a] = q[b]
        PROVE  a = b
    BY <1>2, <1>5
  <1> QED
    BY <1>3, <1>4, <1>5

\* A split adds its new pane to the leaves.
LEMMA SplitNodeAdds ==
    ASSUME NEW r, IsRoot(r), NEW p \in Layout!ToSet(r), NEW n \in Nat \ Layout!ToSet(r)
    PROVE  /\ IsRoot(Layout!SplitNode(r, p, n))
           /\ Layout!ToSet(Layout!SplitNode(r, p, n)) = Layout!ToSet(r) \cup {n}
  <1> DEFINE i == Layout!LeafOf(r, p)
             q == Layout!SplitNode(r, p, n)
             m == Len(r)
  <1>1. i \in 1..m /\ r \in Seq(Nat) /\ m \in Nat /\ DOMAIN r = 1..m
    BY LeafOfIs DEF IsRoot
  <1> DEFINE j == i + 1
  <1>2. q = Layout!InsertAt(r, j, n) /\ j \in 1..(m + 1)
    BY <1>1 DEF Layout!SplitNode
  <1>3. /\ Layout!ToSet(r) = {r[k] : k \in 1..m}
        /\ \A a, b \in 1..m : r[a] = r[b] => a = b
    BY <1>1 DEF Layout!ToSet, IsRoot, Layout!IsInjective
  <1> HIDE DEF i, j, q
  <1>4. q \in Seq(Nat) /\ Len(q) = m + 1 /\ Gains(q, r, m, j, n)
    <2>1. n \in Nat
      OBVIOUS
    <2>2. \A x \in Seq(Nat), y \in Nat : \A k \in 1..(Len(x) + 1) :
             /\ Layout!InsertAt(x, k, y) \in Seq(Nat)
             /\ Len(Layout!InsertAt(x, k, y)) = Len(x) + 1
             /\ Gains(Layout!InsertAt(x, k, y), x, Len(x), k, y)
      BY InsertedAt
    <2> QED
      BY <1>1, <1>2, <2>1, <2>2
  <1> HIDE DEF m
  <1>5. /\ {q[k] : k \in 1..(m + 1)} = {r[k] : k \in 1..m} \cup {n}
        /\ \A a, b \in 1..(m + 1) : q[a] = q[b] => a = b
    <2>1. n \notin {r[k] : k \in 1..m}
      BY <1>3
    <2>2. m \in Nat /\ j \in 1..(m + 1) /\ Gains(q, r, m, j, n)
      BY <1>1, <1>2, <1>4
    <2>3. \A a, b \in 1..m : r[a] = r[b] => a = b
      BY <1>3
    <2> HIDE DEF m, j
    <2> QED
      BY <2>1, <2>2, <2>3, GainedValues
  <1>6. DOMAIN q = 1..(m + 1)
    BY <1>4
  <1> QED
    BY <1>3, <1>4, <1>5, <1>6 DEF IsRoot, Layout!ToSet, Layout!IsInjective, q

\* A pane that is removed is no leaf any more; if any are left, the first one is one of them.
LEMMA RemoveNodeTakes ==
    ASSUME NEW r, IsRoot(r), NEW p \in Layout!ToSet(r)
    PROVE  /\ IsRoot(Layout!RemoveNode(r, p))
           /\ Layout!ToSet(Layout!RemoveNode(r, p)) = Layout!ToSet(r) \ {p}
           /\ Layout!RemoveNode(r, p) # <<>> =>
                 Head(Layout!RemoveNode(r, p)) \in Layout!ToSet(Layout!RemoveNode(r, p))
  <1> DEFINE i == Layout!LeafOf(r, p)
             q == Layout!RemoveNode(r, p)
             m == Len(r)
  <1>1. i \in 1..m /\ r[i] = p /\ r \in Seq(Nat) /\ m \in Nat /\ DOMAIN r = 1..m
    BY LeafOfIs DEF IsRoot
  <1>2. q = Layout!RemoveAt(r, i)
    BY DEF Layout!RemoveNode
  <1>3. /\ Layout!ToSet(r) = {r[k] : k \in 1..m}
        /\ \A a, b \in 1..m : r[a] = r[b] => a = b
    BY <1>1 DEF Layout!ToSet, IsRoot, Layout!IsInjective
  <1> HIDE DEF i, q
  <1>4. q \in Seq(Nat) /\ Len(q) = m - 1 /\ Lacks(q, r, m, i)
    BY <1>1, <1>2, RemovedAt
  <1> HIDE DEF m
  <1>5. /\ {q[k] : k \in 1..(m - 1)} = {r[k] : k \in 1..m} \ {r[i]}
        /\ \A a, b \in 1..(m - 1) : q[a] = q[b] => a = b
    BY <1>1, <1>3, <1>4, LackedValues
  <1>6. DOMAIN q = 1..(m - 1)
    BY <1>4
  <1>7. q # <<>> => Head(q) \in Layout!ToSet(q)
    BY <1>4, <1>6 DEF Layout!ToSet
  <1> QED
    BY <1>1, <1>3, <1>4, <1>5, <1>6, <1>7 DEF IsRoot, Layout!ToSet, Layout!IsInjective, q

-----------------------------------------------------------------------------
(* Layouts as values: what each operation of TerminalWorkspace keeps.      *)

Tab == [id : Nat, root : Seq(Nat), focused : Nat]
IsTab(t) == t \in Tab /\ IsRoot(t.root) /\ t.focused \in Layout!ToSet(t.root)
Apart(t, u) == t.id # u.id /\ Layout!ToSet(t.root) \cap Layout!ToSet(u.root) = {}

\* Tabs have a name and panes of their own.
AreTabs(ts) ==
    /\ ts \in Seq(Tab)
    /\ \A i \in 1..Len(ts) : IsTab(ts[i])
    /\ \A i, j \in 1..Len(ts) : i # j => Apart(ts[i], ts[j])

Leaves(ts) == UNION {Layout!ToSet(ts[i].root) : i \in 1..Len(ts)}

\* The active tab is one of the tabs, and the panes are the leaves.
IsLayout(l) ==
    /\ l = [tabs |-> l.tabs, active |-> l.active, panes |-> l.panes]
    /\ AreTabs(l.tabs)
    /\ IF Len(l.tabs) = 0 THEN l.active = None
       ELSE \E i \in 1..Len(l.tabs) : l.tabs[i].id = l.active
    /\ l.panes \in [Leaves(l.tabs) -> Layout!States]

\* Its identifiers are below the counters.
Below(l, n, m) ==
    /\ DOMAIN l.panes \subseteq 1..(n - 1)
    /\ \A i \in 1..Len(l.tabs) : l.tabs[i].id \in 1..(m - 1)

LEMMA NoLayoutIsLayout ==
    IsLayout(Layout!NoLayout) /\ \A n, m \in Nat : Below(Layout!NoLayout, n, m)
  <1>1. Layout!NoLayout.tabs = <<>> /\ Layout!NoLayout.active = None
        /\ Layout!NoLayout.panes = [p \in {} |-> "Stopped"]
    BY DEF Layout!NoLayout
  <1>2. AreTabs(<<>>) /\ Leaves(<<>>) = {}
    BY DEF AreTabs, Leaves
  <1> QED
    BY <1>1, <1>2 DEF IsLayout, Below, Layout!NoLayout

\* The tab of a layout that is named.
LEMMA TabIndexIs ==
    ASSUME NEW l, IsLayout(l), NEW i \in 1..Len(l.tabs)
    PROVE  Layout!TabIndex(l, l.tabs[i].id) = i
  <1>1. {k \in 1..Len(l.tabs) : l.tabs[k].id = l.tabs[i].id} = {i}
    BY DEF IsLayout, AreTabs, Apart
  <1>2. Layout!TabIndex(l, l.tabs[i].id) = Layout!Min({i})
    BY <1>1 DEF Layout!TabIndex, Layout!SelectInSeq
  <1>3. Layout!Min({i}) = i
    BY DEF Layout!Min
  <1> QED
    BY <1>2, <1>3

\* While a tab is active, it is one of the tabs and its focused pane is one of its leaves.
LEMMA ActiveIs ==
    ASSUME NEW l, IsLayout(l), l.active # None
    PROVE  LET i == Layout!TabIndex(l, l.active)
           IN  /\ i \in 1..Len(l.tabs)
               /\ l.tabs[i].id = l.active
               /\ Layout!ActiveTab(l) = l.tabs[i]
               /\ Layout!FocusedPane(l) = l.tabs[i].focused
  <1>1. PICK i \in 1..Len(l.tabs) : l.tabs[i].id = l.active
    BY DEF IsLayout
  <1>2. Layout!TabIndex(l, l.active) = i
    BY <1>1, TabIndexIs
  <1> QED
    BY <1>1, <1>2 DEF Layout!ActiveTab, Layout!FocusedPane

\* The tab with a pane.
LEMMA TabOfIs ==
    ASSUME NEW l, IsLayout(l), NEW p \in DOMAIN l.panes
    PROVE  /\ Layout!TabOf(l, p) \in 1..Len(l.tabs)
           /\ p \in Layout!ToSet(l.tabs[Layout!TabOf(l, p)].root)
  <1>1. PICK i \in 1..Len(l.tabs) : p \in Layout!ToSet(l.tabs[i].root)
    BY DEF IsLayout, Leaves
  <1>2. {k \in 1..Len(l.tabs) : Layout!ContainsPane(l.tabs[k].root, p)} = {i}
    BY <1>1 DEF IsLayout, AreTabs, Apart, Layout!ContainsPane
  <1>3. Layout!TabOf(l, p) = Layout!Min({i})
    BY <1>2 DEF Layout!TabOf, Layout!SelectInSeq
  <1>4. Layout!Min({i}) = i
    BY DEF Layout!Min
  <1> QED
    BY <1>1, <1>3, <1>4

\* No other tab has a pane of u.
Spares(ts, i, u) ==
    \A j \in 1..Len(ts) : j # i => Layout!ToSet(ts[j].root) \cap Layout!ToSet(u.root) = {}

\* A tab with another root and focus.
LEMMA TabChanged ==
    ASSUME NEW t \in Tab, NEW root, NEW p
    PROVE  [t EXCEPT !.root = root, !.focused = p] = [id |-> t.id, root |-> root, focused |-> p]
  <1> DEFINE u == [t EXCEPT !.root = root]
  <1>1. u = [id |-> t.id, root |-> root, focused |-> t.focused]
    BY DEF Tab
  <1> HIDE DEF u
  <1>2. [u EXCEPT !.focused = p] = [id |-> t.id, root |-> root, focused |-> p]
    BY <1>1
  <1>3. [t EXCEPT !.root = root, !.focused = p] = [u EXCEPT !.focused = p]
    BY DEF u
  <1> QED
    BY <1>2, <1>3

\* A layout with another i-th tab and other panes.
Changed(l, i, u, panes) == [l EXCEPT !.tabs[i] = u, !.panes = panes]

LEMMA LayoutChanged ==
    ASSUME NEW l, IsLayout(l), NEW i \in 1..Len(l.tabs), NEW u, NEW panes
    PROVE  Changed(l, i, u, panes)
              = [tabs |-> [l.tabs EXCEPT ![i] = u], active |-> l.active, panes |-> panes]
  <1> DEFINE d == [l EXCEPT !.tabs[i] = u]
             vs == [l.tabs EXCEPT ![i] = u]
  <1>1. d = [tabs |-> vs, active |-> l.active, panes |-> l.panes]
    BY DEF IsLayout
  <1> HIDE DEF d, vs
  <1>2. [d EXCEPT !.panes = panes] = [tabs |-> vs, active |-> l.active, panes |-> panes]
    BY <1>1
  <1>3. Changed(l, i, u, panes) = [d EXCEPT !.panes = panes]
    BY DEF d, Changed
  <1> QED
    BY <1>2, <1>3 DEF vs

\* A tab that takes the place of another.
LEMMA TabReplaced ==
    ASSUME NEW ts, AreTabs(ts), NEW i \in 1..Len(ts), NEW u, IsTab(u), u.id = ts[i].id,
           Spares(ts, i, u)
    PROVE  /\ AreTabs([ts EXCEPT ![i] = u])
           /\ Leaves([ts EXCEPT ![i] = u])
                = (Leaves(ts) \ Layout!ToSet(ts[i].root)) \cup Layout!ToSet(u.root)
           /\ Len([ts EXCEPT ![i] = u]) = Len(ts)
           /\ \A j \in 1..Len(ts) : [ts EXCEPT ![i] = u][j].id = ts[j].id
  <1> DEFINE vs == [ts EXCEPT ![i] = u]
  <1>1. /\ vs \in Seq(Tab) /\ Len(vs) = Len(ts) /\ vs[i] = u
        /\ \A j \in 1..Len(ts) : j # i => vs[j] = ts[j]
    BY DEF AreTabs, IsTab
  <1> HIDE DEF vs
  <1>2. ASSUME NEW j \in 1..Len(ts) PROVE vs[j].id = ts[j].id
    BY <1>1
  <1>3. AreTabs(vs)
    <2>1. \A j \in 1..Len(vs) : IsTab(vs[j])
      BY <1>1 DEF AreTabs
    <2>2. ASSUME NEW j \in 1..Len(vs), NEW k \in 1..Len(vs), j # k
          PROVE  Apart(vs[j], vs[k])
      <3>1. vs[j].id # vs[k].id
        BY <1>1, <1>2, <2>2 DEF AreTabs, Apart
      <3>2. Layout!ToSet(vs[j].root) \cap Layout!ToSet(vs[k].root) = {}
        <4>1. CASE j = i
          BY <1>1, <2>2, <4>1 DEF Spares
        <4>2. CASE k = i
          BY <1>1, <2>2, <4>2 DEF Spares
        <4>3. CASE j # i /\ k # i
          BY <1>1, <2>2, <4>3 DEF AreTabs, Apart
        <4> QED
          BY <4>1, <4>2, <4>3
      <3> QED
        BY <3>1, <3>2 DEF Apart
    <2> QED
      BY <1>1, <2>1, <2>2 DEF AreTabs
  <1>4. Leaves(vs) = (Leaves(ts) \ Layout!ToSet(ts[i].root)) \cup Layout!ToSet(u.root)
    <2>1. \A j \in 1..Len(ts) : j # i =>
             Layout!ToSet(ts[j].root) \cap Layout!ToSet(ts[i].root) = {}
      BY DEF AreTabs, Apart
    <2>2. ASSUME NEW p \in Leaves(vs)
          PROVE  p \in (Leaves(ts) \ Layout!ToSet(ts[i].root)) \cup Layout!ToSet(u.root)
      <3>1. PICK j \in 1..Len(ts) : p \in Layout!ToSet(vs[j].root)
        BY <1>1 DEF Leaves
      <3>2. CASE j = i
        BY <1>1, <3>1, <3>2
      <3>3. CASE j # i
        <4>1. p \in Layout!ToSet(ts[j].root) /\ p \notin Layout!ToSet(ts[i].root)
          BY <1>1, <2>1, <3>1, <3>3
        <4> QED
          BY <4>1 DEF Leaves
      <3> QED
        BY <3>2, <3>3
    <2>3. ASSUME NEW p \in (Leaves(ts) \ Layout!ToSet(ts[i].root)) \cup Layout!ToSet(u.root)
          PROVE  p \in Leaves(vs)
      <3>1. CASE p \in Layout!ToSet(u.root)
        BY <1>1, <3>1 DEF Leaves
      <3>2. CASE p \in Leaves(ts) \ Layout!ToSet(ts[i].root)
        <4>1. PICK j \in 1..Len(ts) : p \in Layout!ToSet(ts[j].root)
          BY <3>2 DEF Leaves
        <4>2. vs[j] = ts[j]
          BY <1>1, <3>2, <4>1
        <4> QED
          BY <1>1, <4>1, <4>2 DEF Leaves
      <3> QED
        BY <2>3, <3>1, <3>2
    <2> QED
      BY <2>2, <2>3
  <1> QED
    BY <1>1, <1>2, <1>3, <1>4 DEF vs

\* A tab that is added after the others.
LEMMA TabAppended ==
    ASSUME NEW ts, AreTabs(ts), NEW u, IsTab(u), \A j \in 1..Len(ts) : Apart(ts[j], u)
    PROVE  /\ AreTabs(Append(ts, u))
           /\ Leaves(Append(ts, u)) = Leaves(ts) \cup Layout!ToSet(u.root)
           /\ Len(Append(ts, u)) = Len(ts) + 1
           /\ Append(ts, u)[Len(ts) + 1] = u
           /\ \A j \in 1..Len(ts) : Append(ts, u)[j] = ts[j]
  <1> DEFINE vs == Append(ts, u)
  <1>1. /\ vs \in Seq(Tab) /\ Len(vs) = Len(ts) + 1 /\ vs[Len(ts) + 1] = u
        /\ \A j \in 1..Len(ts) : vs[j] = ts[j]
        /\ Len(ts) \in Nat
    BY DEF AreTabs, IsTab
  <1> HIDE DEF vs
  <1>2. \A j \in 1..Len(vs) : j \in 1..Len(ts) \/ j = Len(ts) + 1
    BY <1>1
  <1>3. AreTabs(vs)
    <2>1. \A j \in 1..Len(vs) : IsTab(vs[j])
      BY <1>1, <1>2 DEF AreTabs
    <2>2. ASSUME NEW j \in 1..Len(vs), NEW k \in 1..Len(vs), j # k
          PROVE  Apart(vs[j], vs[k])
      <3>1. CASE j \in 1..Len(ts) /\ k \in 1..Len(ts)
        BY <1>1, <2>2, <3>1 DEF AreTabs
      <3>2. CASE j = Len(ts) + 1 /\ k \in 1..Len(ts)
        BY <1>1, <3>2 DEF Apart
      <3>3. CASE j \in 1..Len(ts) /\ k = Len(ts) + 1
        BY <1>1, <3>3
      <3> QED
        BY <1>2, <2>2, <3>1, <3>2, <3>3
    <2> QED
      BY <1>1, <2>1, <2>2 DEF AreTabs
  <1>4. Leaves(vs) = Leaves(ts) \cup Layout!ToSet(u.root)
    <2>1. ASSUME NEW p \in Leaves(vs) PROVE p \in Leaves(ts) \cup Layout!ToSet(u.root)
      BY <1>1, <1>2 DEF Leaves
    <2>2. ASSUME NEW p \in Leaves(ts) PROVE p \in Leaves(vs)
      <3>1. PICK j \in 1..Len(ts) : p \in Layout!ToSet(ts[j].root)
        BY DEF Leaves
      <3>2. j \in 1..Len(vs) /\ vs[j] = ts[j]
        BY <1>1
      <3> QED
        BY <3>1, <3>2 DEF Leaves
    <2>3. ASSUME NEW p \in Layout!ToSet(u.root) PROVE p \in Leaves(vs)
      <3>1. Len(ts) + 1 \in 1..Len(vs)
        BY <1>1
      <3> QED
        BY <1>1, <3>1 DEF Leaves
    <2> QED
      BY <2>1, <2>2, <2>3
  <1> QED
    BY <1>1, <1>3, <1>4 DEF vs

\* A tab that is removed takes its panes with it.
LEMMA TabRemoved ==
    ASSUME NEW ts, AreTabs(ts), NEW i \in 1..Len(ts)
    PROVE  LET vs == Layout!RemoveAt(ts, i)
           IN  /\ AreTabs(vs)
               /\ Leaves(vs) = Leaves(ts) \ Layout!ToSet(ts[i].root)
               /\ Len(vs) = Len(ts) - 1
               /\ \A j \in 1..Len(vs) : \E k \in 1..Len(ts) : k # i /\ vs[j] = ts[k]
               /\ \A k \in 1..Len(ts) : k # i => \E j \in 1..Len(vs) : vs[j] = ts[k]
  <1> DEFINE vs == Layout!RemoveAt(ts, i)
             m == Len(ts)
  <1>1. vs \in Seq(Tab) /\ Len(vs) = m - 1 /\ Lacks(vs, ts, m, i) /\ m \in Nat /\ i \in 1..m
    BY RemovedAt DEF AreTabs
  <1> HIDE DEF vs, m
  <1>2. \A j \in 1..(m - 1) :
           \/ j \in 1..m /\ j < i /\ vs[j] = ts[j]
           \/ j + 1 \in 1..m /\ j + 1 > i /\ vs[j] = ts[j + 1]
    BY <1>1 DEF Lacks
  <1>3. ASSUME NEW j \in 1..Len(vs)
        PROVE  \E k \in 1..m : k # i /\ vs[j] = ts[k]
    BY <1>1, <1>2
  <1>4. ASSUME NEW k \in 1..m, k # i
        PROVE  \E j \in 1..Len(vs) : vs[j] = ts[k]
    <2>1. CASE k < i
      <3>1. k \in 1..(m - 1) /\ vs[k] = ts[k]
        BY <1>1, <2>1 DEF Lacks
      <3> QED
        BY <1>1, <3>1
    <2>2. CASE k > i
      <3>1. k - 1 \in 1..(m - 1) /\ vs[k - 1] = ts[k]
        BY <1>1, <2>2 DEF Lacks
      <3> QED
        BY <1>1, <3>1
    <2> QED
      BY <1>1, <1>4, <2>1, <2>2
  <1>5. AreTabs(vs)
    <2>1. \A j \in 1..Len(vs) : IsTab(vs[j])
      BY <1>3 DEF AreTabs, m
    <2>2. ASSUME NEW j \in 1..(m - 1), NEW k \in 1..(m - 1), j # k
          PROVE  Apart(vs[j], vs[k])
      <3> DEFINE a == IF j < i THEN j ELSE j + 1
                 b == IF k < i THEN k ELSE k + 1
      <3>1. a \in 1..m /\ b \in 1..m /\ a # b /\ vs[j] = ts[a] /\ vs[k] = ts[b]
        BY <1>1, <2>2 DEF Lacks
      <3> HIDE DEF a, b
      <3> QED
        BY <3>1 DEF AreTabs, m
    <2> QED
      BY <1>1, <2>1, <2>2 DEF AreTabs
  <1>6. Leaves(vs) = Leaves(ts) \ Layout!ToSet(ts[i].root)
    <2>1. ASSUME NEW p \in Leaves(vs) PROVE p \in Leaves(ts) \ Layout!ToSet(ts[i].root)
      <3>1. PICK k \in 1..m : k # i /\ p \in Layout!ToSet(ts[k].root)
        BY <1>3 DEF Leaves
      <3>2. Apart(ts[k], ts[i])
        BY <1>1, <3>1 DEF AreTabs, m
      <3> QED
        BY <3>1, <3>2 DEF Leaves, Apart, m
    <2>2. ASSUME NEW p \in Leaves(ts) \ Layout!ToSet(ts[i].root) PROVE p \in Leaves(vs)
      <3>1. PICK k \in 1..m : p \in Layout!ToSet(ts[k].root)
        BY DEF Leaves, m
      <3>2. k # i
        BY <3>1
      <3>3. PICK j \in 1..Len(vs) : vs[j] = ts[k]
        BY <1>4, <3>2
      <3> QED
        BY <3>1, <3>3 DEF Leaves
    <2> QED
      BY <2>1, <2>2
  <1> QED
    BY <1>1, <1>3, <1>4, <1>5, <1>6 DEF vs, m

\* A new tab, with a new pane.
LEMMA CreateTabKeeps ==
    ASSUME NEW l, IsLayout(l), NEW n \in Nat \ {0}, NEW m \in Nat \ {0}, Below(l, n, m)
    PROVE  LET d == Layout!CreateTab(l, m, n)
           IN  /\ IsLayout(d)
               /\ Below(d, n + 1, m + 1)
               /\ d.panes = Layout!WithPane(l, n, "Stopped")
  <1> DEFINE u == [id |-> m, root |-> Layout!Pane(n), focused |-> n]
             d == Layout!CreateTab(l, m, n)
             ts == l.tabs
             vs == Append(ts, u)
  <1>1. d = [tabs |-> vs, active |-> m, panes |-> Layout!WithPane(l, n, "Stopped")]
    BY DEF Layout!CreateTab
  <1>2. IsTab(u) /\ Layout!ToSet(u.root) = {n}
    <2>1. <<n>> \in Seq(Nat) /\ Layout!IsInjective(<<n>>) /\ Layout!ToSet(<<n>>) = {n}
      BY DEF Layout!IsInjective, Layout!ToSet
    <2> QED
      BY <2>1 DEF IsTab, Tab, IsRoot, Layout!Pane
  <1>3. AreTabs(ts) /\ DOMAIN l.panes = Leaves(ts) /\ Len(ts) \in Nat
    BY DEF IsLayout, AreTabs
  <1>4. n \notin Leaves(ts)
    BY <1>3 DEF Below
  <1>5. \A j \in 1..Len(ts) : Apart(ts[j], u)
    BY <1>2, <1>4 DEF Apart, Leaves, Below
  <1>6. u.id = m
    OBVIOUS
  <1> HIDE DEF u
  <1>7. /\ AreTabs(vs) /\ Leaves(vs) = Leaves(ts) \cup {n} /\ Len(vs) = Len(ts) + 1
        /\ vs[Len(ts) + 1] = u /\ \A j \in 1..Len(ts) : vs[j] = ts[j]
    BY <1>2, <1>3, <1>5, TabAppended
  <1> HIDE DEF vs, d
  <1>8. d.panes \in [Leaves(vs) -> Layout!States]
    BY <1>1, <1>3, <1>7 DEF Layout!WithPane, IsLayout, Layout!States
  <1>9. \E j \in 1..Len(vs) : vs[j].id = m
    <2>1. Len(ts) + 1 \in 1..Len(vs) /\ vs[Len(ts) + 1].id = m
      BY <1>3, <1>6, <1>7
    <2> QED
      BY <2>1
  <1>10. IsLayout(d)
    BY <1>1, <1>3, <1>7, <1>8, <1>9 DEF IsLayout
  <1>11. Below(d, n + 1, m + 1)
    <2>1. DOMAIN d.panes = Leaves(ts) \cup {n}
      BY <1>7, <1>8
    <2>2. Leaves(ts) \subseteq 1..(n - 1)
      BY <1>3 DEF Below
    <2>3. DOMAIN d.panes \subseteq 1..((n + 1) - 1)
      BY <2>1, <2>2
    <2>4. ASSUME NEW j \in 1..Len(vs) PROVE vs[j].id \in 1..((m + 1) - 1)
      <3>1. CASE j \in 1..Len(ts)
        BY <1>7, <3>1 DEF Below
      <3>2. CASE j = Len(ts) + 1
        BY <1>6, <1>7, <3>2
      <3> QED
        BY <1>3, <1>7, <3>1, <3>2
    <2> QED
      BY <1>1, <2>3, <2>4 DEF Below
  <1> QED
    BY <1>1, <1>10, <1>11 DEF d

\* A new pane beside the focused one.
LEMMA SplitFocusedKeeps ==
    ASSUME NEW l, IsLayout(l), l.active # None, NEW n \in Nat \ {0}, NEW m \in Nat,
           Below(l, n, m)
    PROVE  LET d == Layout!SplitFocused(l, n)
           IN  /\ IsLayout(d)
               /\ Below(d, n + 1, m)
               /\ d.panes = Layout!WithPane(l, n, "Stopped")
  <1> DEFINE i == Layout!TabIndex(l, l.active)
             ts == l.tabs
             t == ts[i]
             p == Layout!FocusedPane(l)
             root == Layout!SplitNode(t.root, p, n)
             u == [id |-> t.id, root |-> root, focused |-> n]
             vs == [ts EXCEPT ![i] = u]
             d == Layout!SplitFocused(l, n)
  <1>1. i \in 1..Len(ts) /\ t.id = l.active /\ p = t.focused
    BY ActiveIs
  <1>2. AreTabs(ts) /\ IsTab(t) /\ DOMAIN l.panes = Leaves(ts) /\ Len(ts) \in Nat
    BY <1>1 DEF IsLayout, AreTabs
  <1>0. d = Changed(l, i, [t EXCEPT !.root = Layout!SplitNode(@, p, n), !.focused = n],
                    Layout!WithPane(l, n, "Stopped"))
    BY DEF Layout!SplitFocused, Changed
  <1> HIDE DEF i, p, d
  <1>3. d = [tabs |-> vs, active |-> l.active, panes |-> Layout!WithPane(l, n, "Stopped")]
    <2>1. [t EXCEPT !.root = Layout!SplitNode(@, p, n), !.focused = n] = u
      BY <1>2, TabChanged DEF IsTab
    <2> HIDE DEF u
    <2>2. d = Changed(l, i, u, Layout!WithPane(l, n, "Stopped"))
      BY <1>0, <2>1
    <2> QED
      BY <1>1, <2>2, LayoutChanged
  <1>4. n \notin Leaves(ts) /\ \A j \in 1..Len(ts) : n \notin Layout!ToSet(ts[j].root)
    BY <1>2 DEF Below, Leaves
  <1>5. IsRoot(root) /\ Layout!ToSet(root) = Layout!ToSet(t.root) \cup {n}
    BY <1>1, <1>2, <1>4, SplitNodeAdds DEF IsTab
  <1> HIDE DEF root
  <1>6. IsTab(u) /\ u.id = t.id /\ Layout!ToSet(u.root) = Layout!ToSet(t.root) \cup {n}
    BY <1>2, <1>5 DEF IsTab, Tab, IsRoot
  <1> HIDE DEF u
  <1>7. Spares(ts, i, u)
    BY <1>1, <1>2, <1>4, <1>6 DEF AreTabs, Apart, Spares
  <1>8. /\ AreTabs(vs) /\ Len(vs) = Len(ts) /\ \A j \in 1..Len(ts) : vs[j].id = ts[j].id
        /\ Leaves(vs) = (Leaves(ts) \ Layout!ToSet(t.root)) \cup Layout!ToSet(u.root)
    BY <1>1, <1>2, <1>6, <1>7, TabReplaced
  <1>9. Leaves(vs) = Leaves(ts) \cup {n}
    <2>1. Layout!ToSet(t.root) \subseteq Leaves(ts)
      BY <1>1 DEF Leaves
    <2> QED
      BY <1>6, <1>8, <2>1
  <1> HIDE DEF vs
  <1>10. d.panes \in [Leaves(vs) -> Layout!States]
    BY <1>2, <1>3, <1>9 DEF Layout!WithPane, IsLayout, Layout!States
  <1>11. IsLayout(d)
    BY <1>1, <1>2, <1>3, <1>8, <1>10 DEF IsLayout
  <1>12. Below(d, n + 1, m)
    <2>1. Leaves(ts) \subseteq 1..(n - 1)
      BY <1>2 DEF Below
    <2>2. DOMAIN d.panes \subseteq 1..((n + 1) - 1)
      BY <1>9, <1>10, <2>1
    <2> QED
      BY <1>3, <1>8, <2>2 DEF Below
  <1> QED
    BY <1>3, <1>11, <1>12 DEF d

\* A pane that is closed, with its tab if it was the last one there.
LEMMA ClosePaneKeeps ==
    ASSUME NEW l, IsLayout(l), NEW p \in DOMAIN l.panes
    PROVE  LET d == Layout!ClosePane(l, p)
           IN  /\ IsLayout(d)
               /\ d.panes = [q \in DOMAIN l.panes \ {p} |-> l.panes[q]]
               /\ \A n, m \in Nat : Below(l, n, m) => Below(d, n, m)
  <1> DEFINE i == Layout!TabOf(l, p)
             ts == l.tabs
             t == ts[i]
             root == Layout!RemoveNode(t.root, p)
             rest == Layout!RemoveAt(ts, i)
             panes == [q \in DOMAIN l.panes \ {p} |-> l.panes[q]]
             focused == IF t.focused = p THEN Head(root) ELSE t.focused
             u == [id |-> t.id, root |-> root, focused |-> focused]
             d == Layout!ClosePane(l, p)
  <1>1. i \in 1..Len(ts) /\ p \in Layout!ToSet(t.root)
    BY TabOfIs
  <1>2. /\ AreTabs(ts) /\ IsTab(t) /\ DOMAIN l.panes = Leaves(ts) /\ Len(ts) \in Nat
        /\ l.panes \in [Leaves(ts) -> Layout!States]
    BY <1>1 DEF IsLayout, AreTabs
  <1>3. /\ root # <<>> => d = Changed(l, i, [t EXCEPT !.root = root, !.focused = focused], panes)
        /\ root = <<>> =>
              d = [tabs |-> rest, panes |-> panes,
                   active |-> IF l.active # t.id THEN l.active
                              ELSE IF rest = <<>> THEN None
                              ELSE IF i <= Len(rest) THEN rest[i].id ELSE Layout!Last(rest).id]
    BY DEF Layout!ClosePane, Changed
  <1> HIDE DEF i, d
  <1>4. /\ IsRoot(root) /\ Layout!ToSet(root) = Layout!ToSet(t.root) \ {p}
        /\ root # <<>> => Head(root) \in Layout!ToSet(root)
    BY <1>1, <1>2, RemoveNodeTakes DEF IsTab
  <1> HIDE DEF root
  <1>5. panes \in [Leaves(ts) \ {p} -> Layout!States]
    BY <1>2
  <1>6. Layout!ToSet(t.root) \subseteq Leaves(ts)
    BY <1>1 DEF Leaves
  <1> HIDE DEF panes
  <1>7. CASE root # <<>>
    <2> DEFINE vs == [ts EXCEPT ![i] = u]
    <2>1. focused \in Layout!ToSet(root) /\ focused \in Nat
      <3>1. focused \in Layout!ToSet(root)
        BY <1>2, <1>4, <1>7 DEF IsTab
      <3>2. Layout!ToSet(root) \subseteq Nat
        BY <1>4 DEF IsRoot, Layout!ToSet
      <3> HIDE DEF focused
      <3> QED
        BY <3>1, <3>2
    <2> HIDE DEF focused
    <2>2. IsTab(u) /\ u.id = t.id /\ Layout!ToSet(u.root) = Layout!ToSet(t.root) \ {p}
      BY <1>2, <1>4, <2>1 DEF IsTab, Tab, IsRoot
    <2>3. [t EXCEPT !.root = root, !.focused = focused] = u
      BY <1>2, TabChanged DEF IsTab
    <2> HIDE DEF u
    <2>4. d = [tabs |-> vs, active |-> l.active, panes |-> panes]
      <3>1. d = Changed(l, i, u, panes)
        BY <1>3, <1>7, <2>3
      <3> QED
        BY <1>1, <3>1, LayoutChanged
    <2>5. Spares(ts, i, u)
      BY <1>1, <1>2, <2>2 DEF AreTabs, Apart, Spares
    <2>6. /\ AreTabs(vs) /\ Len(vs) = Len(ts) /\ \A j \in 1..Len(ts) : vs[j].id = ts[j].id
          /\ Leaves(vs) = (Leaves(ts) \ Layout!ToSet(t.root)) \cup Layout!ToSet(u.root)
      BY <1>1, <1>2, <2>2, <2>5, TabReplaced
    <2>7. Leaves(vs) = Leaves(ts) \ {p}
      BY <1>1, <1>6, <2>2, <2>6
    <2> HIDE DEF vs
    <2>8. IsLayout(d)
      BY <1>1, <1>2, <1>5, <2>4, <2>6, <2>7 DEF IsLayout
    <2>9. \A n, m \in Nat : Below(l, n, m) => Below(d, n, m)
      BY <1>2, <1>5, <2>4, <2>6 DEF Below
    <2> QED
      BY <2>4, <2>8, <2>9 DEF panes, d
  <1>8. CASE root = <<>>
    <2> HIDE DEF rest
    <2>1. /\ AreTabs(rest) /\ Leaves(rest) = Leaves(ts) \ Layout!ToSet(t.root)
          /\ Len(rest) = Len(ts) - 1
          /\ \A j \in 1..Len(rest) : \E k \in 1..Len(ts) : k # i /\ rest[j] = ts[k]
          /\ \A k \in 1..Len(ts) : k # i => \E j \in 1..Len(rest) : rest[j] = ts[k]
      BY <1>1, <1>2, TabRemoved DEF rest
    <2>2. Leaves(rest) = Leaves(ts) \ {p}
      <3>1. Layout!ToSet(root) = {}
        BY <1>8 DEF Layout!ToSet
      <3> QED
        BY <1>1, <1>4, <2>1, <3>1
    <2> DEFINE now == IF l.active # t.id THEN l.active
                      ELSE IF rest = <<>> THEN None
                      ELSE IF i <= Len(rest) THEN rest[i].id ELSE Layout!Last(rest).id
    <2>3. d = [tabs |-> rest, panes |-> panes, active |-> now]
      BY <1>3, <1>8
    <2>4. rest \in Seq(Tab) /\ (rest = <<>> <=> Len(rest) = 0) /\ Len(rest) \in Nat
      <3>1. rest \in Seq(Tab)
        BY <2>1 DEF AreTabs
      <3>2. rest = <<>> <=> Len(rest) = 0
        BY <3>1, EmptySeq
      <3> QED
        BY <3>1, <3>2
    <2>5. IF Len(rest) = 0 THEN now = None ELSE \E j \in 1..Len(rest) : rest[j].id = now
      <3>1. PICK k \in 1..Len(ts) : ts[k].id = l.active
        BY <1>1, <1>2 DEF IsLayout
      <3>2. CASE l.active # t.id
        <4>1. k # i
          BY <3>1, <3>2
        <4>2. PICK j \in 1..Len(rest) : rest[j] = ts[k]
          BY <2>1, <4>1
        <4> QED
          BY <2>4, <3>1, <3>2, <4>2
      <3>3. CASE l.active = t.id
        <4>1. CASE Len(rest) = 0
          BY <2>4, <3>3, <4>1
        <4>2. CASE Len(rest) # 0
          <5>1. Len(rest) \in 1..Len(rest) /\ (i <= Len(rest) => i \in 1..Len(rest))
            BY <1>1, <2>4, <4>2
          <5> QED
            BY <2>4, <3>3, <4>2, <5>1 DEF Layout!Last
        <4> QED
          BY <4>1, <4>2
      <3> QED
        BY <3>2, <3>3
    <2> HIDE DEF now
    <2>6. IsLayout(d)
      BY <1>5, <2>1, <2>2, <2>3, <2>5 DEF IsLayout
    <2>7. \A n, m \in Nat : Below(l, n, m) => Below(d, n, m)
      <3> SUFFICES ASSUME NEW n \in Nat, NEW m \in Nat, Below(l, n, m) PROVE Below(d, n, m)
        OBVIOUS
      <3>1. \A j \in 1..Len(rest) : rest[j].id \in 1..(m - 1)
        BY <2>1 DEF Below
      <3>2. DOMAIN panes \subseteq 1..(n - 1)
        BY <1>2, <1>5 DEF Below
      <3> QED
        BY <2>3, <3>1, <3>2 DEF Below
    <2> QED
      BY <2>3, <2>6, <2>7 DEF panes, d
  <1> QED
    BY <1>7, <1>8

\* Another tab becomes active.
LEMMA ActivateKeeps ==
    ASSUME NEW l, IsLayout(l), NEW i \in 1..Len(l.tabs)
    PROVE  LET d == [l EXCEPT !.active = l.tabs[i].id]
           IN  /\ IsLayout(d) /\ d.panes = l.panes
               /\ \A n, m \in Nat : Below(l, n, m) => Below(d, n, m)
  <1> DEFINE d == [l EXCEPT !.active = l.tabs[i].id]
  <1>1. d = [tabs |-> l.tabs, active |-> l.tabs[i].id, panes |-> l.panes]
    BY DEF IsLayout
  <1> HIDE DEF d
  <1>2. Len(l.tabs) # 0
    BY DEF IsLayout, AreTabs
  <1> QED
    BY <1>1, <1>2 DEF IsLayout, Below, d

\* Another pane of the active tab has the focus.
LEMMA FocusPaneKeeps ==
    ASSUME NEW l, IsLayout(l), l.active # None,
           NEW p \in Layout!ToSet(Layout!ActiveTab(l).root)
    PROVE  LET d == Layout!FocusPane(l, p)
           IN  /\ IsLayout(d) /\ d.panes = l.panes
               /\ \A n, m \in Nat : Below(l, n, m) => Below(d, n, m)
  <1> DEFINE i == Layout!TabIndex(l, l.active)
             ts == l.tabs
             t == ts[i]
             u == [t EXCEPT !.focused = p]
             vs == [ts EXCEPT ![i] = u]
             d == Layout!FocusPane(l, p)
  <1>1. i \in 1..Len(ts) /\ t.id = l.active /\ Layout!ActiveTab(l) = t
    BY ActiveIs
  <1>2. AreTabs(ts) /\ IsTab(t) /\ DOMAIN l.panes = Leaves(ts) /\ Len(ts) \in Nat
    BY <1>1 DEF IsLayout, AreTabs
  <1>3. d = [l EXCEPT !.tabs[i].focused = p]
    BY DEF Layout!FocusPane
  <1> HIDE DEF i, d
  <1>4. d = [tabs |-> vs, active |-> l.active, panes |-> l.panes]
    BY <1>3 DEF IsLayout
  <1>5. u = [id |-> t.id, root |-> t.root, focused |-> p]
    BY <1>2 DEF IsTab, Tab
  <1> HIDE DEF u
  <1>6. IsTab(u) /\ u.id = t.id /\ u.root = t.root
    <2>1. p \in Nat /\ p \in Layout!ToSet(t.root)
      BY <1>1, <1>2 DEF IsTab, IsRoot, Layout!ToSet
    <2> QED
      BY <1>2, <1>5, <2>1 DEF IsTab, Tab
  <1>7. Spares(ts, i, u)
    BY <1>1, <1>2, <1>6 DEF AreTabs, Apart, Spares
  <1>8. /\ AreTabs(vs) /\ Len(vs) = Len(ts) /\ \A j \in 1..Len(ts) : vs[j].id = ts[j].id
        /\ Leaves(vs) = (Leaves(ts) \ Layout!ToSet(t.root)) \cup Layout!ToSet(u.root)
    BY <1>1, <1>2, <1>6, <1>7, TabReplaced
  <1>9. Leaves(vs) = Leaves(ts)
    <2>1. Layout!ToSet(t.root) \subseteq Leaves(ts)
      BY <1>1 DEF Leaves
    <2> QED
      BY <1>6, <1>8, <2>1
  <1> HIDE DEF vs
  <1>10. IsLayout(d)
    BY <1>1, <1>2, <1>4, <1>8, <1>9 DEF IsLayout
  <1> QED
    BY <1>4, <1>8, <1>10 DEF Below, d

\* A pane is in another state.
LEMMA PaneStateKeeps ==
    ASSUME NEW l, IsLayout(l), NEW p \in DOMAIN l.panes, NEW state \in Layout!States
    PROVE  LET d == [l EXCEPT !.panes[p] = state]
           IN  /\ IsLayout(d) /\ d.panes = [l.panes EXCEPT ![p] = state] /\ d.tabs = l.tabs
               /\ \A n, m \in Nat : Below(l, n, m) => Below(d, n, m)
  <1> DEFINE d == [l EXCEPT !.panes[p] = state]
             panes == [l.panes EXCEPT ![p] = state]
  <1>1. d = [tabs |-> l.tabs, active |-> l.active, panes |-> panes]
    BY DEF IsLayout
  <1>2. panes \in [Leaves(l.tabs) -> Layout!States] /\ DOMAIN panes = DOMAIN l.panes
    BY DEF IsLayout
  <1> HIDE DEF d, panes
  <1> QED
    BY <1>1, <1>2 DEF IsLayout, Below, d, panes

\* A layout that is written is valid, and is read back with every pane stopped.
LEMMA SnapshotRestores ==
    ASSUME NEW l, IsLayout(l)
    PROVE  LET d == [l EXCEPT !.panes = [p \in DOMAIN l.panes |-> "Stopped"]]
           IN  /\ Layout!ValidSnapshot(Layout!Snapshot(l))
               /\ Layout!Restore(Layout!Snapshot(l)) = d
               /\ IsLayout(d) /\ d.panes = [p \in DOMAIN l.panes |-> "Stopped"]
               /\ d.tabs = l.tabs
  <1> DEFINE s == Layout!Snapshot(l)
             ts == l.tabs
             stopped == [p \in DOMAIN l.panes |-> "Stopped"]
             d == [l EXCEPT !.panes = stopped]
  <1>1. /\ AreTabs(ts) /\ DOMAIN l.panes = Leaves(ts) /\ Len(ts) \in Nat
        /\ DOMAIN ts = 1..Len(ts) /\ ts = [i \in 1..Len(ts) |-> ts[i]]
    BY DEF IsLayout, AreTabs
  <1>2. /\ s.active = l.active
        /\ s.tabs = [i \in 1..Len(ts) |->
                        [tab |-> ts[i], panes |-> Layout!ToSet(ts[i].root) \cap DOMAIN l.panes]]
    BY <1>1 DEF Layout!Snapshot
  <1> HIDE DEF s
  <1>3. ASSUME NEW i \in 1..Len(ts)
        PROVE  s.tabs[i].tab = ts[i] /\ s.tabs[i].panes = Layout!ToSet(ts[i].root)
    <2>1. s.tabs[i] = [tab |-> ts[i], panes |-> Layout!ToSet(ts[i].root) \cap DOMAIN l.panes]
      BY <1>2
    <2>2. Layout!ToSet(ts[i].root) \subseteq DOMAIN l.panes
      BY <1>1 DEF Leaves
    <2> QED
      BY <2>1, <2>2
  <1>4. DOMAIN s.tabs = 1..Len(ts) /\ (s.tabs = <<>> <=> Len(ts) = 0)
    <2>1. DOMAIN s.tabs = 1..Len(ts)
      BY <1>2
    <2>2. ASSUME Len(ts) = 0 PROVE s.tabs = <<>>
      BY <1>2, <2>2
    <2>3. ASSUME s.tabs = <<>> PROVE Len(ts) = 0
      BY <1>1, <2>1, <2>3
    <2> QED
      BY <2>1, <2>2, <2>3
  <1>5. Layout!ValidSnapshot(s)
    <2>1. IF s.tabs = <<>> THEN s.active = None
          ELSE \E i \in DOMAIN s.tabs : s.tabs[i].tab.id = s.active
      BY <1>2, <1>3, <1>4 DEF IsLayout
    <2>2. ASSUME NEW i \in DOMAIN s.tabs, NEW j \in DOMAIN s.tabs, i # j
          PROVE  /\ s.tabs[i].tab.id # s.tabs[j].tab.id
                 /\ s.tabs[i].panes \cap s.tabs[j].panes = {}
      <3>1. Apart(ts[i], ts[j])
        BY <1>1, <1>4, <2>2 DEF AreTabs
      <3> QED
        BY <1>3, <1>4, <3>1 DEF Apart
    <2>3. ASSUME NEW i \in DOMAIN s.tabs
          PROVE  /\ Layout!IsInjective(s.tabs[i].tab.root)
                 /\ s.tabs[i].tab.focused \in Layout!ToSet(s.tabs[i].tab.root)
                 /\ s.tabs[i].panes = Layout!ToSet(s.tabs[i].tab.root)
      <3>1. IsTab(ts[i])
        BY <1>1, <1>4 DEF AreTabs
      <3> QED
        BY <1>3, <1>4, <3>1 DEF IsTab, IsRoot
    <2> QED
      BY <2>1, <2>2, <2>3 DEF Layout!ValidSnapshot
  <1>6. UNION {s.tabs[i].panes : i \in DOMAIN s.tabs} = Leaves(ts)
    BY <1>3, <1>4 DEF Leaves
  <1>7. [i \in DOMAIN s.tabs |-> s.tabs[i].tab] = ts
    BY <1>1, <1>3, <1>4
  <1>8. d = [tabs |-> ts, active |-> l.active, panes |-> stopped]
    BY DEF IsLayout
  <1>9. Layout!Restore(s) = [tabs |-> ts, active |-> l.active, panes |-> stopped]
    BY <1>1, <1>2, <1>6, <1>7 DEF Layout!Restore
  <1>10. stopped \in [Leaves(ts) -> Layout!States]
    BY <1>1 DEF Layout!States
  <1> HIDE DEF d, stopped
  <1>11. IsLayout(d)
    BY <1>1, <1>8, <1>10 DEF IsLayout
  <1> QED
    BY <1>5, <1>8, <1>9, <1>11 DEF s, d, stopped

\* Identifiers that are reserved are below the counter, which does not go back.
LEMMA ReserveIsAbove ==
    ASSUME NEW n \in Nat, NEW ids \in SUBSET Nat, NEW k \in Nat, \A i \in ids : i < k
    PROVE  /\ Layout!Reserve(n, ids) \in Nat /\ Layout!Reserve(n, ids) >= n
           /\ \A i \in ids : i < Layout!Reserve(n, ids)
  <1> DEFINE S == {n} \cup {i + 1 : i \in ids}
  <1>1. S \in SUBSET Nat /\ S # {} /\ n + k \in Nat
    OBVIOUS
  <1>2. \A x \in S : x <= n + k
    OBVIOUS
  <1>3. n \in S /\ \A i \in ids : i + 1 \in S
    OBVIOUS
  <1>4. Layout!Reserve(n, ids) = Layout!Max(S)
    BY DEF Layout!Reserve
  <1> HIDE DEF S
  <1>5. Layout!Max(S) \in S /\ \A x \in S : x <= Layout!Max(S)
    BY <1>1, <1>2, BoundedHasMax
  <1>6. Layout!Max(S) \in Nat
    BY <1>1, <1>5
  <1>7. ASSUME NEW i \in ids PROVE i < Layout!Max(S)
    <2>1. i + 1 <= Layout!Max(S) /\ i \in Nat
      BY <1>3, <1>5
    <2> QED
      BY <1>6, <2>1
  <1> QED
    BY <1>3, <1>4, <1>5, <1>6, <1>7

-----------------------------------------------------------------------------
(* Panes of the runtime.                                                    *)

\* A pane as prepare and begin_restart make it.
LEMMA NewPaneType ==
    ASSUME NEW g \in Nat, NEW s \in Layout!States
    PROVE  /\ Layout!NewPane(g, s) \in Layout!PaneRuntime
           /\ Layout!NewPane(g, s).generation = g
           /\ Layout!NewPane(g, s).state = s
           /\ Layout!NewPane(g, s).process = FALSE
BY DEF Layout!NewPane, Layout!PaneRuntime, Layout!Clock

\* A turn's first half keeps the generation and can only drop the process.
LEMMA DrainBytesKeeps ==
    ASSUME NEW pane \in Layout!PaneRuntime, NEW turn \in Layout!Turn, NEW aged \in BOOLEAN
    PROVE  LET after == Layout!DrainBytes(pane, turn, aged)
           IN  /\ after \in Layout!PaneRuntime
               /\ after.generation = pane.generation
               /\ after.process => pane.process
<1>1. Layout!Tick(pane.pending, aged) \in Layout!Clock
  BY DEF Layout!PaneRuntime, Layout!Clock, Layout!Tick
<1>2. CASE turn.read = "error"
  BY <1>1, <1>2 DEF Layout!DrainBytes, Layout!Fail, Layout!PaneRuntime, Layout!States, Layout!Clock
<1>3. CASE turn.read # "error"
  BY <1>1, <1>3 DEF Layout!DrainBytes, Layout!PaneRuntime, Layout!States, Layout!Clock
<1> QED BY <1>2, <1>3

\* The same of the poll for the child's exit.
LEMMA PollExitKeeps ==
    ASSUME NEW pane \in Layout!PaneRuntime, NEW turn \in Layout!Turn
    PROVE  LET after == Layout!PollExit(pane, turn)
           IN  /\ after \in Layout!PaneRuntime
               /\ after.generation = pane.generation
               /\ after.process => pane.process
               /\ after.process => after.state = pane.state
<1>1. turn.waits \in {"running", "exited", "error"}
  BY DEF Layout!Turn
<1> QED BY <1>1 DEF Layout!PollExit, Layout!Fail, Layout!PaneRuntime, Layout!States

\* The pressure check touches the clock and the state alone.
LEMMA UpdatePressureKeeps ==
    ASSUME NEW pane \in Layout!PaneRuntime, NEW turn \in Layout!Turn, NEW aged \in BOOLEAN
    PROVE  LET after == Layout!UpdatePressure(pane, turn, aged)
           IN  /\ after \in Layout!PaneRuntime
               /\ after.generation = pane.generation
               /\ after.process = pane.process
<1>1. Layout!Tick(pane.pressure, aged) \in Layout!Clock
  BY DEF Layout!PaneRuntime, Layout!Clock, Layout!Tick
<1> DEFINE pressure == IF pane.process /\ turn.blocked
                       THEN Layout!Tick(pane.pressure, aged) ELSE "none"
<1>2. pressure \in Layout!Clock
  BY <1>1 DEF Layout!Clock
<1> DEFINE pressured == pane.pending = "old" \/ pressure = "old"
           state == IF pressured THEN "Backpressured"
                    ELSE IF pane.state = "Backpressured" THEN "Running" ELSE pane.state
<1>3. state \in Layout!States
  BY DEF Layout!PaneRuntime, Layout!States
<1>4. Layout!UpdatePressure(pane, turn, aged)
        = [pane EXCEPT !.pressure = pressure, !.state = state]
  BY DEF Layout!UpdatePressure, Layout!PaneRuntime
<1> HIDE DEF pressure, state
<1> QED BY <1>2, <1>3, <1>4 DEF Layout!PaneRuntime

\* The three together are a pane's turn in a drain.
LEMMA AfterTurnKeeps ==
    ASSUME NEW pane \in Layout!PaneRuntime, NEW turn \in Layout!Turn, NEW aged \in BOOLEAN
    PROVE  LET after == Layout!AfterTurn(pane, turn, aged)
           IN  /\ after \in Layout!PaneRuntime
               /\ after.generation = pane.generation
               /\ after.process => pane.process
<1> DEFINE drained == Layout!DrainBytes(pane, turn, aged)
           polled == Layout!PollExit(drained, turn)
<1>1. /\ drained \in Layout!PaneRuntime
      /\ drained.generation = pane.generation
      /\ drained.process => pane.process
  BY DrainBytesKeeps
<1>2. /\ polled \in Layout!PaneRuntime
      /\ polled.generation = drained.generation
      /\ polled.process => drained.process
      /\ polled.process => polled.state = drained.state
  BY <1>1, PollExitKeeps
<1> HIDE DEF drained
<1>3. Layout!AfterTurn(pane, turn, aged) = Layout!UpdatePressure(polled, turn, aged)
  BY DEF Layout!AfterTurn, drained
<1> HIDE DEF polled
<1>4. /\ Layout!UpdatePressure(polled, turn, aged) \in Layout!PaneRuntime
      /\ Layout!UpdatePressure(polled, turn, aged).generation = polled.generation
      /\ Layout!UpdatePressure(polled, turn, aged).process = polled.process
  BY <1>2, UpdatePressureKeeps
<1> QED BY <1>1, <1>2, <1>3, <1>4


\* A drain that reports no change left the state and the process as they were.
LEMMA UnchangedTurn ==
    ASSUME NEW pane, NEW turn, NEW aged, ~Layout!TurnChanges(pane, turn, aged)
    PROVE  /\ Layout!AfterTurn(pane, turn, aged).state = pane.state
           /\ Layout!AfterTurn(pane, turn, aged).process = pane.process
BY DEF Layout!TurnChanges

\* A pane whose start is answered.
Answered(r, p, b, state) == [r EXCEPT ![p].process = @ \/ b, ![p].state = state]

LEMMA StartedPane ==
    ASSUME NEW S, NEW r \in [S -> Layout!PaneRuntime], NEW p \in S, NEW b \in BOOLEAN,
           NEW state \in Layout!States
    PROVE  LET f == Answered(r, p, b, state)
           IN  /\ f \in [S -> Layout!PaneRuntime]
               /\ \A q \in S : q # p => f[q] = r[q]
               /\ f[p].state = state /\ f[p].process = (r[p].process \/ b)
  <1> DEFINE d == [r EXCEPT ![p].process = @ \/ b]
             f == Answered(r, p, b, state)
             held == r[p].process \/ b
  <1>1. held \in BOOLEAN /\ r[p] \in Layout!PaneRuntime
    OBVIOUS
  <1>2. d = [r EXCEPT ![p] = [r[p] EXCEPT !.process = held]]
    OBVIOUS
  <1>3. f = [d EXCEPT ![p].state = state]
    BY DEF Answered
  <1> HIDE DEF d, f, held
  <1> DEFINE e == [r[p] EXCEPT !.process = held]
  <1>4. e \in Layout!PaneRuntime /\ e.process = held
    BY <1>1 DEF Layout!PaneRuntime
  <1> HIDE DEF e
  <1>5. d \in [S -> Layout!PaneRuntime] /\ d[p] = e /\ \A q \in S : q # p => d[q] = r[q]
    BY <1>2, <1>4 DEF e
  <1>6. [d[p] EXCEPT !.state = state] \in Layout!PaneRuntime
        /\ [d[p] EXCEPT !.state = state].state = state
        /\ [d[p] EXCEPT !.state = state].process = held
    BY <1>4, <1>5 DEF Layout!PaneRuntime
  <1>7. f = [d EXCEPT ![p] = [d[p] EXCEPT !.state = state]]
    BY <1>3
  <1> QED
    BY <1>5, <1>6, <1>7 DEF f, held

-----------------------------------------------------------------------------
(* The inductive invariant of the terminal tabs. The layouts in the store   *)
(* are layouts an earlier desktop had, with identifiers below its counters. *)

IsSaved(s) ==
    \E l : \E k \in Nat : IsLayout(l) /\ Below(l, k, k) /\ s = Layout!Snapshot(l)

TabsFit ==
    /\ nextPane \in Nat \ {0} /\ nextTab \in Nat \ {0}
    /\ IsLayout(layout)
    /\ Below(layout, nextPane, nextTab)

\* A pane has a runtime, whose state it shows, and a root while a process is held.
PanesFit ==
    /\ runtime \in [DOMAIN layout.panes -> Layout!PaneRuntime]
    /\ \A p \in DOMAIN layout.panes : layout.panes[p] = runtime[p].state
    /\ DOMAIN holds = {p \in DOMAIN layout.panes : runtime[p].process}
    /\ selections \subseteq DOMAIN layout.panes
    /\ scrolled \subseteq DOMAIN layout.panes

StoreFits ==
    /\ place \in Roots \cup {None} /\ migrated \in BOOLEAN
    /\ DOMAIN stored = Roots
    /\ \A w \in Roots : stored[w] = None \/ IsSaved(stored[w])

LayoutFits == TabsFit /\ PanesFit /\ StoreFits

\* What the run checks of the layout follows.
LEMMA LayoutFitsAgrees ==
    ASSUME LayoutFits
    PROVE  Layout!LayoutTypeOK /\ Layout!LayoutIsRestorable /\ Layout!LayoutShowsRuntime
  <1> USE DEF LayoutFits, TabsFit, PanesFit, StoreFits
  <1>1. Layout!LayoutTypeOK
    BY DEF Layout!LayoutTypeOK, Layout!OpenPanes, Below
  <1>2. Layout!LayoutIsRestorable
    BY SnapshotRestores DEF Layout!LayoutIsRestorable, Layout!OpenPanes
  <1>3. Layout!LayoutShowsRuntime
    BY DEF Layout!LayoutShowsRuntime, Layout!OpenPanes
  <1> QED
    BY <1>1, <1>2, <1>3

LEMMA LayoutInitFits ==
    ASSUME Layout!LayoutInit
    PROVE  LayoutFits
  <1> USE DEF Layout!LayoutInit
  <1>1. TabsFit
    BY NoLayoutIsLayout DEF TabsFit
  <1>2. PanesFit
    <2>1. DOMAIN layout.panes = {}
      BY DEF Layout!NoLayout
    <2> QED
      BY <2>1 DEF PanesFit
  <1>3. \A w \in Roots : stored[w] = None \/ IsSaved(stored[w])
    <2> DEFINE d == Layout!CreateTab(Layout!NoLayout, 1, 1)
    <2>1. IsLayout(d) /\ Below(d, 2, 2)
      BY NoLayoutIsLayout, CreateTabKeeps
    <2> HIDE DEF d
    <2>2. IsSaved(Layout!Snapshot(d))
      BY <2>1 DEF IsSaved
    <2> QED
      BY <2>2 DEF Layout!Left, d
  <1>4. StoreFits
    BY <1>3 DEF StoreFits
  <1> QED
    BY <1>1, <1>2, <1>4 DEF LayoutFits

-----------------------------------------------------------------------------
(* Its steps.                                                               *)

\* A new pane comes to a layout: stopped, with a runtime and without a process.
LEMMA PaneComes ==
    ASSUME LayoutFits, NEW d, IsLayout(d), layout' = d,
           d.panes = Layout!WithPane(layout, nextPane, "Stopped"),
           runtime' = Layout!Prepared(nextPane),
           UNCHANGED <<holds, selections, scrolled>>
    PROVE  PanesFit'
  <1> DEFINE n == nextPane
             S == DOMAIN layout.panes
  <1>1. n \notin S /\ n \in Nat
    BY DEF LayoutFits, TabsFit, Below
  <1>2. runtime \in [S -> Layout!PaneRuntime] /\ \A q \in S : layout.panes[q] = runtime[q].state
    BY DEF LayoutFits, PanesFit
  <1>3. d.panes = [q \in S \cup {n} |-> IF q = n THEN "Stopped" ELSE layout.panes[q]]
    BY DEF Layout!WithPane
  <1>4. runtime' = [q \in S \cup {n} |->
                       IF q = n THEN Layout!NewPane(1, "Stopped") ELSE runtime[q]]
    BY <1>2 DEF Layout!Prepared
  <1>5. /\ Layout!NewPane(1, "Stopped") \in Layout!PaneRuntime
        /\ Layout!NewPane(1, "Stopped").state = "Stopped"
        /\ Layout!NewPane(1, "Stopped").process = FALSE
    BY NewPaneType DEF Layout!States
  <1> DEFINE made == Layout!NewPane(1, "Stopped")
  <1> HIDE DEF made, n
  <1>6. runtime' \in [S \cup {n} -> Layout!PaneRuntime]
    BY <1>2, <1>4, <1>5 DEF made
  <1>7. \A q \in S \cup {n} : d.panes[q] = runtime'[q].state
    BY <1>2, <1>3, <1>4, <1>5 DEF made
  <1>8. {q \in S \cup {n} : runtime'[q].process} = {q \in S : runtime[q].process}
    BY <1>1, <1>4, <1>5 DEF made
  <1>9. DOMAIN d.panes = S \cup {n}
    BY <1>3
  <1> QED
    BY <1>6, <1>7, <1>8, <1>9 DEF LayoutFits, PanesFit

LEMMA NewTerminalFits ==
    ASSUME LayoutFits, Layout!NewTerminal
    PROVE  LayoutFits'
  <1> USE DEF Layout!NewTerminal
  <1> DEFINE d == Layout!CreateTab(layout, nextTab, nextPane)
  <1>1. /\ nextPane \in Nat \ {0} /\ nextTab \in Nat \ {0}
        /\ IsLayout(layout) /\ Below(layout, nextPane, nextTab)
    BY DEF LayoutFits, TabsFit
  <1>2. /\ IsLayout(d) /\ Below(d, nextPane + 1, nextTab + 1)
        /\ d.panes = Layout!WithPane(layout, nextPane, "Stopped")
    BY <1>1, CreateTabKeeps
  <1>3. layout' = d
    OBVIOUS
  <1> HIDE DEF d
  <1>4. TabsFit'
    BY <1>1, <1>2, <1>3 DEF TabsFit
  <1>5. PanesFit'
    BY <1>2, <1>3, PaneComes
  <1>6. StoreFits'
    BY DEF LayoutFits, StoreFits
  <1> QED
    BY <1>4, <1>5, <1>6 DEF LayoutFits

LEMMA SplitTerminalFits ==
    ASSUME LayoutFits, Layout!SplitTerminal
    PROVE  LayoutFits'
  <1> USE DEF Layout!SplitTerminal
  <1> DEFINE d == Layout!SplitFocused(layout, nextPane)
  <1>1. /\ nextPane \in Nat \ {0} /\ nextTab \in Nat \ {0}
        /\ IsLayout(layout) /\ Below(layout, nextPane, nextTab)
    BY DEF LayoutFits, TabsFit
  <1>2. /\ IsLayout(d) /\ Below(d, nextPane + 1, nextTab)
        /\ d.panes = Layout!WithPane(layout, nextPane, "Stopped")
    BY <1>1, SplitFocusedKeeps
  <1>3. layout' = d
    OBVIOUS
  <1> HIDE DEF d
  <1>4. TabsFit'
    BY <1>1, <1>2, <1>3 DEF TabsFit
  <1>5. PanesFit'
    BY <1>2, <1>3, PaneComes
  <1>6. StoreFits'
    BY DEF LayoutFits, StoreFits
  <1> QED
    BY <1>4, <1>5, <1>6 DEF LayoutFits

\* Another tab or another pane has the focus.
LEMMA ShowsFits ==
    ASSUME LayoutFits, NEW d, Layout!Shows(d), IsLayout(d), d.panes = layout.panes,
           \A n, m \in Nat : Below(layout, n, m) => Below(d, n, m)
    PROVE  LayoutFits'
  <1> USE DEF Layout!Shows
  <1>1. TabsFit'
    BY DEF LayoutFits, TabsFit
  <1>2. PanesFit'
    BY DEF LayoutFits, PanesFit
  <1>3. StoreFits'
    BY DEF LayoutFits, StoreFits
  <1> QED
    BY <1>1, <1>2, <1>3 DEF LayoutFits

LEMMA RelativeIs ==
    ASSUME NEW n \in Nat, NEW i \in 1..n, NEW reverse \in BOOLEAN
    PROVE  Layout!Relative(i, n, reverse) \in 1..n
  <1>1. i % n \in 0..(n - 1)
    OBVIOUS
  <1> QED
    BY <1>1 DEF Layout!Relative

LEMMA FocusFits ==
    ASSUME LayoutFits
    PROVE  /\ \A i : Layout!ActivateTerminalTab(i) => LayoutFits'
           /\ \A b \in BOOLEAN : Layout!ActivateRelativeTerminalTab(b) => LayoutFits'
           /\ \A b \in BOOLEAN : Layout!FocusRelativeTerminalPane(b) => LayoutFits'
           /\ \A p : Layout!FocusTerminalPane(p) => LayoutFits'
  <1>1. IsLayout(layout) /\ DOMAIN layout.tabs = 1..Len(layout.tabs) /\ Len(layout.tabs) \in Nat
    BY DEF LayoutFits, TabsFit, IsLayout, AreTabs
  <1>2. ASSUME NEW i \in 1..Len(layout.tabs),
               Layout!Shows([layout EXCEPT !.active = layout.tabs[i].id])
        PROVE  LayoutFits'
    BY <1>1, <1>2, ActivateKeeps, ShowsFits
  <1>3. ASSUME layout.active # None,
               NEW p \in Layout!ToSet(Layout!ActiveTab(layout).root),
               Layout!Shows(Layout!FocusPane(layout, p))
        PROVE  LayoutFits'
    BY <1>1, <1>3, FocusPaneKeeps, ShowsFits
  <1>4. ASSUME NEW i, Layout!ActivateTerminalTab(i) PROVE LayoutFits'
    BY <1>1, <1>2, <1>4 DEF Layout!ActivateTerminalTab
  <1>5. ASSUME NEW b \in BOOLEAN, Layout!ActivateRelativeTerminalTab(b) PROVE LayoutFits'
    <2> DEFINE i == Layout!TabIndex(layout, layout.active)
               j == Layout!Relative(i, Len(layout.tabs), b)
    <2>1. i \in 1..Len(layout.tabs)
      BY <1>1, <1>5, ActiveIs DEF Layout!ActivateRelativeTerminalTab
    <2>2. Layout!Shows([layout EXCEPT !.active = layout.tabs[j].id])
      BY <1>5 DEF Layout!ActivateRelativeTerminalTab
    <2> HIDE DEF i
    <2>3. j \in 1..Len(layout.tabs)
      BY <1>1, <2>1, RelativeIs
    <2> HIDE DEF j
    <2> QED
      BY <1>2, <2>2, <2>3
  <1>6. ASSUME NEW b \in BOOLEAN, Layout!FocusRelativeTerminalPane(b) PROVE LayoutFits'
    <2> DEFINE k == Layout!TabIndex(layout, layout.active)
               r == Layout!ActiveTab(layout).root
               i == Layout!LeafOf(r, Layout!FocusedPane(layout))
               j == Layout!Relative(i, Len(r), b)
    <2>1. layout.active # None /\ Layout!Shows(Layout!FocusPane(layout, r[j]))
      BY <1>6 DEF Layout!FocusRelativeTerminalPane
    <2>2. /\ k \in 1..Len(layout.tabs) /\ Layout!ActiveTab(layout) = layout.tabs[k]
          /\ Layout!FocusedPane(layout) = layout.tabs[k].focused
      BY <1>1, <2>1, ActiveIs
    <2>3. IsRoot(r) /\ Layout!FocusedPane(layout) \in Layout!ToSet(r)
      BY <1>1, <2>2 DEF IsLayout, AreTabs, IsTab
    <2> HIDE DEF k, r
    <2>4. i \in 1..Len(r) /\ Len(r) \in Nat
      BY <2>3, LeafOfIs DEF IsRoot
    <2> HIDE DEF i
    <2>5. j \in 1..Len(r)
      BY <2>4, RelativeIs
    <2> HIDE DEF j
    <2>6. r[j] \in Layout!ToSet(r)
      BY <2>3, <2>5 DEF IsRoot, Layout!ToSet
    <2> QED
      BY <1>3, <2>1, <2>6 DEF r
  <1>7. ASSUME NEW p, Layout!FocusTerminalPane(p) PROVE LayoutFits'
    BY <1>3, <1>7 DEF Layout!FocusTerminalPane, Layout!ContainsPane
  <1> QED
    BY <1>4, <1>5, <1>6, <1>7

\* One pane has another state, in the layout and in the runtime, and a process or none.
LEMMA PaneTurns ==
    ASSUME LayoutFits, NEW p \in DOMAIN layout.panes, NEW r \in Layout!PaneRuntime,
           runtime' \in [DOMAIN layout.panes -> Layout!PaneRuntime], runtime'[p] = r,
           \A q \in DOMAIN layout.panes : q # p => runtime'[q] = runtime[q],
           layout' = [layout EXCEPT !.panes[p] = r.state],
           DOMAIN holds' = IF r.process THEN DOMAIN holds \cup {p} ELSE DOMAIN holds \ {p},
           UNCHANGED <<selections, scrolled, nextPane, nextTab, place, migrated, stored>>
    PROVE  LayoutFits'
  <1> DEFINE d == [layout EXCEPT !.panes[p] = r.state]
             S == DOMAIN layout.panes
  <1>1. r.state \in Layout!States /\ r.process \in BOOLEAN
    BY DEF Layout!PaneRuntime
  <1>2. /\ IsLayout(d) /\ d.panes = [layout.panes EXCEPT ![p] = r.state] /\ d.tabs = layout.tabs
        /\ \A n, m \in Nat : Below(layout, n, m) => Below(d, n, m)
    BY <1>1, PaneStateKeeps DEF LayoutFits, TabsFit
  <1>3. layout' = d
    OBVIOUS
  <1> HIDE DEF d
  <1>4. TabsFit'
    BY <1>2, <1>3 DEF LayoutFits, TabsFit
  <1>5. DOMAIN d.panes = S /\ \A q \in S : d.panes[q] = runtime'[q].state
    BY <1>2 DEF LayoutFits, PanesFit
  <1>6. DOMAIN holds' = {q \in S : runtime'[q].process}
    BY <1>1 DEF LayoutFits, PanesFit
  <1>7. PanesFit'
    BY <1>3, <1>5, <1>6 DEF LayoutFits, PanesFit
  <1>8. StoreFits'
    BY DEF LayoutFits, StoreFits
  <1> QED
    BY <1>4, <1>7, <1>8 DEF LayoutFits

LEMMA BeginsFits ==
    ASSUME LayoutFits, NEW p, Layout!CanStart(p), Layout!Begins(p)
    PROVE  LayoutFits'
  <1> DEFINE r == Layout!NewPane(runtime[p].generation + 1, "Starting")
             S == DOMAIN layout.panes
  <1>1. p \in S /\ runtime \in [S -> Layout!PaneRuntime]
    BY DEF Layout!CanStart, Layout!OpenPanes, LayoutFits, PanesFit
  <1>2. runtime[p].generation + 1 \in Nat
    BY <1>1 DEF Layout!PaneRuntime
  <1>3. r \in Layout!PaneRuntime /\ r.state = "Starting" /\ r.process = FALSE
    BY <1>2, NewPaneType DEF Layout!States
  <1>4. /\ runtime' = [runtime EXCEPT ![p] = r]
        /\ layout' = [layout EXCEPT !.panes[p] = "Starting"]
        /\ DOMAIN holds' = DOMAIN holds \ {p}
        /\ UNCHANGED <<selections, scrolled, nextPane, nextTab, place, migrated, stored>>
    BY DEF Layout!Begins
  <1> HIDE DEF r
  <1>5. /\ runtime' \in [S -> Layout!PaneRuntime] /\ runtime'[p] = r
        /\ \A q \in S : q # p => runtime'[q] = runtime[q]
    BY <1>1, <1>3, <1>4
  <1> QED
    BY <1>1, <1>3, <1>4, <1>5, PaneTurns

\* What no part of the invariant is about.
LEMMA NothingTurns ==
    ASSUME LayoutFits,
           UNCHANGED <<layout, runtime, holds, selections, nextPane, nextTab, place, migrated,
                       stored>>,
           scrolled' \subseteq DOMAIN layout.panes
    PROVE  LayoutFits'
BY DEF LayoutFits, TabsFit, PanesFit, StoreFits

LEMMA StartsFit ==
    ASSUME LayoutFits
    PROVE  /\ \A p : Layout!StartTerminal(p) => LayoutFits'
           /\ \A p : Layout!RestartTerminal(p) => LayoutFits'
  <1>1. ASSUME NEW p, Layout!StartTerminal(p) PROVE LayoutFits'
    <2>1. CASE Layout!CanStart(p)
      BY <1>1, <2>1, BeginsFits DEF Layout!StartTerminal
    <2>2. CASE ~Layout!CanStart(p)
      BY <1>1, <2>2, NothingTurns DEF Layout!StartTerminal, Layout!surfaces, LayoutFits, PanesFit
    <2> QED
      BY <2>1, <2>2
  <1>2. ASSUME NEW p, Layout!RestartTerminal(p) PROVE LayoutFits'
    BY <1>2, BeginsFits DEF Layout!RestartTerminal
  <1> QED
    BY <1>1, <1>2

LEMMA TerminalStartedFits ==
    ASSUME LayoutFits, NEW job, Layout!TerminalStarted(job)
    PROVE  LayoutFits'
  <1> DEFINE p == job.pane
             S == DOMAIN layout.panes
             latest == p \in DOMAIN runtime /\ runtime[p].generation = job.generation
             spawned == job.result = "spawned"
             state == IF spawned THEN "Running" ELSE "Failed"
             f == Answered(runtime, p, spawned, state)
  <1>1. runtime \in [S -> Layout!PaneRuntime] /\ DOMAIN holds = {q \in S : runtime[q].process}
    BY DEF LayoutFits, PanesFit
  <1>2. CASE latest
    <2>1. p \in S
      BY <1>1, <1>2
    <2>2. spawned \in BOOLEAN /\ state \in Layout!States
      BY DEF Layout!States
    <2>3. /\ runtime' = f /\ layout' = [layout EXCEPT !.panes[p] = state]
          /\ spawned => DOMAIN holds' = DOMAIN holds \cup {p}
          /\ ~spawned => holds' = holds
          /\ UNCHANGED <<selections, scrolled, nextPane, nextTab, place, migrated, stored>>
      BY <1>2 DEF Answered, Layout!TerminalStarted
    <2> HIDE DEF spawned, state, p
    <2>4. /\ f \in [S -> Layout!PaneRuntime] /\ \A q \in S : q # p => f[q] = runtime[q]
          /\ f[p].state = state /\ f[p].process = (runtime[p].process \/ spawned)
      BY <1>1, <2>1, <2>2, StartedPane
    <2> HIDE DEF f
    <2>5. f[p] \in Layout!PaneRuntime
      BY <2>1, <2>4
    <2>6. DOMAIN holds' = IF f[p].process THEN DOMAIN holds \cup {p} ELSE DOMAIN holds \ {p}
      <3>1. CASE spawned
        BY <2>3, <2>4, <3>1
      <3>2. CASE ~spawned
        <4>1. f[p].process = runtime[p].process
          BY <1>1, <2>1, <2>4, <3>2 DEF Layout!PaneRuntime
        <4>2. p \in DOMAIN holds <=> runtime[p].process
          BY <1>1, <2>1
        <4> QED
          BY <2>3, <3>2, <4>1, <4>2
      <3> QED
        BY <3>1, <3>2
    <2>7. layout' = [layout EXCEPT !.panes[p] = f[p].state]
      BY <2>3, <2>4
    <2> DEFINE r == f[p]
    <2>8. /\ runtime' \in [S -> Layout!PaneRuntime] /\ runtime'[p] = r
          /\ \A q \in S : q # p => runtime'[q] = runtime[q]
      BY <2>3, <2>4
    <2>9. /\ r \in Layout!PaneRuntime /\ layout' = [layout EXCEPT !.panes[p] = r.state]
          /\ DOMAIN holds' = IF r.process THEN DOMAIN holds \cup {p} ELSE DOMAIN holds \ {p}
          /\ UNCHANGED <<selections, scrolled, nextPane, nextTab, place, migrated, stored>>
      BY <2>3, <2>5, <2>6, <2>7
    <2> HIDE DEF r
    <2> QED
      BY <2>1, <2>8, <2>9, PaneTurns
  <1>3. CASE ~latest
    BY <1>3, NothingTurns DEF Layout!TerminalStarted, LayoutFits, PanesFit
  <1> QED
    BY <1>2, <1>3

LEMMA PollTerminalFits ==
    ASSUME LayoutFits, NEW p, Layout!PollTerminal(p)
    PROVE  LayoutFits'
  <1> DEFINE S == DOMAIN layout.panes
  <1>1. p \in S /\ runtime \in [S -> Layout!PaneRuntime]
        /\ layout.panes[p] = runtime[p].state /\ DOMAIN holds = {q \in S : runtime[q].process}
    BY DEF Layout!PollTerminal, LayoutFits, PanesFit
  <1>2. PICK turn \in Layout!TurnsOf(runtime[p]), aged \in BOOLEAN :
           LET after == Layout!AfterTurn(runtime[p], turn, aged) IN
           /\ runtime' = [runtime EXCEPT ![p] = after]
           /\ layout' = IF Layout!TurnChanges(runtime[p], turn, aged)
                        THEN [layout EXCEPT !.panes[p] = after.state] ELSE layout
           /\ holds' = [q \in {r \in DOMAIN holds : r # p \/ after.process} |-> holds[q]]
    BY DEF Layout!PollTerminal
  <1>3. turn \in Layout!Turn
    BY DEF Layout!TurnsOf
  <1> DEFINE after == Layout!AfterTurn(runtime[p], turn, aged)
  <1>4. after \in Layout!PaneRuntime /\ (after.process => runtime[p].process)
    BY <1>1, <1>3, AfterTurnKeeps
  <1>5. ~Layout!TurnChanges(runtime[p], turn, aged) => after.state = runtime[p].state
    BY UnchangedTurn
  <1>6. /\ runtime' = [runtime EXCEPT ![p] = after]
        /\ layout' = IF Layout!TurnChanges(runtime[p], turn, aged)
                     THEN [layout EXCEPT !.panes[p] = after.state] ELSE layout
        /\ DOMAIN holds' = {r \in DOMAIN holds : r # p \/ after.process}
    BY <1>2
  <1> HIDE DEF after
  <1>7. layout' = [layout EXCEPT !.panes[p] = after.state]
    <2>1. CASE Layout!TurnChanges(runtime[p], turn, aged)
      BY <1>6, <2>1
    <2>2. CASE ~Layout!TurnChanges(runtime[p], turn, aged)
      <3>1. layout.panes[p] = after.state /\ layout' = layout
        BY <1>1, <1>5, <1>6, <2>2
      <3>2. layout = [tabs |-> layout.tabs, active |-> layout.active, panes |-> layout.panes]
            /\ layout.panes \in [S -> Layout!States]
        BY DEF LayoutFits, TabsFit, IsLayout
      <3>3. layout.panes = [layout.panes EXCEPT ![p] = after.state]
        BY <1>1, <3>1, <3>2
      <3> QED
        BY <3>1, <3>2, <3>3
    <2> QED
      BY <2>1, <2>2
  <1>8. DOMAIN holds' = IF after.process THEN DOMAIN holds \cup {p} ELSE DOMAIN holds \ {p}
    BY <1>1, <1>4, <1>6
  <1>9. /\ runtime' \in [S -> Layout!PaneRuntime] /\ runtime'[p] = after
        /\ \A q \in S : q # p => runtime'[q] = runtime[q]
    BY <1>1, <1>4, <1>6
  <1>10. UNCHANGED <<selections, scrolled, nextPane, nextTab, place, migrated, stored>>
    BY DEF Layout!PollTerminal
  <1> QED
    BY <1>1, <1>4, <1>7, <1>8, <1>9, <1>10, PaneTurns

LEMMA ClosesFits ==
    ASSUME LayoutFits, NEW p, Layout!Closes(p)
    PROVE  LayoutFits'
  <1> DEFINE S == DOMAIN layout.panes
             d == Layout!ClosePane(layout, p)
  <1>1. CASE p \in S
    <2>1. /\ layout' = d
          /\ runtime' = [q \in DOMAIN runtime \ {p} |-> runtime[q]]
          /\ DOMAIN holds' = DOMAIN holds \ {p}
          /\ selections' = selections \ {p}
          /\ scrolled' = scrolled \ {p}
          /\ UNCHANGED <<nextPane, nextTab, place, migrated, stored>>
      BY <1>1 DEF Layout!Closes, Layout!OpenPanes
    <2>2. /\ IsLayout(d) /\ d.panes = [q \in S \ {p} |-> layout.panes[q]]
          /\ \A n, m \in Nat : Below(layout, n, m) => Below(d, n, m)
      BY <1>1, ClosePaneKeeps DEF LayoutFits, TabsFit
    <2> HIDE DEF d
    <2>3. TabsFit'
      BY <2>1, <2>2 DEF LayoutFits, TabsFit
    <2>4. /\ runtime \in [S -> Layout!PaneRuntime]
          /\ \A q \in S : layout.panes[q] = runtime[q].state
          /\ DOMAIN holds = {q \in S : runtime[q].process}
          /\ selections \subseteq S /\ scrolled \subseteq S
      BY DEF LayoutFits, PanesFit
    <2>5. DOMAIN d.panes = S \ {p} /\ \A q \in S \ {p} : d.panes[q] = layout.panes[q]
      BY <2>2
    <2>6. /\ runtime' \in [S \ {p} -> Layout!PaneRuntime]
          /\ \A q \in S \ {p} : runtime'[q] = runtime[q]
      BY <2>1, <2>4
    <2>7. DOMAIN holds' = {q \in S \ {p} : runtime'[q].process}
      BY <2>1, <2>4, <2>6
    <2>8. PanesFit'
      BY <2>1, <2>4, <2>5, <2>6, <2>7 DEF PanesFit
    <2>9. StoreFits'
      BY <2>1 DEF LayoutFits, StoreFits
    <2> QED
      BY <2>3, <2>8, <2>9 DEF LayoutFits
  <1>2. CASE p \notin S
    <2>1. UNCHANGED <<layout, runtime, holds, selections, scrolled, nextPane, nextTab, place,
                      migrated, stored>>
      BY <1>2 DEF Layout!Closes, Layout!OpenPanes, Layout!surfaces
    <2> QED
      BY <2>1, NothingTurns DEF LayoutFits, PanesFit
  <1> QED
    BY <1>1, <1>2

LEMMA ClosesFit ==
    ASSUME LayoutFits
    PROVE  /\ \A p : Layout!RequestCloseTerminal(p) => LayoutFits'
           /\ \A b : Layout!ResolveCloseTerminal(b) => LayoutFits'
  <1>1. ASSUME UNCHANGED <<Layout!surfaces, nextPane, nextTab, place, migrated, stored>>
        PROVE  LayoutFits'
    BY <1>1, NothingTurns DEF Layout!surfaces, LayoutFits, PanesFit
  <1>2. ASSUME NEW p, Layout!RequestCloseTerminal(p) PROVE LayoutFits'
    <2>1. CASE Layout!RunningPane(p)
      BY <1>1, <1>2, <2>1 DEF Layout!RequestCloseTerminal
    <2>2. CASE ~Layout!RunningPane(p)
      BY <1>2, <2>2, ClosesFits DEF Layout!RequestCloseTerminal
    <2> QED
      BY <2>1, <2>2
  <1>3. ASSUME NEW b, Layout!ResolveCloseTerminal(b) PROVE LayoutFits'
    <2>1. CASE b
      BY <1>3, <2>1, ClosesFits DEF Layout!ResolveCloseTerminal
    <2>2. CASE ~b
      BY <1>1, <1>3, <2>2 DEF Layout!ResolveCloseTerminal
    <2> QED
      BY <2>1, <2>2
  <1> QED
    BY <1>2, <1>3

\* Selections, scrolls, input and pastes.
LEMMA InputFits ==
    ASSUME LayoutFits
    PROVE  /\ \A p : Layout!SelectTerminal(p) => LayoutFits'
           /\ \A p, b : Layout!ScrollTerminal(p, b) => LayoutFits'
           /\ \A p : Layout!TerminalInput(p) => LayoutFits'
           /\ \A p : Layout!RequestTerminalPaste(p) => LayoutFits'
           /\ \A r, b : Layout!TerminalClipboardRead(r, b) => LayoutFits'
           /\ \A b : Layout!ResolveTerminalPaste(b) => LayoutFits'
  <1> USE DEF Layout!OpenPanes, Layout!surfaces
  <1>0. scrolled \subseteq DOMAIN layout.panes
    BY DEF LayoutFits, PanesFit
  <1>1. ASSUME NEW p, Layout!SelectTerminal(p) PROVE LayoutFits'
    BY <1>1 DEF Layout!SelectTerminal, LayoutFits, TabsFit, PanesFit, StoreFits
  <1>2. ASSUME NEW p, NEW b, Layout!ScrollTerminal(p, b) PROVE LayoutFits'
    BY <1>0, <1>2, NothingTurns DEF Layout!ScrollTerminal
  <1>3. ASSUME NEW p, Layout!Writes(p) PROVE LayoutFits'
    BY <1>0, <1>3, NothingTurns DEF Layout!Writes
  <1>4. ASSUME NEW p, Layout!TerminalInput(p) PROVE LayoutFits'
    BY <1>3, <1>4 DEF Layout!TerminalInput
  <1>5. ASSUME NEW p, Layout!RequestTerminalPaste(p) PROVE LayoutFits'
    BY <1>0, <1>5, NothingTurns DEF Layout!RequestTerminalPaste
  <1>6. ASSUME NEW r, NEW b, Layout!TerminalClipboardRead(r, b) PROVE LayoutFits'
    BY <1>0, <1>3, <1>6, NothingTurns DEF Layout!TerminalClipboardRead
  <1>7. ASSUME NEW b, Layout!ResolveTerminalPaste(b) PROVE LayoutFits'
    BY <1>0, <1>3, <1>7, NothingTurns DEF Layout!ResolveTerminalPaste
  <1> QED
    BY <1>1, <1>2, <1>4, <1>5, <1>6, <1>7

LEMMA PersistLayoutFits ==
    ASSUME LayoutFits, Layout!PersistLayout
    PROVE  LayoutFits'
  <1> USE DEF Layout!PersistLayout
  <1>1. TabsFit'
    BY DEF LayoutFits, TabsFit, Layout!surfaces
  <1>2. PanesFit'
    BY DEF LayoutFits, PanesFit, Layout!surfaces
  <1> DEFINE s == Layout!Snapshot(layout)
  <1>3. IsSaved(s)
    <2> DEFINE k == nextPane + nextTab
    <2>1. k \in Nat /\ Below(layout, k, k) /\ IsLayout(layout)
      BY DEF LayoutFits, TabsFit, Below
    <2> HIDE DEF k
    <2> QED
      BY <2>1 DEF IsSaved
  <1>4. place \in Roots /\ stored' = [stored EXCEPT ![place] = s]
    BY DEF LayoutFits, StoreFits
  <1> HIDE DEF s
  <1>5. DOMAIN stored' = Roots /\ \A w \in Roots : stored'[w] = IF w = place THEN s ELSE stored[w]
    BY <1>4 DEF LayoutFits, StoreFits
  <1>6. \A w \in Roots : stored'[w] = None \/ IsSaved(stored'[w])
    BY <1>3, <1>5 DEF LayoutFits, StoreFits
  <1>7. StoreFits'
    BY <1>5, <1>6 DEF LayoutFits, StoreFits, Layout!surfaces
  <1> QED
    BY <1>1, <1>2, <1>7 DEF LayoutFits

\* What a workspace is opened with.
LEMMA WorkspaceOpenedFits ==
    ASSUME LayoutFits, NEW w \in Roots, Layout!WorkspaceOpened(w)
    PROVE  LayoutFits'
  <1> DEFINE d == IF stored[w] # None /\ Layout!ValidSnapshot(stored[w])
                  THEN Layout!Restore(stored[w]) ELSE Layout!NoLayout
             S == DOMAIN d.panes
             ids == {d.tabs[i].id : i \in DOMAIN d.tabs}
             n == Layout!Reserve(nextPane, S)
             m == Layout!Reserve(nextTab, ids)
  <1>1. /\ layout' = d /\ runtime' = [p \in S |-> Layout!NewPane(1, "Stopped")]
        /\ nextPane' = n /\ nextTab' = m
        /\ DOMAIN holds' = {} /\ selections' = {} /\ scrolled' = {}
        /\ place' = w /\ migrated' = FALSE /\ UNCHANGED stored
    BY DEF Layout!WorkspaceOpened
  <1>2. /\ IsLayout(d) /\ \E k \in Nat : Below(d, k, k)
        /\ \A p \in S : d.panes[p] = "Stopped"
    <2>1. CASE stored[w] # None /\ Layout!ValidSnapshot(stored[w])
      <3>1. PICK l : \E k \in Nat : IsLayout(l) /\ Below(l, k, k) /\ stored[w] = Layout!Snapshot(l)
        BY <2>1 DEF LayoutFits, StoreFits, IsSaved
      <3>2. d = Layout!Restore(Layout!Snapshot(l)) /\ IsLayout(l)
        BY <2>1, <3>1
      <3> HIDE DEF d
      <3> DEFINE e == [l EXCEPT !.panes = [p \in DOMAIN l.panes |-> "Stopped"]]
      <3>4. /\ Layout!Restore(Layout!Snapshot(l)) = e /\ IsLayout(e)
            /\ e.panes = [p \in DOMAIN l.panes |-> "Stopped"] /\ e.tabs = l.tabs
        BY <3>2, SnapshotRestores
      <3> HIDE DEF e
      <3>3. /\ IsLayout(d) /\ d.panes = [p \in DOMAIN l.panes |-> "Stopped"] /\ d.tabs = l.tabs
        BY <3>2, <3>4
      <3> QED
        BY <3>1, <3>3 DEF Below
    <2>2. CASE ~(stored[w] # None /\ Layout!ValidSnapshot(stored[w]))
      <3>1. d = Layout!NoLayout /\ DOMAIN Layout!NoLayout.panes = {}
        BY <2>2 DEF Layout!NoLayout
      <3> HIDE DEF d
      <3> QED
        BY <3>1, NoLayoutIsLayout
    <2> QED
      BY <2>1, <2>2
  <1> HIDE DEF d
  <1>3. PICK k \in Nat : Below(d, k, k)
    BY <1>2
  <1>4. nextPane \in Nat \ {0} /\ nextTab \in Nat \ {0}
    BY DEF LayoutFits, TabsFit
  <1>5. DOMAIN d.tabs = 1..Len(d.tabs)
    BY <1>2 DEF IsLayout, AreTabs
  <1>6. /\ S \in SUBSET Nat /\ \A p \in S : p >= 1 /\ p < k
        /\ ids \in SUBSET Nat /\ \A i \in ids : i >= 1 /\ i < k
    BY <1>3, <1>5 DEF Below
  <1>7. n \in Nat /\ n >= nextPane /\ \A p \in S : p < n
    BY <1>4, <1>6, ReserveIsAbove
  <1>8. m \in Nat /\ m >= nextTab /\ \A i \in ids : i < m
    <2> HIDE DEF ids
    <2> QED
      BY <1>4, <1>6, ReserveIsAbove
  <1>9. \A i \in 1..Len(d.tabs) : d.tabs[i].id \in ids
    BY <1>5
  <1> HIDE DEF ids, n, m
  <1>10. Below(d, n, m)
    <2>1. ASSUME NEW p \in S PROVE p \in 1..(n - 1)
      <3>1. p \in Nat /\ p >= 1 /\ p < n
        BY <1>6, <1>7
      <3> QED
        BY <1>7, <3>1
    <2>2. ASSUME NEW i \in 1..Len(d.tabs) PROVE d.tabs[i].id \in 1..(m - 1)
      <3>1. d.tabs[i].id \in Nat /\ d.tabs[i].id >= 1 /\ d.tabs[i].id < m
        BY <1>6, <1>8, <1>9
      <3> QED
        BY <1>8, <3>1
    <2> QED
      BY <2>1, <2>2 DEF Below
  <1>11. TabsFit'
    BY <1>1, <1>2, <1>4, <1>7, <1>8, <1>10 DEF TabsFit
  <1>12. /\ Layout!NewPane(1, "Stopped") \in Layout!PaneRuntime
         /\ Layout!NewPane(1, "Stopped").state = "Stopped"
         /\ Layout!NewPane(1, "Stopped").process = FALSE
    BY NewPaneType DEF Layout!States
  <1>13. PanesFit'
    BY <1>1, <1>2, <1>12 DEF PanesFit
  <1>14. StoreFits'
    BY <1>1 DEF LayoutFits, StoreFits
  <1> QED
    BY <1>11, <1>13, <1>14 DEF LayoutFits

LEMMA LayoutStepFits ==
    ASSUME LayoutFits, Layout!LayoutNext
    PROVE  LayoutFits'
  <1>1. ASSUME NEW job, Layout!RunSpawn(job) PROVE LayoutFits'
    BY <1>1, NothingTurns DEF Layout!RunSpawn, Layout!surfaces, LayoutFits, PanesFit
  <1>2. ASSUME Layout!MigrationCompleted PROVE LayoutFits'
    BY <1>2 DEF Layout!MigrationCompleted, Layout!surfaces, LayoutFits, TabsFit, PanesFit, StoreFits
  <1> QED
    BY <1>1, <1>2, NewTerminalFits, SplitTerminalFits, FocusFits, StartsFit, TerminalStartedFits,
       PollTerminalFits, ClosesFit, InputFits, PersistLayoutFits, WorkspaceOpenedFits
       DEF Layout!LayoutNext

-----------------------------------------------------------------------------
(* The shell: the values it can have, and what each command makes of one.   *)

Surfaces == Frame!Tools \cup {None}
Canvases == [primary : Activities \cup Frame!Tools, secondary : Surfaces]
Promotions == [prior : Canvases, surface : Surfaces]
Drawers == [surface : Surfaces, visible : BOOLEAN]
Shells ==
    [activity : Activities, sidebar : BOOLEAN, context : BOOLEAN, canvas : Canvases,
     drawerVisible : BOOLEAN, drawer : Drawers, focus : Frame!Regions,
     promotion : Promotions \cup {None}]

\* A promoted surface is on the canvas.
IsShown(s) == s.promotion # None => Frame!CanvasContains(s.canvas, s.promotion.surface)
IsShell(s) == s \in Shells /\ IsShown(s)

\* The command center has the focus only if it had it before.
Unfocused(s, t) == s.focus = "CommandCenter" => t.focus = "CommandCenter"

LEMMA DefaultIsShell ==
    IsShell(Frame!DefaultShell) /\ Frame!DefaultShell.focus = "Canvas"
BY ActivitiesAssumption
   DEF IsShell, IsShown, Shells, Canvases, Drawers, Surfaces, Frame!DefaultShell, Frame!Single,
       Frame!Tools, Frame!Regions

LEMMA TogglesKeep ==
    ASSUME NEW s, IsShell(s)
    PROVE  /\ IsShell(Frame!ContextToggled(s)) /\ Unfocused(Frame!ContextToggled(s), s)
           /\ IsShell(Frame!ExplorerToggled(s)) /\ Unfocused(Frame!ExplorerToggled(s), s)
           /\ IsShell(Frame!DrawerToggled(s)) /\ Unfocused(Frame!DrawerToggled(s), s)
  <1> USE DEF IsShell, IsShown, Shells, Frame!Regions, Frame!FocusLeaves, Unfocused
  <1>1. IsShell(Frame!ContextToggled(s)) /\ Unfocused(Frame!ContextToggled(s), s)
    BY DEF Frame!ContextToggled
  <1>2. IsShell(Frame!ExplorerToggled(s)) /\ Unfocused(Frame!ExplorerToggled(s), s)
    BY DEF Frame!ExplorerToggled
  <1>3. IsShell(Frame!DrawerToggled(s)) /\ Unfocused(Frame!DrawerToggled(s), s)
    BY DEF Frame!DrawerToggled, Drawers
  <1> QED
    BY <1>1, <1>2, <1>3

LEMMA DrawerOpenedKeeps ==
    ASSUME NEW s, IsShell(s), NEW surface \in Surfaces
    PROVE  /\ IsShell(Frame!DrawerOpened(s, surface))
           /\ Frame!DrawerOpened(s, surface).focus = s.focus
BY DEF IsShell, IsShown, Shells, Drawers, Frame!DrawerOpened

LEMMA FocusedKeeps ==
    ASSUME NEW s, IsShell(s), NEW region \in Frame!Regions
    PROVE  IsShell([s EXCEPT !.focus = region]) /\ [s EXCEPT !.focus = region].focus = region
BY DEF IsShell, IsShown, Shells

LEMMA ActivitySelectedKeeps ==
    ASSUME NEW s, IsShell(s), NEW a \in Activities
    PROVE  /\ IsShell(Frame!ActivitySelected(s, a))
           /\ Unfocused(Frame!ActivitySelected(s, a), s)
  <1> DEFINE shown == [s EXCEPT !.activity = a, !.sidebar = TRUE, !.focus = "Canvas"]
             other == [shown EXCEPT !.canvas = Frame!Single(a), !.promotion = None]
  <1>1. IsShell(shown) /\ shown.focus = "Canvas"
    BY DEF IsShell, IsShown, Shells, Frame!Regions
  <1>2. Frame!ActivitySelected(s, a) \in {shown, other}
    BY DEF Frame!ActivitySelected
  <1> HIDE DEF shown
  <1>3. Frame!Single(a) \in Canvases
    BY DEF Frame!Single, Canvases, Surfaces
  <1>4. IsShell(other) /\ other.focus = "Canvas"
    BY <1>1, <1>3 DEF IsShell, IsShown, Shells
  <1> HIDE DEF other
  <1> QED
    BY <1>1, <1>2, <1>4 DEF Unfocused

LEMMA PromotedKeeps ==
    ASSUME NEW s, IsShell(s), NEW split \in BOOLEAN
    PROVE  IsShell(Frame!Promoted(s, split)) /\ Unfocused(Frame!Promoted(s, split), s)
  <1>1. CASE s.drawer.surface = None \/ s.promotion # None
    BY <1>1 DEF Frame!Promoted, Unfocused
  <1>2. CASE ~(s.drawer.surface = None \/ s.promotion # None)
    <2> DEFINE surface == s.drawer.surface
               canvas == IF split THEN [s.canvas EXCEPT !.secondary = surface]
                         ELSE Frame!Single(surface)
               promotion == [prior |-> s.canvas, surface |-> surface]
               drawer == [s.drawer EXCEPT !.visible = FALSE]
               t == Frame!Promoted(s, split)
    <2>1. surface \in Frame!Tools /\ s.canvas \in Canvases /\ s.drawer \in Drawers
      BY <1>2 DEF IsShell, Shells, Drawers, Surfaces
    <2>2. canvas \in Canvases /\ Frame!CanvasContains(canvas, surface)
      BY <2>1 DEF Canvases, Surfaces, Frame!Single, Frame!CanvasContains
    <2>3. promotion \in Promotions /\ promotion.surface = surface /\ drawer \in Drawers
      BY <2>1 DEF Promotions, Surfaces, Drawers
    <2>4. t = [s EXCEPT !.canvas = canvas, !.promotion = promotion, !.drawer = drawer,
                        !.drawerVisible = FALSE, !.focus = "Canvas"]
      BY <1>2 DEF Frame!Promoted, IsShell, Shells
    <2> HIDE DEF surface, canvas, promotion, drawer, t
    <2> QED
      BY <2>2, <2>3, <2>4 DEF IsShell, IsShown, Shells, Frame!Regions, Unfocused, t
  <1> QED
    BY <1>1, <1>2

LEMMA DemotedKeeps ==
    ASSUME NEW s, IsShell(s)
    PROVE  IsShell(Frame!Demoted(s)) /\ Unfocused(Frame!Demoted(s), s)
  <1>1. CASE s.promotion = None
    BY <1>1 DEF Frame!Demoted, Unfocused
  <1>2. CASE s.promotion # None
    <2> DEFINE d == Frame!DrawerOpened(s, s.promotion.surface)
    <2>1. s.promotion.prior \in Canvases /\ s.promotion.surface \in Surfaces
      BY <1>2 DEF IsShell, Shells, Promotions
    <2>2. IsShell(d)
      BY <2>1, DrawerOpenedKeeps
    <2>3. Frame!Demoted(s) = [d EXCEPT !.canvas = s.promotion.prior, !.promotion = None,
                                       !.focus = "Drawer"]
      BY <1>2 DEF Frame!Demoted
    <2> HIDE DEF d
    <2> QED
      BY <2>1, <2>2, <2>3 DEF IsShell, IsShown, Shells, Frame!Regions, Unfocused
  <1> QED
    BY <1>1, <1>2

\* What a workspace keeps of the shell is a shell again.
Kept ==
    [activity : Activities, sidebar : BOOLEAN, context : BOOLEAN, canvas : Canvases,
     drawer : Drawers]

LEMMA ShellIsKept ==
    ASSUME NEW s, IsShell(s)
    PROVE  Frame!ShellSnapshot(s) \in Kept
BY DEF IsShell, Shells, Kept, Frame!ShellSnapshot

LEMMA KeptIsShell ==
    ASSUME NEW k \in Kept
    PROVE  IsShell(Frame!RestoreShell(k)) /\ Frame!RestoreShell(k).focus = "Canvas"
  <1> DEFINE d == Frame!DefaultShell
             canvas == Frame!RestoreCanvas(k.canvas, k.activity)
             visible == k.drawer.visible /\ k.drawer.surface # None
             drawer == [surface |-> k.drawer.surface, visible |-> visible]
  <1>1. canvas \in Canvases
    BY DEF Kept, Canvases, Surfaces, Frame!RestoreCanvas, Frame!Single
  <1>2. drawer \in Drawers /\ visible \in BOOLEAN
    BY DEF Kept, Drawers
  <1>3. Frame!RestoreShell(k)
          = [d EXCEPT !.activity = k.activity, !.sidebar = k.sidebar, !.context = k.context,
                      !.canvas = canvas, !.drawer = drawer, !.drawerVisible = visible]
    BY DEF Frame!RestoreShell
  <1>4. d \in Shells /\ d.focus = "Canvas" /\ d.promotion = None
    BY DefaultIsShell DEF IsShell, Frame!DefaultShell
  <1> HIDE DEF d, canvas, drawer, visible
  <1> QED
    BY <1>1, <1>2, <1>3, <1>4 DEF IsShell, IsShown, Shells, Kept

-----------------------------------------------------------------------------
(* The inductive invariant of the shell, and its steps.                     *)

Centers == [visible : BOOLEAN, back : Frame!Regions \ {"CommandCenter"}]

ShellFits ==
    /\ IsShell(shell)
    /\ shell.focus = "CommandCenter" => center.visible
    /\ center \in Centers
    /\ savedShell \in Kept \cup {None}

LEMMA ShellFitsAgrees ==
    ASSUME ShellFits
    PROVE  Frame!ShellTypeOK /\ Frame!PromotedIsShown /\ Frame!CenterHasFocus
BY DEF ShellFits, IsShell, IsShown, Shells, Canvases, Drawers, Surfaces, Centers,
       Frame!ShellTypeOK, Frame!PromotedIsShown, Frame!CenterHasFocus

LEMMA ShellInitFits ==
    ASSUME Frame!ShellInit
    PROVE  ShellFits
BY DefaultIsShell DEF Frame!ShellInit, ShellFits, Centers, Frame!Regions

LEMMA ShellBecomes ==
    ASSUME ShellFits, IsShell(shell'), Unfocused(shell', shell), UNCHANGED center,
           savedShell' \in Kept \cup {None}
    PROVE  ShellFits'
BY DEF ShellFits, Unfocused

LEMMA SavesKept ==
    ASSUME ShellFits, NEW s, IsShell(s), Frame!Saves(s)
    PROVE  savedShell' \in Kept \cup {None}
BY ShellIsKept DEF ShellFits, Frame!Saves

LEMMA UpdateShellFits ==
    ASSUME ShellFits, NEW s, IsShell(s), Unfocused(s, shell), Frame!UpdateShell(s)
    PROVE  ShellFits'
  <1> DEFINE shows == ~shell.drawerVisible /\ s.drawerVisible /\ s.drawer.surface = "terminal"
             new == IF shows THEN [s EXCEPT !.focus = "Drawer"] ELSE s
  <1>1. /\ shell' = new /\ UNCHANGED center
        /\ IF new # shell THEN Frame!Saves(new) ELSE UNCHANGED savedShell
    BY DEF Frame!UpdateShell
  <1>2. IsShell(new) /\ Unfocused(new, shell)
    BY FocusedKeeps DEF Frame!Regions, Unfocused
  <1> HIDE DEF new
  <1>3. savedShell' \in Kept \cup {None}
    BY <1>1, <1>2, SavesKept DEF ShellFits
  <1> QED
    BY <1>1, <1>2, <1>3, ShellBecomes

LEMMA PlacedFits ==
    ASSUME ShellFits, NEW s, IsShell(s), Unfocused(s, shell), NEW full, NEW keys,
           Frame!Placed(s, full, keys)
    PROVE  ShellFits'
  <1>1. shell' = s /\ UNCHANGED <<center, savedShell>>
    BY DEF Frame!Placed
  <1> QED
    BY <1>1, ShellBecomes DEF ShellFits

LEMMA PlacementsFit ==
    ASSUME ShellFits
    PROVE  /\ Frame!ToggleTerminalExpanded => ShellFits'
           /\ Frame!PromoteTerminalToSplit => ShellFits'
           /\ Frame!PromoteTerminalToFull => ShellFits'
           /\ Frame!DemoteTerminalToDrawer => ShellFits'
           /\ Frame!CloseTerminalPlacement => ShellFits'
           /\ Frame!PromoteSupportingEditorToSplit => ShellFits'
           /\ Frame!PromoteSupportingEditorToFull => ShellFits'
           /\ Frame!DemoteSupportingEditorToDrawer => ShellFits'
           /\ Frame!CloseSupportingEditorPlacement => ShellFits'
  <1>1. \A b \in BOOLEAN :
           IsShell(Frame!Promoted(shell, b)) /\ Unfocused(Frame!Promoted(shell, b), shell)
    BY PromotedKeeps DEF ShellFits
  <1>2. IsShell(Frame!Demoted(shell)) /\ Unfocused(Frame!Demoted(shell), shell)
    BY DemotedKeeps DEF ShellFits
  <1>3. ASSUME NEW full, NEW keys, NEW b \in BOOLEAN,
               Frame!Placed(Frame!Promoted(shell, b), full, keys)
        PROVE  ShellFits'
    BY <1>1, <1>3, PlacedFits
  <1>4. ASSUME NEW full, NEW keys, Frame!Placed(Frame!Demoted(shell), full, keys)
        PROVE  ShellFits'
    BY <1>2, <1>4, PlacedFits
  <1>5. ASSUME NEW surface, NEW full, Frame!ClosePlacement(surface, full)
        PROVE  ShellFits'
    <2> DEFINE s == IF Frame!CanvasContains(shell.canvas, surface) THEN Frame!Demoted(shell)
                    ELSE shell
               t == IF s.drawerVisible THEN Frame!DrawerToggled(s) ELSE s
    <2>1. Frame!Placed(t, full, FALSE)
      BY <1>5 DEF Frame!ClosePlacement
    <2>2. IsShell(s) /\ Unfocused(s, shell)
      BY <1>2 DEF ShellFits, Unfocused
    <2> HIDE DEF s
    <2>3. IsShell(t) /\ Unfocused(t, s)
      BY <2>2, TogglesKeep DEF Unfocused
    <2> HIDE DEF t
    <2>4. Unfocused(t, shell)
      BY <2>2, <2>3 DEF Unfocused
    <2> QED
      BY <2>1, <2>3, <2>4, PlacedFits
  <1>6. Frame!ToggleTerminalExpanded => ShellFits'
    BY <1>3, <1>4 DEF Frame!ToggleTerminalExpanded
  <1>7. /\ Frame!PromoteTerminalToSplit => ShellFits'
        /\ Frame!PromoteTerminalToFull => ShellFits'
        /\ Frame!PromoteSupportingEditorToSplit => ShellFits'
        /\ Frame!PromoteSupportingEditorToFull => ShellFits'
    BY <1>3 DEF Frame!PromoteTerminalToSplit, Frame!PromoteTerminalToFull,
                Frame!PromoteSupportingEditorToSplit, Frame!PromoteSupportingEditorToFull
  <1>8. /\ Frame!DemoteTerminalToDrawer => ShellFits'
        /\ Frame!DemoteSupportingEditorToDrawer => ShellFits'
    BY <1>4 DEF Frame!DemoteTerminalToDrawer, Frame!DemoteSupportingEditorToDrawer
  <1>9. /\ Frame!CloseTerminalPlacement => ShellFits'
        /\ Frame!CloseSupportingEditorPlacement => ShellFits'
    BY <1>5 DEF Frame!CloseTerminalPlacement, Frame!CloseSupportingEditorPlacement
  <1> QED
    BY <1>6, <1>7, <1>8, <1>9

\* The commands that go through update_shell.
LEMMA UpdatesFit ==
    ASSUME ShellFits
    PROVE  /\ \A a \in Activities : Frame!SelectActivity(a) => ShellFits'
           /\ Frame!ToggleContext => ShellFits'
           /\ Frame!ToggleDrawer => ShellFits'
           /\ Frame!ToggleExplorer => ShellFits'
  <1>1. IsShell(shell)
    BY DEF ShellFits
  <1>2. ASSUME NEW a \in Activities, Frame!SelectActivity(a) PROVE ShellFits'
    BY <1>1, <1>2, ActivitySelectedKeeps, UpdateShellFits DEF Frame!SelectActivity
  <1>3. ASSUME Frame!ToggleContext PROVE ShellFits'
    BY <1>1, <1>3, TogglesKeep, UpdateShellFits DEF Frame!ToggleContext
  <1>4. ASSUME Frame!ToggleDrawer PROVE ShellFits'
    BY <1>1, <1>4, TogglesKeep, UpdateShellFits DEF Frame!ToggleDrawer
  <1>5. ASSUME Frame!ToggleExplorer PROVE ShellFits'
    BY <1>1, <1>5, TogglesKeep, UpdateShellFits DEF Frame!ToggleExplorer
  <1> QED
    BY <1>2, <1>3, <1>4, <1>5

\* Terminals, documents and what the drawer shows.
LEMMA ContentsFit ==
    ASSUME ShellFits
    PROVE  /\ Frame!NewTerminal => ShellFits'
           /\ Frame!FocusTerminal => ShellFits'
           /\ Frame!TerminalsClosed => ShellFits'
           /\ Frame!LeaveTerminal => ShellFits'
           /\ Frame!OpenDocument => ShellFits'
           /\ Frame!ShowTerminalDrawer => ShellFits'
           /\ Frame!ShowProblemsDrawer => ShellFits'
           /\ Frame!ToggleProblems => ShellFits'
           /\ Frame!WorkspaceOpened => ShellFits'
  <1>1. IsShell(shell) /\ savedShell \in Kept \cup {None} /\ Unfocused(shell, shell)
    BY DEF ShellFits, Unfocused
  <1>2. {"editor", "terminal", "problems"} \subseteq Surfaces /\ "Drawer" \in Frame!Regions
    BY DEF Surfaces, Frame!Tools, Frame!Regions
  <1>3. ASSUME NEW surface \in Surfaces
        PROVE  /\ IsShell(Frame!DrawerOpened(shell, surface))
               /\ Unfocused(Frame!DrawerOpened(shell, surface), shell)
    BY <1>1, DrawerOpenedKeeps DEF Unfocused
  <1>4. ASSUME NEW s, IsShell(s), Unfocused(s, shell), shell' = s, Frame!Saves(s), UNCHANGED center
        PROVE  ShellFits'
    BY <1>4, SavesKept, ShellBecomes
  <1>5. ASSUME Frame!NewTerminal PROVE ShellFits'
    <2> DEFINE s == [shell EXCEPT !.drawerVisible = TRUE]
    <2>1. IsShell(s) /\ Unfocused(s, shell)
      BY <1>1 DEF IsShell, IsShown, Shells, Unfocused
    <2>2. shell' = s /\ UNCHANGED <<center, savedShell>>
      BY <1>5 DEF Frame!NewTerminal
    <2> HIDE DEF s
    <2> QED
      BY <1>1, <2>1, <2>2, ShellBecomes
  <1>6. ASSUME UNCHANGED <<shell, center, savedShell>> PROVE ShellFits'
    BY <1>1, <1>6, ShellBecomes
  <1>7. /\ Frame!FocusTerminal => ShellFits'
        /\ Frame!TerminalsClosed => ShellFits'
        /\ Frame!LeaveTerminal => ShellFits'
    BY <1>6 DEF Frame!FocusTerminal, Frame!TerminalsClosed, Frame!LeaveTerminal
  <1>8. ASSUME Frame!OpenDocument PROVE ShellFits'
    <2> DEFINE s == IF shell.canvas.primary = "Sessions" THEN Frame!DrawerOpened(shell, "editor")
                    ELSE shell
    <2>1. IsShell(s) /\ Unfocused(s, shell)
      BY <1>1, <1>2, <1>3
    <2>2. shell' = s /\ Frame!Saves(s) /\ UNCHANGED center
      BY <1>8 DEF Frame!OpenDocument
    <2> HIDE DEF s
    <2> QED
      BY <1>4, <2>1, <2>2
  <1>9. ASSUME NEW surface \in Surfaces, NEW b, Frame!ShowsDrawer(surface, b) PROVE ShellFits'
    <2> DEFINE d == Frame!DrawerOpened(shell, surface)
               s == [d EXCEPT !.focus = "Drawer"]
    <2>1. shell' = s /\ Frame!Saves(s) /\ UNCHANGED center
      BY <1>9 DEF Frame!ShowsDrawer
    <2> HIDE DEF d
    <2>2. IsShell(s) /\ s.focus = "Drawer"
      BY <1>2, <1>3, FocusedKeeps DEF d
    <2> HIDE DEF s
    <2>3. Unfocused(s, shell)
      BY <2>2 DEF Unfocused
    <2> QED
      BY <1>4, <2>1, <2>2, <2>3
  <1>10. /\ Frame!ShowTerminalDrawer => ShellFits'
         /\ Frame!ShowProblemsDrawer => ShellFits'
    BY <1>2, <1>9 DEF Frame!ShowTerminalDrawer, Frame!ShowProblemsDrawer
  <1>11. ASSUME Frame!ToggleProblems PROVE ShellFits'
    <2> DEFINE shown == shell.drawer = [surface |-> "problems", visible |-> TRUE]
               s == IF ~problems THEN Frame!DrawerOpened(shell, "problems")
                    ELSE IF shown THEN Frame!DrawerToggled(shell) ELSE shell
    <2>1. shell' = s /\ Frame!Saves(s) /\ UNCHANGED center
      BY <1>11 DEF Frame!ToggleProblems
    <2>2. IsShell(s) /\ Unfocused(s, shell)
      BY <1>1, <1>2, <1>3, TogglesKeep
    <2> HIDE DEF s
    <2> QED
      BY <1>4, <2>1, <2>2
  <1>12. ASSUME Frame!WorkspaceOpened PROVE ShellFits'
    <2> DEFINE s == IF savedShell = None THEN [Frame!DefaultShell EXCEPT !.sidebar = shell.sidebar]
                    ELSE Frame!RestoreShell(savedShell)
               t == IF problems THEN Frame!DrawerOpened(s, "problems") ELSE s
    <2>1. shell' = t /\ UNCHANGED <<center, savedShell>>
      BY <1>12 DEF Frame!WorkspaceOpened
    <2>2. IsShell(s) /\ s.focus = "Canvas"
      <3>1. CASE savedShell = None
        <4> DEFINE d == Frame!DefaultShell
                   e == [d EXCEPT !.sidebar = shell.sidebar]
        <4>1. IsShell(d) /\ d.focus = "Canvas" /\ shell.sidebar \in BOOLEAN
          BY <1>1, DefaultIsShell DEF IsShell, Shells
        <4> HIDE DEF d
        <4>2. IsShell(e) /\ e.focus = "Canvas"
          BY <4>1 DEF IsShell, IsShown, Shells
        <4> QED
          BY <3>1, <4>2 DEF d
      <3>2. CASE savedShell # None
        BY <1>1, <3>2, KeptIsShell
      <3> QED
        BY <3>1, <3>2
    <2> HIDE DEF s
    <2>3. IsShell(t) /\ t.focus = "Canvas"
      BY <1>2, <2>2, DrawerOpenedKeeps
    <2> HIDE DEF t
    <2>4. Unfocused(t, shell)
      BY <2>3 DEF Unfocused
    <2> QED
      BY <1>1, <2>1, <2>3, <2>4, ShellBecomes
  <1> QED
    BY <1>5, <1>7, <1>8, <1>10, <1>11, <1>12

\* The command center gives the focus back when it is closed.
LEMMA CenterClosedKeeps ==
    ASSUME ShellFits, center.visible
    PROVE  /\ IsShell(Frame!CenterClosed(shell))
           /\ Frame!CenterClosed(shell).focus # "CommandCenter"
  <1> DEFINE region == center.back
  <1>1. region \in Frame!Regions /\ region # "CommandCenter" /\ IsShell(shell)
    BY DEF ShellFits, Centers
  <1>2. Frame!CenterClosed(shell) = [shell EXCEPT !.focus = region]
    BY DEF Frame!CenterClosed, ShellFits, IsShell, Shells
  <1> HIDE DEF region
  <1> QED
    BY <1>1, <1>2, FocusedKeeps

LEMMA ToggleCommandCenterFits ==
    ASSUME ShellFits, Frame!ToggleCommandCenter
    PROVE  ShellFits'
  <1>1. CASE center.visible
    <2>1. /\ shell' = Frame!CenterClosed(shell) /\ center' = [center EXCEPT !.visible = FALSE]
          /\ UNCHANGED savedShell
      BY <1>1 DEF Frame!ToggleCommandCenter
    <2>2. center' \in Centers
      BY <2>1 DEF ShellFits, Centers
    <2> QED
      BY <1>1, <2>1, <2>2, CenterClosedKeeps DEF ShellFits
  <1>2. CASE ~center.visible
    <2>1. /\ shell' = [shell EXCEPT !.focus = "CommandCenter"]
          /\ center' = [visible |-> TRUE, back |-> shell.focus]
          /\ UNCHANGED savedShell
      BY <1>2 DEF Frame!ToggleCommandCenter
    <2>2. center' \in Centers /\ center'.visible
      BY <1>2, <2>1 DEF ShellFits, Centers, IsShell, Shells
    <2>3. IsShell(shell')
      BY <2>1, FocusedKeeps DEF ShellFits, Frame!Regions
    <2> QED
      BY <2>1, <2>2, <2>3 DEF ShellFits
  <1> QED
    BY <1>1, <1>2

LEMMA CommandSelectedFits ==
    ASSUME ShellFits, NEW id, Frame!CommandSelected(id)
    PROVE  ShellFits'
  <1> DEFINE s == Frame!CenterClosed(shell)
             new == CASE ~Frame!EnabledCommand(id) -> s
                      [] id \in Activities -> Frame!ActivitySelected(s, id)
                      [] id = "toggle-explorer" -> Frame!ExplorerToggled(s)
                      [] id = "toggle-context" -> Frame!ContextToggled(s)
                      [] id = "toggle-drawer" -> Frame!DrawerToggled(s)
                      [] id = "toggle-expanded" ->
                            IF expanded THEN Frame!Demoted(s) ELSE Frame!Promoted(s, FALSE)
                      [] id = "terminal.new" -> [s EXCEPT !.drawerVisible = TRUE]
                      [] id = "problems.toggle" ->
                            IF ~problems THEN Frame!DrawerOpened(s, "problems")
                            ELSE IF s.drawer = [surface |-> "problems", visible |-> TRUE]
                            THEN Frame!DrawerToggled(s) ELSE s
                      [] OTHER -> s
             shows == /\ id = "toggle-drawer" /\ ~s.drawerVisible
                      /\ new.drawerVisible /\ new.drawer.surface = "terminal"
             last == IF shows THEN [new EXCEPT !.focus = "Drawer"] ELSE new
  <1>1. /\ center.visible /\ center' = [center EXCEPT !.visible = FALSE]
        /\ shell' = last /\ (Frame!Saves(last) \/ UNCHANGED savedShell)
    BY DEF Frame!CommandSelected
  <1>2. IsShell(s) /\ s.focus # "CommandCenter"
    BY <1>1, CenterClosedKeeps
  <1> HIDE DEF s
  <1>3. /\ \A a \in Activities :
              IsShell(Frame!ActivitySelected(s, a)) /\ Unfocused(Frame!ActivitySelected(s, a), s)
        /\ IsShell(Frame!ExplorerToggled(s)) /\ Unfocused(Frame!ExplorerToggled(s), s)
        /\ IsShell(Frame!ContextToggled(s)) /\ Unfocused(Frame!ContextToggled(s), s)
        /\ IsShell(Frame!DrawerToggled(s)) /\ Unfocused(Frame!DrawerToggled(s), s)
        /\ IsShell(Frame!Demoted(s)) /\ Unfocused(Frame!Demoted(s), s)
        /\ IsShell(Frame!Promoted(s, FALSE)) /\ Unfocused(Frame!Promoted(s, FALSE), s)
    BY <1>2, ActivitySelectedKeeps, TogglesKeep, DemotedKeeps, PromotedKeeps
  <1>4. /\ IsShell([s EXCEPT !.drawerVisible = TRUE])
        /\ Unfocused([s EXCEPT !.drawerVisible = TRUE], s)
    BY <1>2 DEF IsShell, IsShown, Shells, Unfocused
  <1>5. /\ IsShell(Frame!DrawerOpened(s, "problems"))
        /\ Unfocused(Frame!DrawerOpened(s, "problems"), s)
    BY <1>2, DrawerOpenedKeeps DEF Unfocused, Surfaces, Frame!Tools
  <1>6. IsShell(new) /\ Unfocused(new, s)
    <2>1. Unfocused(s, s)
      BY DEF Unfocused
    <2> QED
      BY <1>2, <1>3, <1>4, <1>5, <2>1
  <1> HIDE DEF new
  <1>7. IsShell(last) /\ last.focus # "CommandCenter"
    BY <1>2, <1>6, FocusedKeeps DEF Frame!Regions, Unfocused
  <1> HIDE DEF last
  <1>8. savedShell' \in Kept \cup {None}
    BY <1>1, <1>7, SavesKept DEF ShellFits
  <1>9. center' \in Centers
    BY <1>1 DEF ShellFits, Centers
  <1> QED
    BY <1>1, <1>7, <1>8, <1>9 DEF ShellFits

LEMMA ShellStepFits ==
    ASSUME ShellFits, Frame!ShellNext
    PROVE  ShellFits'
  <1>1. ASSUME NEW key, Frame!Keyboard(key) PROVE ShellFits'
    BY <1>1, ToggleCommandCenterFits, UpdatesFit, ContentsFit, PlacementsFit DEF Frame!Keyboard
  <1> QED
    BY <1>1, UpdatesFit, PlacementsFit, ContentsFit, ToggleCommandCenterFits, CommandSelectedFits
       DEF Frame!ShellNext

-----------------------------------------------------------------------------
\* A set of numbers has a least one: what induction over positions rests on.
LEMMA LeastNumber ==
    ASSUME NEW T, T \subseteq Nat, T # {}
    PROVE  \E m \in T : \A k \in T : m <= k
  <1> DEFINE R == OpToRel(<, Nat)
  <1>1. IsWellFoundedOn(R, Nat)
    BY NatLessThanWellFounded
  <1> HIDE DEF R
  <1>2. PICK m \in T : \A k \in T : ~ (<<k, m>> \in R)
    BY <1>1, WFMin, Zenon
  <1>3. ASSUME NEW k \in T
        PROVE  m <= k
    <2>1. <<k, m>> \notin R
      BY <1>2
    <2>2. k < m => <<k, m>> \in R
      BY DEF OpToRel, R
    <2> QED
      BY <2>1, <2>2
  <1> QED
    BY <1>3

-----------------------------------------------------------------------------
(* The elements of a sequence that are in a set.                            *)

\* f takes the elements of q that are in a set out of its first n ones.
Takes(f, q, set, n) ==
    f = [k \in 0..n |-> IF k = 0 THEN << >>
                        ELSE IF q[k] \in set THEN Append(f[k - 1], q[k]) ELSE f[k - 1]]

\* There is such a function for any sequence: induction over how many elements it looks at.
LEMMA TakenExists ==
    ASSUME NEW q, NEW set, NEW n \in Nat
    PROVE  \E f : Takes(f, q, set, n)
  <1> DEFINE Bad == {k \in 0..n : ~ \E f : Takes(f, q, set, k)}
  <1>1. SUFFICES ASSUME Bad # {}
                 PROVE  FALSE
    <2>1. n \in 0..n
      OBVIOUS
    <2> QED
      BY <2>1, Zenon
  <1>2. PICK m \in Bad : \A k \in Bad : m <= k
    <2>1. Bad \subseteq Nat
      OBVIOUS
    <2> HIDE DEF Bad
    <2> QED
      BY <1>1, <2>1, LeastNumber
  <1>3. CASE m = 0
    <2>1. Takes([k \in 0..0 |-> << >>], q, set, 0)
      BY DEF Takes
    <2> QED
      BY <1>3, <2>1
  <1>4. CASE m # 0
    <2>1. m - 1 \in 0..n /\ m \in 0..n /\ m \in Nat
      BY <1>4
    <2>2. PICK f : Takes(f, q, set, m - 1)
      BY <1>2, <2>1
    <2> DEFINE g == [k \in 0..m |-> IF k < m THEN f[k]
                                    ELSE IF q[m] \in set THEN Append(f[m - 1], q[m])
                                    ELSE f[m - 1]]
               Step(k) == IF k = 0 THEN << >>
                          ELSE IF q[k] \in set THEN Append(g[k - 1], q[k]) ELSE g[k - 1]
    <2>3. g = [k \in 0..m |-> Step(k)]
      <3>1. ASSUME NEW k \in 0..m
            PROVE  g[k] = Step(k)
        <4>1. CASE k < m
          <5>1. k \in 0..(m - 1) /\ (k # 0 => k - 1 \in 0..m /\ k - 1 < m)
            BY <4>1, <2>1
          <5>2. f[k] = IF k = 0 THEN << >>
                       ELSE IF q[k] \in set THEN Append(f[k - 1], q[k]) ELSE f[k - 1]
            BY <5>1, <2>2 DEF Takes
          <5>3. g[k] = f[k] /\ (k # 0 => g[k - 1] = f[k - 1])
            BY <4>1, <5>1
          <5> HIDE DEF g
          <5> QED
            BY <5>2, <5>3
        <4>2. CASE k = m
          <5>1. m - 1 \in 0..m /\ m - 1 < m /\ m \in 0..m /\ ~(m < m)
            BY <1>4, <2>1
          <5>2. g[m - 1] = f[m - 1]
            BY <5>1
          <5>3. g[m] = IF q[m] \in set THEN Append(f[m - 1], q[m]) ELSE f[m - 1]
            BY <5>1
          <5> HIDE DEF g
          <5> QED
            BY <4>2, <1>4, <5>2, <5>3
        <4> QED
          BY <4>1, <4>2, <2>1
      <3> HIDE DEF Step
      <3>2. g = [k \in 0..m |-> g[k]]
        OBVIOUS
      <3> HIDE DEF g
      <3> QED
        BY <3>1, <3>2
    <2>4. Takes(g, q, set, m)
      <3> HIDE DEF g
      <3> QED
        BY <2>3 DEF Takes
    <2> QED
      BY <2>4
  <1> QED
    BY <1>3, <1>4

\* What it takes is a sequence that has exactly the elements of q in the set.
LEMMA TakenIs ==
    ASSUME NEW T, NEW q \in Seq(T), NEW set, NEW f, Takes(f, q, set, Len(q)),
           NEW n \in 0..Len(q)
    PROVE  /\ f[n] \in Seq(T)
           /\ \A x : (\E j \in 1..Len(f[n]) : f[n][j] = x)
                       <=> x \in set /\ \E i \in 1..n : q[i] = x
  <1> DEFINE Has(k, x) == \E j \in 1..Len(f[k]) : f[k][j] = x
             Meant(k, x) == x \in set /\ \E i \in 1..k : q[i] = x
             Good(k) == f[k] \in Seq(T) /\ \A x : Has(k, x) <=> Meant(k, x)
             Bad == {k \in 0..n : ~ Good(k)}
  <1> HIDE DEF Good
  <1>1. SUFFICES ASSUME Bad # {}
                 PROVE  FALSE
    <2>1. n \in 0..n
      OBVIOUS
    <2>2. Good(n)
      BY <2>1
    <2> QED
      BY <2>2 DEF Good
  <1>2. PICK m \in Bad : \A k \in Bad : m <= k
    <2>1. Bad \subseteq Nat
      OBVIOUS
    <2> HIDE DEF Bad
    <2> QED
      BY <1>1, <2>1, LeastNumber
  <1>3. m \in 0..n /\ m \in 0..Len(q) /\ ~ Good(m)
    OBVIOUS
  <1>4. m # 0 => Good(m - 1)
    <2>1. m # 0 => m - 1 \in 0..n /\ ~(m <= m - 1)
      BY <1>3
    <2> QED
      BY <1>2, <2>1
  <1>5. f[m] = IF m = 0 THEN << >>
               ELSE IF q[m] \in set THEN Append(f[m - 1], q[m]) ELSE f[m - 1]
    BY <1>3 DEF Takes
  <1> HIDE DEF Bad
  <1>6. CASE m = 0
    <2>1. f[m] = << >>
      BY <1>5, <1>6
    <2>2. f[m] \in Seq(T) /\ 1..Len(f[m]) = {} /\ 1..m = {}
      BY <2>1, <1>6
    <2> QED
      BY <1>3, <2>2 DEF Good
  <1>7. CASE m # 0 /\ q[m] \in set
    <2>1. f[m] = Append(f[m - 1], q[m]) /\ f[m - 1] \in Seq(T) /\ q[m] \in T
      BY <1>3, <1>4, <1>5, <1>7 DEF Good
    <2> DEFINE r == f[m - 1]
               s == f[m]
    <2>2. /\ s \in Seq(T) /\ Len(s) = Len(r) + 1 /\ Len(r) \in Nat
          /\ \A j \in 1..Len(r) : s[j] = r[j]
          /\ s[Len(r) + 1] = q[m]
      BY <2>1
    <2>3. ASSUME NEW x PROVE Has(m, x) <=> Meant(m, x)
      <3>0. Has(m - 1, x) <=> Meant(m - 1, x)
        BY <1>4, <1>7 DEF Good
      <3>1. Has(m, x) <=> Has(m - 1, x) \/ x = q[m]
        <4> HIDE DEF r, s
        <4>1. (\E j \in 1..Len(s) : s[j] = x)
                <=> (\E j \in 1..Len(r) : r[j] = x) \/ x = q[m]
          <5>1. Len(r) + 1 \in 1..Len(s)
            BY <2>2
          <5>2. \A j \in 1..Len(r) : j \in 1..Len(s)
            BY <2>2
          <5>3. \A j \in 1..Len(s) : j \in 1..Len(r) \/ j = Len(r) + 1
            BY <2>2
          <5> QED
            BY <2>2, <5>1, <5>2, <5>3
        <4> QED
          BY <4>1 DEF r, s
      <3>2. Meant(m, x) <=> Meant(m - 1, x) \/ x = q[m]
        <4>1. \A i \in 1..m : i \in 1..(m - 1) \/ i = m
          BY <1>3, <1>7
        <4>2. m \in 1..m /\ \A i \in 1..(m - 1) : i \in 1..m
          BY <1>3, <1>7
        <4> QED
          BY <1>7, <4>1, <4>2
      <3> QED
        BY <3>0, <3>1, <3>2
    <2> QED
      BY <1>3, <2>2, <2>3 DEF Good
  <1>8. CASE m # 0 /\ q[m] \notin set
    <2>1. f[m] = f[m - 1]
      BY <1>5, <1>8
    <2>2. ASSUME NEW x PROVE Meant(m, x) <=> Meant(m - 1, x)
      <3>1. \A i \in 1..m : i \in 1..(m - 1) \/ i = m
        BY <1>3, <1>8
      <3>2. \A i \in 1..(m - 1) : i \in 1..m
        BY <1>3, <1>8
      <3> QED
        BY <1>8, <3>1, <3>2
    <2> QED
      BY <1>3, <1>4, <1>8, <2>1, <2>2 DEF Good
  <1> QED
    BY <1>6, <1>7, <1>8

\* x is an element of a sequence.
Has(q, x) == \E j \in 1..Len(q) : q[j] = x

\* Among is what such a function gives for the whole sequence.
LEMMA AmongIs ==
    ASSUME NEW T, NEW q \in Seq(T), NEW set
    PROVE  /\ Search!Among(q, set) \in Seq(T)
           /\ \A x : Has(Search!Among(q, set), x) <=> x \in set /\ Has(q, x)
  <1> DEFINE IsTaking(f) ==
               f = [k \in 0..Len(q) |-> IF k = 0 THEN << >>
                        ELSE IF q[k] \in set THEN Append(f[k - 1], q[k]) ELSE f[k - 1]]
             taken == CHOOSE f : IsTaking(f)
  <1>1. IsTaking(taken)
    <2>1. Len(q) \in Nat
      OBVIOUS
    <2>2. PICK g : Takes(g, q, set, Len(q))
      BY <2>1, TakenExists
    <2>3. IsTaking(g)
      BY <2>2, Zenon DEF Takes
    <2> QED
      BY <2>3, Zenon
  <1>2. Search!Among(q, set) = taken[Len(q)]
    BY Zenon DEF Search!Among
  <1>3. Takes(taken, q, set, Len(q))
    BY <1>1, Zenon DEF Takes
  <1>4. Len(q) \in 0..Len(q)
    OBVIOUS
  <1> HIDE DEF taken
  <1>5. /\ taken[Len(q)] \in Seq(T)
        /\ \A x : (\E j \in 1..Len(taken[Len(q)]) : taken[Len(q)][j] = x)
                     <=> x \in set /\ \E i \in 1..Len(q) : q[i] = x
    BY <1>3, <1>4, TakenIs
  <1> QED
    BY <1>2, <1>5, Zenon DEF Has

\* The range of a sequence is what it has.
LEMMA RangeHas ==
    ASSUME NEW T, NEW q \in Seq(T), NEW x
    PROVE  x \in Search!Range(q) <=> Has(q, x)
  BY DEF Has, Search!Range

\* An empty sequence has nothing.
LEMMA EmptyHasNone ==
    ASSUME NEW x
    PROVE  ~ Has(<< >>, x)
  BY DEF Has

\* What a sequence has is its head or in its tail.
LEMMA HeadOrTail ==
    ASSUME NEW T, NEW q \in Seq(T), q # << >>
    PROVE  /\ Head(q) \in T /\ Tail(q) \in Seq(T) /\ Has(q, Head(q))
           /\ \A x : Has(q, x) <=> x = Head(q) \/ Has(Tail(q), x)
  <1>1. /\ Len(q) \in Nat /\ Len(q) > 0 /\ Head(q) = q[1] /\ Tail(q) \in Seq(T)
        /\ Len(Tail(q)) = Len(q) - 1 /\ \A i \in 1..(Len(q) - 1) : Tail(q)[i] = q[i + 1]
    OBVIOUS
  <1> DEFINE r == Tail(q)
  <1> HIDE DEF r
  <1>2. ASSUME NEW x PROVE Has(q, x) <=> x = q[1] \/ Has(r, x)
    <2>1. 1 \in 1..Len(q) /\ \A i \in 1..Len(r) : i + 1 \in 1..Len(q) /\ r[i] = q[i + 1]
      BY <1>1 DEF r
    <2>2. \A j \in 1..Len(q) : j = 1 \/ (j - 1 \in 1..Len(r) /\ r[j - 1] = q[j])
      <3>1. ASSUME NEW j \in 1..Len(q), j # 1
            PROVE  j - 1 \in 1..Len(r) /\ r[j - 1] = q[j]
        <4>1. j - 1 \in 1..(Len(q) - 1) /\ (j - 1) + 1 = j
          BY <1>1, <3>1
        <4> QED
          BY <1>1, <4>1 DEF r
      <3> QED
        BY <3>1
    <2> QED
      BY <2>1, <2>2 DEF Has
  <1>3. Head(q) \in T /\ Has(q, Head(q))
    BY <1>1 DEF Has
  <1> QED
    BY <1>1, <1>2, <1>3 DEF r

\* Appending adds the element.
LEMMA AppendHas ==
    ASSUME NEW T, NEW q \in Seq(T), NEW e \in T
    PROVE  /\ Append(q, e) \in Seq(T) /\ Len(Append(q, e)) = Len(q) + 1
           /\ \A x : Has(Append(q, e), x) <=> Has(q, x) \/ x = e
  <1> DEFINE s == Append(q, e)
  <1>1. /\ s \in Seq(T) /\ Len(s) = Len(q) + 1 /\ Len(q) \in Nat
        /\ \A j \in 1..Len(q) : s[j] = q[j]
        /\ s[Len(q) + 1] = e
    OBVIOUS
  <1> HIDE DEF s
  <1>2. Len(q) + 1 \in 1..Len(s) /\ \A j \in 1..Len(q) : j \in 1..Len(s)
    BY <1>1
  <1>3. \A j \in 1..Len(s) : j \in 1..Len(q) \/ j = Len(q) + 1
    BY <1>1
  <1>4. \A x : Has(s, x) <=> Has(q, x) \/ x = e
    BY <1>1, <1>2, <1>3 DEF Has
  <1> QED
    BY <1>1, <1>4 DEF s

\* A concatenation has what the two sequences have.
LEMMA ConcatHas ==
    ASSUME NEW T, NEW q \in Seq(T), NEW r \in Seq(T)
    PROVE  /\ q \o r \in Seq(T)
           /\ \A x : Has(q \o r, x) <=> Has(q, x) \/ Has(r, x)
  <1> DEFINE s == q \o r
  <1>1. /\ s \in Seq(T) /\ Len(s) = Len(q) + Len(r) /\ Len(q) \in Nat /\ Len(r) \in Nat
        /\ \A k \in 1..(Len(q) + Len(r)) : s[k] = IF k <= Len(q) THEN q[k] ELSE r[k - Len(q)]
    BY ConcatProperties
  <1> HIDE DEF s
  <1>2. \A k \in 1..Len(q) : k \in 1..Len(s) /\ s[k] = q[k]
    BY <1>1
  <1>3. \A k \in 1..Len(r) : k + Len(q) \in 1..Len(s) /\ s[k + Len(q)] = r[k]
    <2>1. ASSUME NEW k \in 1..Len(r)
          PROVE  k + Len(q) \in 1..Len(s) /\ s[k + Len(q)] = r[k]
      <3>1. /\ k + Len(q) \in 1..(Len(q) + Len(r)) /\ ~(k + Len(q) <= Len(q))
            /\ (k + Len(q)) - Len(q) = k
        BY <1>1
      <3> QED
        BY <1>1, <3>1
    <2> QED
      BY <2>1
  <1>4. \A k \in 1..Len(s) : \/ k \in 1..Len(q) /\ s[k] = q[k]
                             \/ k - Len(q) \in 1..Len(r) /\ s[k] = r[k - Len(q)]
    BY <1>1
  <1>5. \A x : Has(s, x) <=> Has(q, x) \/ Has(r, x)
    BY <1>2, <1>3, <1>4 DEF Has
  <1> QED
    BY <1>1, <1>5 DEF s

-----------------------------------------------------------------------------
(* The search: what is still to look at leads to every wanted path.        *)

TreePaths == Search!TreePaths
InDirectory(p) == p \in Search!Range(DirEntries)
FileFound(p) == [path |-> p, kind |-> "file"]
FilesFound == [path : TreePaths, kind : {"file"}]
EntriesFound == [path : TreePaths, kind : {"absent", "file", "symlink", "directory"}]

\* A path the result is to have.
Wanted(p) ==
    /\ p \in TreePaths \ touched
    /\ Search!At(p).kind = "file" /\ Search!At(p).text = "match" /\ ~Search!Skipped(p)
    /\ InDirectory(p) => ~Search!Skipped(D) /\ D \notin touched

\* The types; a file is read while the search lasts, and is the one at the head of the queue.
SearchTypes ==
    /\ searched \in [TreePaths -> Search!Entry]
    /\ searched[D].kind \in {"absent", "directory"}
    /\ touched \subseteq TreePaths
    /\ todo \in Seq(TreePaths)
    /\ entries \in Seq(EntriesFound) /\ Len(entries) <= MaxEntries
    /\ queue \in Seq(FilesFound)
    /\ matches \in Seq(TreePaths) /\ Len(matches) <= MaxResults
    /\ budget \in 0..TotalBudget
    /\ truncated \in BOOLEAN /\ incomplete \in BOOLEAN
    /\ file # None => /\ phase \in {"search", "failed"} /\ file \in TreePaths
                      /\ queue # << >> /\ Head(queue).path = file
    /\ phase \in {"idle", "walk", "search", "done", "failed"}

\* Nothing on the way to the result is a path to skip.
NothingSkipped ==
    /\ \A e : Has(entries, e) \/ Has(queue, e) => ~Search!Skipped(e.path)
    /\ \A p : Has(matches, p) => ~Search!Skipped(p)

\* A path is on the way.
OnTheWay(p) ==
    /\ phase = "walk" =>
         \/ truncated \/ Has(todo, p) \/ Has(entries, FileFound(p))
         \/ (InDirectory(p) /\ Has(todo, D))
    /\ phase = "search" => incomplete \/ Has(matches, p) \/ Has(queue, FileFound(p))
    /\ phase = "done" => incomplete \/ Has(matches, p)
NothingLost == \A p : Wanted(p) => OnTheWay(p)

\* The inductive invariant of the search.
SearchFits == SearchTypes /\ NothingSkipped /\ NothingLost

\* Every path is in the listing of the root or of the directory, which is in the root.
LEMMA PathsAre ==
    /\ D \in TreePaths /\ ~ InDirectory(D) /\ Has(RootEntries, D)
    /\ \A p \in TreePaths : Has(RootEntries, p) \/ (InDirectory(p) /\ Has(DirEntries, p))
    /\ \A p : InDirectory(p) => p \in TreePaths /\ Has(DirEntries, p)
  <1>1. \A p : p \in TreePaths <=> p \in Search!Range(RootEntries) \/ InDirectory(p)
    BY DEF TreePaths, Search!TreePaths, InDirectory
  <1>2. \A p : /\ p \in Search!Range(RootEntries) <=> Has(RootEntries, p)
               /\ InDirectory(p) <=> Has(DirEntries, p)
    BY SearchAssumption, RangeHas DEF InDirectory
  <1>3. D \in Search!Range(RootEntries) /\ ~ InDirectory(D)
    BY SearchAssumption DEF InDirectory
  <1> QED
    BY <1>1, <1>2, <1>3

\* What is at a path; a file in the directory means the directory is there.
LEMMA AtIs ==
    ASSUME SearchTypes, NEW p \in TreePaths
    PROVE  /\ Search!At(p).kind \in {"absent", "file", "symlink", "directory"}
           /\ Search!At(D) = searched[D]
           /\ Search!At(p).kind = "file" => p # D /\ Search!At(p) = searched[p]
           /\ Search!At(p).kind = "file" /\ InDirectory(p) => Search!At(D).kind # "absent"
           /\ Search!At(p).size \in Nat
  <1>1. searched[p] \in Search!Entry
    BY DEF SearchTypes
  <1>2. /\ searched[p].kind \in {"absent", "file", "symlink", "directory"}
        /\ searched[p].size \in Nat
    BY <1>1, SearchAssumption DEF Search!Entry
  <1>3. /\ InDirectory(p) /\ searched[D].kind = "absent"
             => Search!At(p) = [kind |-> "absent", text |-> "plain", size |-> 1]
        /\ ~(InDirectory(p) /\ searched[D].kind = "absent") => Search!At(p) = searched[p]
    BY DEF Search!At, InDirectory
  <1>4. Search!At(D) = searched[D]
    BY PathsAre DEF Search!At, InDirectory
  <1> QED
    BY <1>2, <1>3, <1>4 DEF SearchTypes

\* While the tree, the options and what is touched stay, the same paths are wanted.
LEMMA WantedStays ==
    ASSUME UNCHANGED <<searched, touched, options>>, NEW p
    PROVE  /\ Wanted(p)' <=> Wanted(p)
           /\ Search!Skipped(p)' <=> Search!Skipped(p)
  BY DEF Wanted, Search!At, Search!Skipped

\* The options alone decide which paths are skipped.
LEMMA SkippedStays ==
    ASSUME UNCHANGED options, NEW p
    PROVE  Search!Skipped(p)' <=> Search!Skipped(p)
  BY DEF Search!Skipped

\* A change outside touches what it changes, and a path in a directory with it.
LEMMA OutsideChangesFits ==
    ASSUME SearchFits, Search!OutsideChanges
    PROVE  SearchFits'
  <1>1. PICK path \in TreePaths, entry \in Search!Entry :
          /\ path = D => entry.kind \in {"absent", "directory"}
          /\ searched' = [searched EXCEPT ![path] = entry]
          /\ touched' = touched \cup {path}
                          \cup (IF path = D THEN Search!Range(DirEntries) ELSE {})
    BY DEF Search!OutsideChanges, TreePaths
  <1>2. /\ UNCHANGED <<options, todo, entries, truncated>>
        /\ UNCHANGED <<queue, budget, matches, incomplete, file, phase>>
    BY DEF Search!OutsideChanges, Search!walkVars, Search!readVars
  <1>3. SearchTypes'
    <2>1. /\ searched' \in [TreePaths -> Search!Entry]
          /\ searched'[D].kind \in {"absent", "directory"}
      BY <1>1, PathsAre DEF SearchFits, SearchTypes
    <2>2. touched' \subseteq TreePaths
      BY <1>1, PathsAre DEF SearchFits, SearchTypes, InDirectory
    <2> QED
      BY <1>2, <2>1, <2>2 DEF SearchFits, SearchTypes
  <1>4. NothingSkipped'
    BY <1>2, SkippedStays DEF SearchFits, NothingSkipped
  <1>5. ASSUME NEW p, Wanted(p)' PROVE Wanted(p)
    <2>1. p \in TreePaths \ touched' /\ p # path /\ (InDirectory(p) => D # path /\ D \notin touched')
      BY <1>1, <1>5 DEF Wanted
    <2>2. searched'[p] = searched[p] /\ (InDirectory(p) => searched'[D] = searched[D])
      BY <1>1, <2>1, PathsAre DEF SearchFits, SearchTypes
    <2>3. Search!At(p)' = Search!At(p)
      BY <2>2 DEF Search!At, InDirectory
    <2>4. (Search!Skipped(p)' <=> Search!Skipped(p)) /\ (Search!Skipped(D)' <=> Search!Skipped(D))
      BY <1>2, SkippedStays
    <2>5. p \in TreePaths \ touched /\ (InDirectory(p) => D \notin touched)
      BY <1>1, <2>1
    <2> QED
      BY <1>5, <2>3, <2>4, <2>5 DEF Wanted
  <1>6. NothingLost'
    BY <1>2, <1>5 DEF SearchFits, NothingLost, OnTheWay
  <1> QED
    BY <1>3, <1>4, <1>6 DEF SearchFits

\* What exists of a listing.
LEMMA ListingIs ==
    ASSUME NEW order \in Seq(TreePaths)
    PROVE  /\ Search!Listing(order) \in Seq(TreePaths)
           /\ \A p : Has(Search!Listing(order), p)
                       <=> p \in TreePaths /\ Search!At(p).kind # "absent" /\ Has(order, p)
  <1> DEFINE there == {path \in TreePaths : Search!At(path).kind # "absent"}
  <1>1. Search!Listing(order) = Search!Among(order, there)
    BY DEF Search!Listing, TreePaths
  <1>2. \A p : p \in there <=> p \in TreePaths /\ Search!At(p).kind # "absent"
    OBVIOUS
  <1> HIDE DEF there
  <1> QED
    BY <1>1, <1>2, AmongIs

\* A search begins with what exists in the root.
LEMMA BeginSearchFits ==
    ASSUME SearchFits, NEW hidden, NEW ignored, Search!BeginSearch(hidden, ignored)
    PROVE  SearchFits'
  <1> USE DEF Search!BeginSearch
  <1>1. RootEntries \in Seq(TreePaths)
    BY SearchAssumption DEF TreePaths
  <1>2. /\ todo' \in Seq(TreePaths)
        /\ \A p : Has(todo', p)
                    <=> p \in TreePaths /\ Search!At(p).kind # "absent" /\ Has(RootEntries, p)
    BY <1>1, ListingIs
  <1>3. /\ entries' = << >> /\ queue' = << >> /\ matches' = << >> /\ budget' = TotalBudget
        /\ touched' = {} /\ ~truncated' /\ truncated' \in BOOLEAN /\ incomplete' \in BOOLEAN
        /\ file' = None /\ phase' = "walk" /\ UNCHANGED searched
    OBVIOUS
  <1>4. SearchTypes'
    <2>1. TotalBudget \in 0..TotalBudget /\ 0 <= MaxEntries /\ 0 <= MaxResults
      BY SearchAssumption
    <2>2. /\ << >> \in Seq(EntriesFound) /\ << >> \in Seq(FilesFound) /\ << >> \in Seq(TreePaths)
          /\ Len(<< >>) = 0
      OBVIOUS
    <2> QED
      BY <1>2, <1>3, <2>1, <2>2 DEF SearchFits, SearchTypes
  <1>5. NothingSkipped'
    BY <1>3, EmptyHasNone DEF NothingSkipped
  <1>6. ASSUME NEW p, Wanted(p)' PROVE OnTheWay(p)'
    <2>1. Search!At(p)' = Search!At(p)
      BY <1>3 DEF Search!At
    <2>2. p \in TreePaths /\ Search!At(p).kind = "file"
      BY <1>6, <2>1 DEF Wanted
    <2>3. CASE Has(RootEntries, p)
      <3>1. Has(todo', p)
        BY <1>2, <2>2, <2>3
      <3> QED
        BY <1>3, <3>1 DEF OnTheWay
    <2>4. CASE InDirectory(p)
      <3>1. Search!At(D).kind # "absent"
        BY <2>2, <2>4, AtIs DEF SearchFits
      <3>2. Has(todo', D)
        BY <1>2, <3>1, PathsAre
      <3> QED
        BY <1>3, <2>4, <3>2 DEF OnTheWay
    <2> QED
      BY <2>2, <2>3, <2>4, PathsAre
  <1> QED
    BY <1>4, <1>5, <1>6 DEF SearchFits, NothingLost

\* The walk passes over what is to be skipped, and looks into the directory.
LEMMA WalkEntryFits ==
    ASSUME SearchFits, Search!WalkEntry
    PROVE  SearchFits'
  <1>1. /\ phase = "walk" /\ todo # << >>
        /\ UNCHANGED <<searched, touched, options, phase>>
        /\ UNCHANGED <<queue, budget, matches, incomplete, file>>
    BY DEF Search!WalkEntry, Search!readVars
  <1> DEFINE path == Head(todo)
             rest == Tail(todo)
             inner == IF path = D THEN Search!Listing(DirEntries) ELSE << >>
             found == [path |-> path, kind |-> Search!At(path).kind]
  <1>2. /\ path \in TreePaths /\ rest \in Seq(TreePaths)
        /\ \A p : Has(todo, p) <=> p = path \/ Has(rest, p)
    BY <1>1, HeadOrTail DEF SearchFits, SearchTypes
  <1>3. \/ truncated' = TRUE /\ todo' = << >> /\ UNCHANGED entries
        \/ Search!Skipped(path) /\ todo' = rest /\ UNCHANGED <<entries, truncated>>
        \/ /\ Len(entries) # MaxEntries /\ ~Search!Skipped(path)
           /\ entries' = Append(entries, found)
           /\ todo' = inner \o rest
           /\ UNCHANGED truncated
    BY DEF Search!WalkEntry
  <1>4. /\ inner \in Seq(TreePaths)
        /\ path = D => \A p : Has(inner, p)
                         <=> p \in TreePaths /\ Search!At(p).kind # "absent" /\ Has(DirEntries, p)
    <2>1. DirEntries \in Seq(TreePaths) /\ << >> \in Seq(TreePaths)
      BY SearchAssumption DEF TreePaths
    <2> QED
      BY <2>1, ListingIs
  <1>5. /\ inner \o rest \in Seq(TreePaths)
        /\ \A p : Has(inner \o rest, p) <=> Has(inner, p) \/ Has(rest, p)
    <2> HIDE DEF inner, rest
    <2> QED
      BY <1>2, <1>4, ConcatHas
  <1>6. found \in EntriesFound
    BY <1>2, AtIs DEF EntriesFound, SearchFits
  <1>7. /\ Append(entries, found) \in Seq(EntriesFound)
        /\ Len(Append(entries, found)) = Len(entries) + 1
        /\ \A e : Has(Append(entries, found), e) <=> Has(entries, e) \/ e = found
    <2> HIDE DEF found
    <2> QED
      BY <1>6, AppendHas DEF SearchFits, SearchTypes
  <1>8. found.path = path /\ (Search!At(path).kind = "file" => found = FileFound(path))
    BY DEF FileFound
  <1>9. \A p : (Wanted(p)' <=> Wanted(p)) /\ (Search!Skipped(p)' <=> Search!Skipped(p))
    BY <1>1, WantedStays
  <1> HIDE DEF path, rest, inner, found
  <1>10. SearchTypes'
    <2>1. /\ todo' \in Seq(TreePaths) /\ truncated' \in BOOLEAN
          /\ entries' \in Seq(EntriesFound)
      <3>1. << >> \in Seq(TreePaths) /\ truncated \in BOOLEAN /\ entries \in Seq(EntriesFound)
        BY DEF SearchFits, SearchTypes
      <3>2. todo' \in Seq(TreePaths)
        BY <1>2, <1>3, <1>5, <3>1
      <3>3. truncated' \in BOOLEAN
        BY <1>3, <3>1
      <3>4. entries' \in Seq(EntriesFound)
        BY <1>3, <1>7, <3>1
      <3> QED
        BY <3>2, <3>3, <3>4
    <2>2. Len(entries') <= MaxEntries
      <3>1. Len(entries) \in Nat /\ Len(entries) <= MaxEntries /\ MaxEntries \in Nat
        BY SearchAssumption DEF SearchFits, SearchTypes
      <3> QED
        BY <1>3, <1>7, <3>1
    <2> QED
      BY <1>1, <2>1, <2>2 DEF SearchFits, SearchTypes
  <1>11. NothingSkipped'
    <2>1. \A e : Has(entries', e) => ~Search!Skipped(e.path)
      BY <1>3, <1>7, <1>8 DEF SearchFits, NothingSkipped
    <2> QED
      BY <1>1, <1>9, <2>1 DEF SearchFits, NothingSkipped
  <1>12. ASSUME NEW p, Wanted(p)
         PROVE  \/ truncated' \/ Has(todo', p) \/ Has(entries', FileFound(p))
                \/ (InDirectory(p) /\ Has(todo', D))
    <2>1. \/ truncated \/ Has(todo, p) \/ Has(entries, FileFound(p))
          \/ (InDirectory(p) /\ Has(todo, D))
      BY <1>1, <1>12 DEF SearchFits, NothingLost, OnTheWay
    <2>2. CASE truncated'
      BY <2>2
    <2>3. CASE Search!Skipped(path) /\ todo' = rest /\ UNCHANGED <<entries, truncated>>
      <3>1. p # path /\ (InDirectory(p) => D # path)
        BY <1>12, <2>3 DEF Wanted
      <3> QED
        BY <1>2, <2>1, <2>3, <3>1
    <2>4. CASE /\ entries' = Append(entries, found) /\ todo' = inner \o rest
               /\ UNCHANGED truncated
      <3>1. \A q : Has(rest, q) => Has(todo', q)
        BY <1>5, <2>4
      <3>2. \A e : Has(entries, e) => Has(entries', e)
        BY <1>7, <2>4
      <3>3. p = path => Has(entries', FileFound(p))
        BY <1>7, <1>8, <1>12, <2>4 DEF Wanted
      <3>4. InDirectory(p) /\ D = path => Has(todo', p)
        <4>1. /\ p \in TreePaths /\ Search!At(p).kind = "file"
              /\ InDirectory(p) => Has(DirEntries, p)
          BY <1>12, PathsAre DEF Wanted
        <4>2. InDirectory(p) /\ D = path => Has(inner, p)
          BY <1>4, <4>1
        <4> QED
          BY <1>5, <2>4, <4>2
      <3> QED
        BY <1>2, <2>1, <2>4, <3>1, <3>2, <3>3, <3>4
    <2> QED
      BY <1>3, <2>2, <2>3, <2>4
  <1>13. NothingLost'
    BY <1>1, <1>9, <1>12 DEF NothingLost, OnTheWay
  <1> QED
    BY <1>10, <1>11, <1>13 DEF SearchFits

\* The files among the entries are searched, and a truncated walk is incomplete.
LEMMA WalkDoneFits ==
    ASSUME SearchFits, Search!WalkDone
    PROVE  SearchFits'
  <1>1. /\ phase = "walk" /\ todo = << >> /\ phase' = "search"
        /\ queue' = Search!Among(entries, FilesFound)
        /\ incomplete' = truncated
        /\ UNCHANGED <<searched, touched, options, budget, matches, file>>
        /\ UNCHANGED <<todo, entries, truncated>>
    BY DEF Search!WalkDone, Search!walkVars, FilesFound, TreePaths
  <1>2. \A e : Has(queue', e) <=> e \in FilesFound /\ Has(entries, e)
    BY <1>1, AmongIs DEF SearchFits, SearchTypes
  <1>3. queue' \in Seq(FilesFound)
    <2>1. queue' \in Seq(EntriesFound)
      BY <1>1, AmongIs DEF SearchFits, SearchTypes
    <2>2. \A i \in 1..Len(queue') : queue'[i] \in FilesFound
      BY <1>2 DEF Has
    <2> QED
      BY <2>1, <2>2
  <1>4. SearchTypes'
    <2>1. file = None
      BY <1>1 DEF SearchFits, SearchTypes
    <2> QED
      BY <1>1, <1>3, <2>1 DEF SearchFits, SearchTypes
  <1>5. \A p : (Wanted(p)' <=> Wanted(p)) /\ (Search!Skipped(p)' <=> Search!Skipped(p))
    BY <1>1, WantedStays
  <1>6. NothingSkipped'
    BY <1>1, <1>2, <1>5 DEF SearchFits, NothingSkipped
  <1>7. ASSUME NEW p, Wanted(p) PROVE incomplete' \/ Has(queue', FileFound(p))
    <2>1. truncated \/ Has(entries, FileFound(p))
      BY <1>1, <1>7, EmptyHasNone DEF SearchFits, NothingLost, OnTheWay
    <2>2. FileFound(p) \in FilesFound
      BY <1>7 DEF FileFound, FilesFound, Wanted
    <2> QED
      BY <1>1, <1>2, <2>1, <2>2
  <1>8. NothingLost'
    BY <1>1, <1>5, <1>7 DEF NothingLost, OnTheWay
  <1> QED
    BY <1>4, <1>6, <1>8 DEF SearchFits

\* A file that is not opened makes the result incomplete.
LEMMA OpenFileFits ==
    ASSUME SearchFits, Search!OpenFile
    PROVE  SearchFits'
  <1>1. /\ phase = "search" /\ file = None /\ queue # << >>
        /\ UNCHANGED <<searched, touched, options, phase, budget, matches>>
        /\ UNCHANGED <<todo, entries, truncated>>
    BY DEF Search!OpenFile, Search!Searching, Search!Keep, Search!walkVars
  <1> DEFINE path == Head(queue).path
  <1>2. \/ incomplete' = TRUE /\ queue' = Tail(queue) /\ file' = file
        \/ file' = path /\ incomplete' = incomplete /\ queue' = queue
    BY DEF Search!OpenFile, Search!SkipsAs
  <1>3. /\ Head(queue) \in FilesFound /\ Tail(queue) \in Seq(FilesFound)
        /\ \A e : Has(Tail(queue), e) => Has(queue, e)
    BY <1>1, HeadOrTail DEF SearchFits, SearchTypes
  <1>4. path \in TreePaths
    BY <1>3 DEF FilesFound
  <1>5. \A p : (Wanted(p)' <=> Wanted(p)) /\ (Search!Skipped(p)' <=> Search!Skipped(p))
    BY <1>1, WantedStays
  <1>6. SearchTypes'
    <2>1. queue' \in Seq(FilesFound) /\ incomplete' \in BOOLEAN
      BY <1>2, <1>3 DEF SearchFits, SearchTypes
    <2>2. file' # None => /\ phase' \in {"search", "failed"} /\ file' \in TreePaths
                          /\ queue' # << >> /\ Head(queue').path = file'
      BY <1>1, <1>2, <1>4
    <2> QED
      BY <1>1, <2>1, <2>2 DEF SearchFits, SearchTypes
  <1>7. NothingSkipped'
    BY <1>1, <1>2, <1>3, <1>5 DEF SearchFits, NothingSkipped
  <1>8. NothingLost'
    BY <1>1, <1>2, <1>5 DEF SearchFits, NothingLost, OnTheWay
  <1> QED
    BY <1>6, <1>7, <1>8 DEF SearchFits

\* A wanted file that is read is a match, unless the result is marked incomplete.
LEMMA ReadFileFits ==
    ASSUME SearchFits, Search!ReadFile
    PROVE  SearchFits'
  <1>1. /\ phase = "search" /\ file # None /\ file' = None /\ queue' = Tail(queue)
        /\ UNCHANGED <<searched, touched, options, todo, entries, truncated>>
    BY DEF Search!ReadFile, Search!Searching, Search!Keep, Search!walkVars
  <1> DEFINE Size(entry) == IF entry.size <= Search!Limit THEN entry.size ELSE Search!Limit + 1
             Skips(entry) == Size(entry) > Search!Limit \/ entry.text = "binary"
             Finds(entry) == ~Skips(entry) /\ entry.text = "match"
  <1>2. PICK entry \in {Search!At(file)} \cup (IF file \in touched THEN Search!Entry ELSE {}) :
          /\ budget' = IF Size(entry) >= budget THEN 0 ELSE budget - Size(entry)
          /\ IF Finds(entry) /\ Len(matches) = MaxResults
               THEN phase' = "done" /\ incomplete' = TRUE /\ UNCHANGED matches
               ELSE /\ incomplete' = (incomplete \/ Skips(entry))
                    /\ matches' = IF Finds(entry) THEN Append(matches, file) ELSE matches
                    /\ UNCHANGED phase
    BY DEF Search!ReadFile
  <1>3. file \in TreePaths /\ queue # << >> /\ Head(queue).path = file
    BY <1>1 DEF SearchFits, SearchTypes
  <1>4. /\ Head(queue) \in FilesFound /\ Tail(queue) \in Seq(FilesFound)
        /\ Has(queue, Head(queue))
        /\ \A e : Has(queue, e) <=> e = Head(queue) \/ Has(Tail(queue), e)
    BY <1>3, HeadOrTail DEF SearchFits, SearchTypes
  <1>5. entry.size \in Nat
    BY <1>2, <1>3, AtIs, SearchAssumption DEF SearchFits, Search!Entry
  <1>6. budget' \in 0..TotalBudget
    <2>1. /\ budget \in Nat /\ budget <= TotalBudget /\ MaxFileBytes \in Nat
          /\ TotalBudget \in Nat
      BY SearchAssumption DEF SearchFits, SearchTypes
    <2>2. Search!Limit \in Nat
      BY <2>1 DEF Search!Limit
    <2>3. Size(entry) \in Nat
      BY <1>5, <2>2
    <2> HIDE DEF Size
    <2> QED
      BY <1>2, <2>1, <2>3
  <1>7. \/ phase' = "done" /\ incomplete' = TRUE /\ matches' = matches
        \/ /\ Skips(entry) /\ phase' = phase /\ incomplete' = TRUE /\ matches' = matches
        \/ /\ ~Skips(entry) /\ entry.text # "match"
           /\ phase' = phase /\ incomplete' = incomplete /\ matches' = matches
        \/ /\ phase' = phase /\ incomplete' = incomplete /\ Len(matches) # MaxResults
           /\ matches' = Append(matches, file)
    <2>1. Skips(entry) \in BOOLEAN /\ incomplete \in BOOLEAN
      BY DEF SearchFits, SearchTypes
    <2> HIDE DEF Skips
    <2> QED
      BY <1>2, <2>1
  <1> HIDE DEF Size, Skips, Finds
  <1>8. /\ Append(matches, file) \in Seq(TreePaths)
        /\ Len(Append(matches, file)) = Len(matches) + 1
        /\ \A p : Has(Append(matches, file), p) <=> Has(matches, p) \/ p = file
    BY <1>3, AppendHas DEF SearchFits, SearchTypes
  <1>9. \A p : (Wanted(p)' <=> Wanted(p)) /\ (Search!Skipped(p)' <=> Search!Skipped(p))
    BY <1>1, WantedStays
  <1>10. \A p : Has(queue, FileFound(p)) => p = file \/ Has(queue', FileFound(p))
    BY <1>1, <1>3, <1>4 DEF FileFound
  <1>11. ~Search!Skipped(file)
    BY <1>3, <1>4 DEF SearchFits, NothingSkipped
  <1>12. SearchTypes'
    <2>1. matches' \in Seq(TreePaths)
      BY <1>7, <1>8 DEF SearchFits, SearchTypes
    <2>2. Len(matches') <= MaxResults
      <3>1. Len(matches) \in Nat /\ Len(matches) <= MaxResults /\ MaxResults \in Nat
        BY SearchAssumption DEF SearchFits, SearchTypes
      <3> QED
        BY <1>7, <1>8, <3>1
    <2>3. queue' \in Seq(FilesFound) /\ incomplete' \in BOOLEAN
      BY <1>1, <1>4, <1>7 DEF SearchFits, SearchTypes
    <2>4. phase' \in {"search", "done"}
      BY <1>1, <1>7
    <2> QED
      BY <1>1, <1>6, <2>1, <2>2, <2>3, <2>4 DEF SearchFits, SearchTypes
  <1>13. NothingSkipped'
    <2>1. \A p : Has(matches', p) => ~Search!Skipped(p)
      BY <1>7, <1>8, <1>11 DEF SearchFits, NothingSkipped
    <2> QED
      BY <1>1, <1>4, <1>9, <2>1 DEF SearchFits, NothingSkipped
  <1>14. ASSUME NEW p, Wanted(p)
         PROVE  \/ incomplete' \/ Has(matches', p)
                \/ (phase' = "search" /\ Has(queue', FileFound(p)))
    <2>1. incomplete \/ Has(matches, p) \/ Has(queue, FileFound(p))
      BY <1>1, <1>14 DEF SearchFits, NothingLost, OnTheWay
    <2>2. p = file => entry = Search!At(p) /\ entry.text = "match"
      BY <1>2, <1>14 DEF Wanted
    <2>3. Has(matches, p) => Has(matches', p)
      BY <1>7, <1>8
    <2>4. p = file => incomplete' \/ Has(matches', p)
      BY <1>7, <1>8, <2>2
    <2>5. incomplete => incomplete'
      BY <1>7
    <2>6. phase' = "search" \/ incomplete'
      BY <1>1, <1>7
    <2> QED
      BY <1>10, <2>1, <2>3, <2>4, <2>5, <2>6
  <1>15. NothingLost'
    <2>1. phase' # "walk"
      BY <1>1, <1>7
    <2> QED
      BY <1>9, <1>14, <2>1 DEF NothingLost, OnTheWay
  <1> QED
    BY <1>12, <1>13, <1>15 DEF SearchFits

\* A search ends with no file left, or with a spent budget and incomplete.
LEMMA SearchDoneFits ==
    ASSUME SearchFits, Search!SearchDone
    PROVE  SearchFits'
  <1>1. /\ phase = "search" /\ file = None /\ (queue = << >> \/ budget = 0)
        /\ phase' = "done" /\ incomplete' = (incomplete \/ budget = 0)
        /\ UNCHANGED <<queue, budget, matches, file>>
        /\ UNCHANGED <<searched, touched, options, todo, entries, truncated>>
    BY DEF Search!SearchDone, Search!Searching, Search!Keep, Search!walkVars
  <1>2. \A p : (Wanted(p)' <=> Wanted(p)) /\ (Search!Skipped(p)' <=> Search!Skipped(p))
    BY <1>1, WantedStays
  <1>3. SearchTypes'
    BY <1>1 DEF SearchFits, SearchTypes
  <1>4. NothingSkipped'
    BY <1>1, <1>2 DEF SearchFits, NothingSkipped
  <1>5. NothingLost'
    BY <1>1, <1>2, EmptyHasNone DEF SearchFits, NothingLost, OnTheWay
  <1> QED
    BY <1>3, <1>4, <1>5 DEF SearchFits

\* A search that is cancelled or fails has no result.
LEMMA EndsFit ==
    ASSUME SearchFits, Search!Cancel \/ Search!WalkFails \/ Search!SearchFails
    PROVE  SearchFits'
  <1>1. /\ phase' = phase \/ phase' = "failed"
        /\ UNCHANGED <<searched, touched, options, todo, entries, truncated>>
        /\ UNCHANGED <<queue, budget, matches, incomplete, file>>
    BY DEF Search!Cancel, Search!WalkFails, Search!SearchFails, Search!Fails, Search!walkVars,
           Search!readVars
  <1>2. \A p : (Wanted(p)' <=> Wanted(p)) /\ (Search!Skipped(p)' <=> Search!Skipped(p))
    BY <1>1, WantedStays
  <1>3. SearchTypes'
    BY <1>1 DEF SearchFits, SearchTypes
  <1>4. NothingSkipped'
    BY <1>1, <1>2 DEF SearchFits, NothingSkipped
  <1>5. NothingLost'
    BY <1>1, <1>2 DEF SearchFits, NothingLost, OnTheWay
  <1> QED
    BY <1>3, <1>4, <1>5 DEF SearchFits

\* No search has begun.
LEMMA SearchInitFits == Search!SearchInit => SearchFits
  <1> SUFFICES ASSUME Search!SearchInit PROVE SearchFits
    OBVIOUS
  <1>1. /\ todo = << >> /\ entries = << >> /\ ~truncated /\ truncated \in BOOLEAN
        /\ queue = << >> /\ budget = TotalBudget /\ matches = << >>
        /\ incomplete \in BOOLEAN /\ file = None /\ phase = "idle" /\ touched = {}
    BY DEF Search!SearchInit
  <1>2. PICK there \in [Search!TreePaths \ {D} -> {entry \in Search!Entry : entry.kind = "file"}] :
          searched = [path \in Search!TreePaths |->
                        IF path = D THEN [kind |-> "directory", text |-> "plain", size |-> 1]
                        ELSE there[path]]
    BY DEF Search!SearchInit
  <1>3. [kind |-> "directory", text |-> "plain", size |-> 1] \in Search!Entry
    BY SearchAssumption DEF Search!Entry
  <1>4. searched \in [TreePaths -> Search!Entry] /\ searched[D].kind = "directory"
    BY <1>2, <1>3, PathsAre DEF TreePaths
  <1>5. SearchTypes
    <2>1. TotalBudget \in 0..TotalBudget /\ 0 <= MaxEntries /\ 0 <= MaxResults
      BY SearchAssumption
    <2>2. /\ << >> \in Seq(EntriesFound) /\ << >> \in Seq(FilesFound) /\ << >> \in Seq(TreePaths)
          /\ Len(<< >>) = 0
      OBVIOUS
    <2> QED
      BY <1>1, <1>4, <2>1, <2>2 DEF SearchTypes
  <1>6. NothingSkipped
    BY <1>1, EmptyHasNone DEF NothingSkipped
  <1>7. NothingLost
    BY <1>1 DEF NothingLost, OnTheWay
  <1> QED
    BY <1>5, <1>6, <1>7 DEF SearchFits

\* Every step of a search keeps the invariant.
LEMMA SearchStepFits ==
    ASSUME SearchFits, Search!SearchNext
    PROVE  SearchFits'
  BY OutsideChangesFits, BeginSearchFits, WalkEntryFits, WalkDoneFits, OpenFileFits, ReadFileFits,
     SearchDoneFits, EndsFit DEF Search!SearchNext

\* The invariant gives the properties of the result.
LEMMA SearchFitsIsHonest ==
    ASSUME SearchFits
    PROVE  Search!SearchTypeOK /\ Search!CompleteOrSaysSo /\ Search!IgnoreRulesHold
  <1>1. \A p : p \in Search!Range(matches) <=> Has(matches, p)
    BY RangeHas DEF SearchFits, SearchTypes
  <1>2. \A p : Has(matches, p) => p \in TreePaths
    BY DEF SearchFits, SearchTypes, Has
  <1>3. Search!SearchTypeOK
    BY <1>1, <1>2 DEF Search!SearchTypeOK, SearchFits, SearchTypes, TreePaths
  <1>4. Search!CompleteOrSaysSo
    <2> SUFFICES ASSUME phase = "done", ~incomplete, NEW p \in Search!TreePaths \ touched,
                        Search!At(p).kind = "file", Search!At(p).text = "match",
                        ~Search!Skipped(p),
                        p \in Search!Range(DirEntries) => ~Search!Skipped(D) /\ D \notin touched
                 PROVE  p \in Search!Range(matches)
      BY DEF Search!CompleteOrSaysSo
    <2>1. Wanted(p)
      BY DEF Wanted, TreePaths, InDirectory
    <2> QED
      BY <1>1, <2>1 DEF SearchFits, NothingLost, OnTheWay
  <1>5. Search!IgnoreRulesHold
    <2> SUFFICES ASSUME ~options.ignored, NEW p \in Search!Range(matches)
                 PROVE  /\ p \notin Heavy
                        /\ IF p \in Search!Range(DirEntries) /\ DirRules[p] # "none"
                             THEN DirRules[p] = "whitelist" ELSE RootRules[p] # "ignore"
      BY DEF Search!IgnoreRulesHold
    <2>1. ~Search!Skipped(p) /\ p \in TreePaths
      BY <1>1, <1>2 DEF SearchFits, NothingSkipped
    <2>2. p \notin Heavy /\ ~Search!IgnoredBy(p)
      BY <2>1 DEF Search!Skipped
    <2>3. DirRules[p] \in {"none", "ignore", "whitelist"}
      BY <2>1, SearchAssumption DEF TreePaths
    <2> QED
      BY <2>2, <2>3 DEF Search!IgnoredBy
  <1> QED
    BY <1>3, <1>4, <1>5

-----------------------------------------------------------------------------
(* The drains: a pane that waits is nearer to its turn with every drain.   *)

\* Positions in the ring of the panes, one round away at most.
LEMMA RoundTheRing ==
    ASSUME NEW a \in (-N)..N
    PROVE  a % N = IF a < 0 THEN a + N ELSE IF a = N THEN 0 ELSE a
  <1>1. N \in Nat /\ N > 0
    BY SchedulerAssumption
  <1>2. CASE a < 0
    BY <1>1, <1>2
  <1>3. CASE a = N
    BY <1>1, <1>3
  <1>4. CASE a >= 0 /\ a < N
    BY <1>1, <1>4
  <1> QED
    BY <1>1, <1>2, <1>3, <1>4

\* Any position is one of the ring.
LEMMA InTheRing ==
    ASSUME NEW a \in Int
    PROVE  a % N \in 0..(N - 1)
  <1>1. N \in Nat /\ N > 0
    BY SchedulerAssumption
  <1> QED
    BY <1>1

\* f is what is left of the aggregate budget before each of the first n turns.
LeavesBefore(f, n) ==
    f = [turn \in 0..n |-> IF turn = 0 THEN AggregateBudget
                           ELSE f[turn - 1]
                                  - Least(backlog[At(turn - 1)], Least(PaneBudget, f[turn - 1]))]

\* There is such a function: induction over the turns.
LEMMA LeftExists ==
    ASSUME NEW n \in Nat
    PROVE  \E f : LeavesBefore(f, n)
  <1> DEFINE Bad == {k \in 0..n : ~ \E f : LeavesBefore(f, k)}
  <1>1. SUFFICES ASSUME Bad # {}
                 PROVE  FALSE
    <2>1. n \in 0..n
      OBVIOUS
    <2> QED
      BY <2>1, Zenon
  <1>2. PICK m \in Bad : \A k \in Bad : m <= k
    <2>1. Bad \subseteq Nat
      OBVIOUS
    <2> HIDE DEF Bad
    <2> QED
      BY <1>1, <2>1, LeastNumber
  <1>3. CASE m = 0
    <2>1. LeavesBefore([k \in 0..0 |-> AggregateBudget], 0)
      BY DEF LeavesBefore
    <2> QED
      BY <1>3, <2>1
  <1>4. CASE m # 0
    <2>1. m - 1 \in 0..n /\ m \in 0..n /\ m \in Nat
      BY <1>4
    <2>2. PICK f : LeavesBefore(f, m - 1)
      BY <1>2, <2>1
    <2> DEFINE Minus(x, k) == x - Least(backlog[At(k)], Least(PaneBudget, x))
               g == [k \in 0..m |-> IF k < m THEN f[k] ELSE Minus(f[m - 1], m - 1)]
               Step(k) == IF k = 0 THEN AggregateBudget ELSE Minus(g[k - 1], k - 1)
    <2>3. \A k \in 0..(m - 1) : f[k] = IF k = 0 THEN AggregateBudget ELSE Minus(f[k - 1], k - 1)
      BY <2>2 DEF LeavesBefore
    <2>4. g = [k \in 0..m |-> Step(k)]
      <3> HIDE DEF Minus
      <3>1. ASSUME NEW k \in 0..m
            PROVE  g[k] = Step(k)
        <4>1. CASE k < m
          <5>1. k \in 0..(m - 1) /\ (k # 0 => k - 1 \in 0..m /\ k - 1 < m)
            BY <4>1, <2>1
          <5>2. g[k] = f[k] /\ (k # 0 => g[k - 1] = f[k - 1])
            BY <4>1, <5>1
          <5> HIDE DEF g
          <5> QED
            BY <2>3, <5>1, <5>2
        <4>2. CASE k = m
          <5>1. m - 1 \in 0..m /\ m - 1 < m /\ m \in 0..m /\ ~(m < m)
            BY <1>4, <2>1
          <5>2. g[m - 1] = f[m - 1] /\ g[m] = Minus(f[m - 1], m - 1)
            BY <5>1
          <5> HIDE DEF g
          <5> QED
            BY <4>2, <1>4, <5>2
        <4> QED
          BY <4>1, <4>2, <2>1
      <3> HIDE DEF Step
      <3>2. g = [k \in 0..m |-> g[k]]
        OBVIOUS
      <3> HIDE DEF g
      <3> QED
        BY <3>1, <3>2
    <2>5. LeavesBefore(g, m)
      <3> HIDE DEF g
      <3> QED
        BY <2>4 DEF LeavesBefore
    <2> QED
      BY <2>5
  <1> QED
    BY <1>3, <1>4

\* Remaining is that function for a whole drain.
LEMMA RemainingLeaves == LeavesBefore(Remaining, N)
  <1> DEFINE IsLeft(f) ==
               f = [turn \in 0..N |-> IF turn = 0 THEN AggregateBudget
                      ELSE f[turn - 1]
                             - Least(backlog[At(turn - 1)], Least(PaneBudget, f[turn - 1]))]
  <1>1. \E f : IsLeft(f)
    <2>1. N \in Nat
      BY SchedulerAssumption
    <2>2. PICK f : LeavesBefore(f, N)
      BY <2>1, LeftExists
    <2>3. IsLeft(f)
      BY <2>2, Zenon DEF LeavesBefore
    <2> QED
      BY <2>3, Zenon
  <1>2. IsLeft(CHOOSE f : IsLeft(f))
    BY <1>1, Zenon
  <1>3. Remaining = CHOOSE f : IsLeft(f)
    BY Zenon DEF Remaining
  <1> QED
    BY <1>2, <1>3, Zenon DEF LeavesBefore

\* The types of the drains.
DrainTypes ==
    /\ cursor \in Pane
    /\ backlog \in [Pane -> 0..MaxBacklog]
    /\ served \subseteq Pane
    /\ waited \in [Pane -> 0..N]

\* The budget goes down turn by turn, to zero at the least.
LEMMA RemainingFalls ==
    ASSUME DrainTypes
    PROVE  /\ Remaining[0] = AggregateBudget
           /\ \A turn \in 0..N : Remaining[turn] \in Nat
           /\ \A turn \in 1..N : Remaining[turn - 1] = 0 => Remaining[turn] = 0
  <1> DEFINE Left(k) == Remaining[k - 1]
                          - Least(backlog[At(k - 1)], Least(PaneBudget, Remaining[k - 1]))
  <1>0. N \in Nat /\ AggregateBudget \in Nat /\ PaneBudget \in Nat /\ MaxBacklog \in Nat
    BY SchedulerAssumption
  <1>1. Remaining[0] = AggregateBudget /\ \A k \in 1..N : Remaining[k] = Left(k)
    BY <1>0, RemainingLeaves DEF LeavesBefore
  <1>2. \A k \in 1..N : backlog[At(k - 1)] \in Nat
    <2>1. ASSUME NEW k \in 1..N PROVE backlog[At(k - 1)] \in Nat
      <3>1. cursor + (k - 1) \in Int
        BY <1>0 DEF DrainTypes, Pane
      <3>2. At(k - 1) \in Pane
        BY <3>1, InTheRing DEF At, Pane
      <3> QED
        BY <1>0, <3>2 DEF DrainTypes
    <2> QED
      BY <2>1
  <1>3. \A k \in 1..N : Remaining[k - 1] \in Nat => Left(k) \in Nat /\ (Remaining[k - 1] = 0 => Left(k) = 0)
    BY <1>0, <1>2 DEF Least
  <1> HIDE DEF Left
  <1>4. \A turn \in 0..N : Remaining[turn] \in Nat
    <2> DEFINE Bad == {k \in 0..N : Remaining[k] \notin Nat}
    <2> SUFFICES ASSUME Bad # {} PROVE FALSE
      OBVIOUS
    <2>1. PICK m \in Bad : \A k \in Bad : m <= k
      <3>1. Bad \subseteq Nat
        BY <1>0
      <3> HIDE DEF Bad
      <3> QED
        BY <3>1, LeastNumber
    <2>2. m \in 1..N /\ m - 1 \in 0..N /\ ~(m <= m - 1)
      BY <1>0, <1>1
    <2>3. Remaining[m - 1] \in Nat
      BY <2>1, <2>2
    <2> QED
      BY <1>1, <1>3, <2>2, <2>3
  <1>5. \A turn \in 1..N : turn - 1 \in 0..N
    BY <1>0
  <1> QED
    BY <1>1, <1>3, <1>4, <1>5

\* Once the budget is spent, it is spent at the end of the drain.
LEMMA SpentStaysSpent ==
    ASSUME DrainTypes, NEW turn \in 0..N, Remaining[turn] = 0
    PROVE  Remaining[N] = 0
  <1> DEFINE Bad == {k \in turn..N : Remaining[k] # 0}
  <1>0. N \in Nat /\ N \in turn..N
    BY SchedulerAssumption
  <1> SUFFICES ASSUME Bad # {} PROVE FALSE
    BY <1>0
  <1>1. PICK m \in Bad : \A k \in Bad : m <= k
    <2>1. Bad \subseteq Nat
      BY <1>0
    <2> HIDE DEF Bad
    <2> QED
      BY <2>1, LeastNumber
  <1>2. m \in 1..N /\ m - 1 \in turn..N /\ ~(m <= m - 1)
    BY <1>0
  <1>3. Remaining[m - 1] = 0
    BY <1>1, <1>2
  <1> QED
    BY <1>2, <1>3, RemainingFalls

\* A pane that has output gets none of the budget only when it is spent before its turn.
LEMMA QuantumIs ==
    ASSUME DrainTypes, NEW p \in Pane
    PROVE  /\ Turn(p) \in 0..(N - 1)
           /\ Quantum(p) \in 0..backlog[p]
           /\ p \in Ready /\ Quantum(p) = 0 => Remaining[Turn(p)] = 0
  <1>1. N \in Nat /\ N > 0 /\ PaneBudget \in Nat /\ PaneBudget > 0
    BY SchedulerAssumption
  <1>2. Turn(p) \in 0..(N - 1)
    <2>1. p - cursor \in Int
      BY <1>1 DEF DrainTypes, Pane
    <2> QED
      BY <2>1, InTheRing DEF Turn
  <1>3. Remaining[Turn(p)] \in Nat
    <2>1. Turn(p) \in 0..N
      BY <1>1, <1>2
    <2> QED
      BY <2>1, RemainingFalls
  <1>4. backlog[p] \in Nat
    BY SchedulerAssumption DEF DrainTypes
  <1> QED
    BY <1>1, <1>2, <1>3, <1>4 DEF Quantum, Least, Ready

\* The inductive invariant: a pane waits no longer than until its turn comes round.
DrainFits == DrainTypes /\ \A p \in Pane : waited[p] + Turn(p) <= N - 1

\* No pane has waited.
LEMMA DrainInitFits == Init => DrainFits
  <1> SUFFICES ASSUME Init PROVE DrainFits
    OBVIOUS
  <1>1. N \in Nat /\ N > 0 /\ MaxBacklog \in Nat
    BY SchedulerAssumption
  <1>2. DrainTypes
    BY <1>1 DEF Init, DrainTypes, Pane
  <1>3. ASSUME NEW p \in Pane PROVE waited[p] + Turn(p) <= N - 1
    <2>1. Turn(p) \in 0..(N - 1)
      BY <1>2, QuantumIs
    <2> QED
      BY <1>1, <2>1 DEF Init
  <1> QED
    BY <1>2, <1>3 DEF DrainFits

\* Output of a child changes no turn.
LEMMA ProduceFits ==
    ASSUME DrainFits, NEW p \in Pane, Produce(p)
    PROVE  DrainFits'
  <1>1. backlog' \in [Pane -> 0..MaxBacklog]
    <2>1. backlog[p] + 1 \in 0..MaxBacklog
      BY SchedulerAssumption DEF Produce, DrainFits, DrainTypes
    <2> QED
      BY <2>1 DEF Produce, DrainFits, DrainTypes
  <1>2. UNCHANGED <<cursor, served, waited>>
    BY DEF Produce
  <1>3. \A q \in Pane : waited'[q] + Turn(q)' <= N - 1
    BY <1>2 DEF DrainFits, Turn
  <1> QED
    BY <1>1, <1>2, <1>3 DEF DrainFits, DrainTypes

\* A drain that leaves a pane without a quantum brings its turn nearer.
LEMMA DrainStepFits ==
    ASSUME DrainFits, Drain
    PROVE  DrainFits'
  <1>1. N \in Nat /\ N > 0 /\ AggregateBudget \in Nat /\ AggregateBudget > 0 /\ MaxBacklog \in Nat
    BY SchedulerAssumption
  <1>2. cursor \in Int /\ cursor + 1 \in (-N)..N /\ cursor' = (cursor + 1) % N
    BY <1>1 DEF DrainFits, DrainTypes, Pane, Drain, NextCursor
  <1>3. cursor' \in Pane /\ cursor' = IF cursor + 1 = N THEN 0 ELSE cursor + 1
    BY <1>1, <1>2, RoundTheRing DEF DrainFits, DrainTypes, Pane
  <1>4. backlog' \in [Pane -> 0..MaxBacklog]
    <2>1. ASSUME NEW p \in Pane PROVE backlog[p] - Quantum(p) \in 0..MaxBacklog
      BY <1>1, QuantumIs DEF DrainFits, DrainTypes
    <2> QED
      BY <2>1 DEF Drain
  <1>5. served' \subseteq Pane
    BY DEF Drain
  <1>6. ASSUME NEW p \in Pane
        PROVE  waited'[p] \in 0..N /\ waited'[p] + Turn(p)' <= N - 1
    <2>1. waited'[p] = IF p \in Ready /\ Quantum(p) = 0 THEN waited[p] + 1 ELSE 0
      BY DEF Drain
    <2>2. /\ waited[p] \in Nat /\ waited[p] + Turn(p) <= N - 1 /\ Turn(p) \in 0..(N - 1)
          /\ p \in 0..(N - 1) /\ cursor \in 0..(N - 1)
      <3>1. waited[p] \in 0..N /\ waited[p] + Turn(p) <= N - 1 /\ cursor \in Pane
        BY DEF DrainFits, DrainTypes
      <3>2. Turn(p) \in 0..(N - 1)
        BY QuantumIs DEF DrainFits
      <3> QED
        BY <1>1, <3>1, <3>2 DEF Pane
    <2>3. Turn(p) = IF p >= cursor THEN p - cursor ELSE p - cursor + N
      <3>1. p - cursor \in (-N)..N
        BY <1>1, <2>2
      <3> QED
        BY <1>1, <2>2, <3>1, RoundTheRing DEF Turn
    <2>4. Turn(p)' = IF p >= cursor' THEN p - cursor' ELSE p - cursor' + N
      <3>1. p - cursor' \in (-N)..N
        BY <1>1, <1>3, <2>2
      <3>2. Turn(p)' = (p - cursor') % N
        BY DEF Turn
      <3> QED
        BY <1>1, <1>3, <2>2, <3>1, <3>2, RoundTheRing
    <2>5. p \in Ready /\ Quantum(p) = 0 => Turn(p) # 0
      BY <1>1, QuantumIs, RemainingFalls DEF DrainFits
    <2> QED
      BY <1>1, <1>3, <2>1, <2>2, <2>3, <2>4, <2>5
  <1>7. waited' \in [Pane -> 0..N]
    BY <1>6 DEF Drain
  <1> QED
    BY <1>3, <1>4, <1>5, <1>6, <1>7 DEF DrainFits, DrainTypes

\* A pane with output that is not served finds the budget spent.
LEMMA DrainSpends ==
    ASSUME DrainFits, Next, cursor' # cursor, NEW p \in Ready, p \notin served'
    PROVE  Remaining[N] = 0
  <1>1. Drain
    BY DEF Next, Produce
  <1>2. p \in Pane /\ backlog[p] \in Nat
    BY SchedulerAssumption DEF Ready, DrainFits, DrainTypes
  <1>3. Quantum(p) = 0
    BY <1>1, <1>2, QuantumIs DEF Drain, DrainFits
  <1>4. Remaining[Turn(p)] = 0 /\ Turn(p) \in 0..N
    BY <1>2, <1>3, QuantumIs, SchedulerAssumption DEF DrainFits
  <1> QED
    BY <1>4, SpentStaysSpent DEF DrainFits

\* The invariant bounds the wait.
LEMMA DrainFitsIsFair ==
    ASSUME DrainFits
    PROVE  TypeOK /\ BoundedWait
  <1>1. TypeOK
    BY DEF DrainFits, DrainTypes, TypeOK
  <1>2. ASSUME NEW p \in Pane PROVE waited[p] < N
    BY QuantumIs, SchedulerAssumption DEF DrainFits, DrainTypes
  <1> QED
    BY <1>1, <1>2 DEF BoundedWait

\* Every step of the drains keeps the invariant.
LEMMA DrainNextFits ==
    ASSUME DrainFits, Next
    PROVE  DrainFits'
  BY ProduceFits, DrainStepFits DEF Next

-----------------------------------------------------------------------------
(* The theorems.                                                            *)

\* Of the parts of the run, only its own one changes the layout or the shell.
LEMMA StepsFit ==
    ASSUME LayoutFits, ShellFits, [MCNext]_allVars
    PROVE  LayoutFits' /\ ShellFits'
  <1>1. ASSUME UNCHANGED layoutPart PROVE LayoutFits'
    BY <1>1, NothingTurns DEF layoutPart, LayoutFits, PanesFit
  <1>2. ASSUME UNCHANGED shellPart PROVE ShellFits'
    BY <1>2 DEF shellPart, ShellFits
  <1>3. CASE LayoutActs
    BY <1>2, <1>3, LayoutStepFits DEF LayoutActs
  <1>4. CASE ShellActs
    BY <1>1, <1>4, ShellStepFits DEF ShellActs
  <1>5. CASE FilesAct \/ ExplorerActs \/ ScreenActs \/ SearchActs \/ DrainActs
    BY <1>1, <1>2, <1>5 DEF FilesAct, ExplorerActs, ScreenActs, SearchActs, DrainActs
  <1>6. CASE UNCHANGED allVars
    BY <1>1, <1>2, <1>6 DEF allVars
  <1> QED
    BY <1>3, <1>4, <1>5, <1>6 DEF MCNext

\* Whatever tabs are made, split and closed, processes started and lost, and workspaces opened
\* and saved, the layout is one validate_snapshot accepts and the next start shows again, every
\* pane shows the state of its runtime, a promoted surface is on the canvas, and a closed
\* command center has given the focus back.
THEOREM SurfacesKeepAgreeing == MCSpec => []SurfacesAgree
  <1>1. MCInit => LayoutFits /\ ShellFits
    BY LayoutInitFits, ShellInitFits DEF MCInit
  <1>2. LayoutFits /\ ShellFits /\ [MCNext]_allVars => (LayoutFits /\ ShellFits)'
    BY StepsFit
  <1>3. LayoutFits /\ ShellFits => SurfacesAgree
    BY LayoutFitsAgrees, ShellFitsAgrees DEF SurfacesAgree
  <1> QED
    BY <1>1, <1>2, <1>3, PTL DEF MCSpec

\* Whatever changes outside, is cancelled, or meets a bound on entries, bytes or results: a
\* search result that is not marked incomplete has every file with a match that nobody touched
\* and the options show, and none that the ignore rules hide.
THEOREM SearchStaysHonest == MCSpec => []SearchIsHonest
  <1>1. MCInit => SearchFits
    BY SearchInitFits DEF MCInit
  <1>2. SearchFits /\ [MCNext]_allVars => SearchFits'
    <2> SUFFICES ASSUME SearchFits, [MCNext]_allVars PROVE SearchFits'
      OBVIOUS
    <2>1. CASE UNCHANGED searchPart
      <3>1. \A p : (Wanted(p)' <=> Wanted(p)) /\ (Search!Skipped(p)' <=> Search!Skipped(p))
        BY <2>1, WantedStays DEF searchPart
      <3> QED
        BY <2>1, <3>1 DEF searchPart, SearchFits, SearchTypes, NothingSkipped, NothingLost,
                          OnTheWay
    <2>2. CASE SearchActs
      BY <2>2, SearchStepFits DEF SearchActs
    <2> QED
      BY <2>1, <2>2 DEF MCNext, FilesAct, ExplorerActs, LayoutActs, ShellActs, ScreenActs,
                        DrainActs, allVars
  <1>3. SearchFits => SearchIsHonest
    BY SearchFitsIsHonest DEF SearchIsHonest
  <1> QED
    BY <1>1, <1>2, <1>3, PTL DEF MCSpec

\* For any number of panes, budgets and backlog, no pane with output goes without a quantum for
\* N drains in a row, and a drain that leaves one out has spent its whole budget.
THEOREM DrainKeepsFair == MCSpec => DrainIsFair
  <1>1. MCInit => DrainFits
    BY DrainInitFits DEF MCInit
  <1>2. DrainFits /\ [MCNext]_allVars => DrainFits'
    <2> SUFFICES ASSUME DrainFits, [MCNext]_allVars PROVE DrainFits'
      OBVIOUS
    <2>1. CASE UNCHANGED vars
      BY <2>1 DEF vars, DrainFits, DrainTypes, Turn
    <2>2. CASE Next
      BY <2>2, DrainNextFits
    <2> QED
      BY <2>1, <2>2 DEF MCNext, FilesAct, ExplorerActs, LayoutActs, ShellActs, ScreenActs,
                        SearchActs, DrainActs, allVars
  <1>3. DrainFits => (part = "drain" => TypeOK /\ BoundedWait)
    BY DrainFitsIsFair
  <1>4. DrainFits /\ [MCNext]_allVars
          => [(cursor' # cursor /\ \E p \in Ready : p \notin served') => Remaining[N] = 0]_vars
    <2> SUFFICES ASSUME DrainFits, [MCNext]_allVars, ~ UNCHANGED vars,
                        cursor' # cursor, NEW p \in Ready, p \notin served'
                 PROVE  Remaining[N] = 0
      OBVIOUS
    <2>1. Next
      BY DEF MCNext, FilesAct, ExplorerActs, LayoutActs, ShellActs, ScreenActs,
             SearchActs, DrainActs, allVars
    <2> QED
      BY <2>1, DrainSpends
  <1> QED
    BY <1>1, <1>2, <1>3, <1>4, PTL DEF MCSpec, DrainIsFair, WorkConserving
=============================================================================
