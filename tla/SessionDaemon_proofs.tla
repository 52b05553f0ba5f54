------------------------ MODULE SessionDaemon_proofs ------------------------
(***************************************************************************)
(* Proofs about SessionDaemon: whatever the clients ask, whenever they     *)
(* vanish and wherever the service is killed, the catalog shows the        *)
(* processes there are, what was acknowledged is on disk, the two records  *)
(* of who is in control agree, and no rearrangement ends a process.        *)
(*                                                                         *)
(* The first half is about catalogs as values, for any catalog and any     *)
(* mutation of it; the second half is the invariant of the service.        *)
(***************************************************************************)
EXTENDS SessionDaemon, SequenceTheorems, TLAPS

-----------------------------------------------------------------------------
(* What one drain turn can make of a pane.                                  *)

\* The states that a pane with a process can have.
HeldStates == {"Running", "Backpressured"}

\* A pane as prepare and begin_restart make it.
LEMMA NewPaneType ==
    ASSUME NEW g \in Nat, NEW s \in States
    PROVE  /\ NewPane(g, s) \in PaneRuntime
           /\ NewPane(g, s).generation = g
           /\ NewPane(g, s).state = s
           /\ NewPane(g, s).process = FALSE
BY DEF NewPane, PaneRuntime, Clock

\* A turn's first half keeps the generation, can only drop the process, and
\* leaves a pane that still holds one in a held state.
LEMMA DrainBytesKeeps ==
    ASSUME NEW pane \in PaneRuntime, NEW turn \in Turn, NEW aged \in BOOLEAN
    PROVE  LET after == DrainBytes(pane, turn, aged)
           IN  /\ after \in PaneRuntime
               /\ after.generation = pane.generation
               /\ after.process => pane.process
               /\ after.process /\ pane.state \in HeldStates => after.state \in HeldStates
<1>1. Tick(pane.pending, aged) \in Clock
  BY DEF PaneRuntime, Clock, Tick
<1>2. CASE turn.read = "error"
  BY <1>1, <1>2 DEF DrainBytes, Fail, PaneRuntime, States, Clock, HeldStates
<1>3. CASE turn.read # "error"
  BY <1>1, <1>3 DEF DrainBytes, PaneRuntime, States, Clock, HeldStates
<1> QED BY <1>2, <1>3

\* The same of the poll for the child's exit.
LEMMA PollExitKeeps ==
    ASSUME NEW pane \in PaneRuntime, NEW turn \in Turn
    PROVE  LET after == PollExit(pane, turn)
           IN  /\ after \in PaneRuntime
               /\ after.generation = pane.generation
               /\ after.process => pane.process
               /\ after.process => after.state = pane.state
<1>1. turn.waits \in {"running", "exited", "error"}
  BY DEF Turn
<1> QED BY <1>1 DEF PollExit, Fail, PaneRuntime, States

\* The pressure check touches the clock and the state alone.
LEMMA UpdatePressureKeeps ==
    ASSUME NEW pane \in PaneRuntime, NEW turn \in Turn, NEW aged \in BOOLEAN
    PROVE  LET after == UpdatePressure(pane, turn, aged)
           IN  /\ after \in PaneRuntime
               /\ after.generation = pane.generation
               /\ after.process = pane.process
               /\ pane.state \in HeldStates => after.state \in HeldStates
<1>1. Tick(pane.pressure, aged) \in Clock
  BY DEF PaneRuntime, Clock, Tick
<1> DEFINE pressure == IF pane.process /\ turn.blocked
                       THEN Tick(pane.pressure, aged) ELSE "none"
<1>2. pressure \in Clock
  BY <1>1 DEF Clock
<1> DEFINE pressured == pane.pending = "old" \/ pressure = "old"
           state == IF pressured THEN "Backpressured"
                    ELSE IF pane.state = "Backpressured" THEN "Running" ELSE pane.state
<1>3. state \in States /\ (pane.state \in HeldStates => state \in HeldStates)
  BY DEF PaneRuntime, States, HeldStates
<1>4. UpdatePressure(pane, turn, aged)
        = [pane EXCEPT !.pressure = pressure, !.state = state]
  BY DEF UpdatePressure, PaneRuntime
<1> HIDE DEF pressure, state
<1> QED BY <1>2, <1>3, <1>4 DEF PaneRuntime

\* The three together are a pane's turn in a drain.
LEMMA AfterTurnKeeps ==
    ASSUME NEW pane \in PaneRuntime, NEW turn \in Turn, NEW aged \in BOOLEAN
    PROVE  LET after == AfterTurn(pane, turn, aged)
           IN  /\ after \in PaneRuntime
               /\ after.generation = pane.generation
               /\ after.process => pane.process
               /\ after.process /\ pane.state \in HeldStates => after.state \in HeldStates
<1> DEFINE drained == DrainBytes(pane, turn, aged)
           polled == PollExit(drained, turn)
<1>1. /\ drained \in PaneRuntime
      /\ drained.generation = pane.generation
      /\ drained.process => pane.process
      /\ drained.process /\ pane.state \in HeldStates => drained.state \in HeldStates
  BY DrainBytesKeeps
<1>2. /\ polled \in PaneRuntime
      /\ polled.generation = drained.generation
      /\ polled.process => drained.process
      /\ polled.process => polled.state = drained.state
  BY <1>1, PollExitKeeps
<1> HIDE DEF drained
<1>3. AfterTurn(pane, turn, aged) = UpdatePressure(polled, turn, aged)
  BY DEF AfterTurn, drained
<1> HIDE DEF polled
<1>4. /\ UpdatePressure(polled, turn, aged) \in PaneRuntime
      /\ UpdatePressure(polled, turn, aged).generation = polled.generation
      /\ UpdatePressure(polled, turn, aged).process = polled.process
      /\ polled.state \in HeldStates => UpdatePressure(polled, turn, aged).state \in HeldStates
  BY <1>2, UpdatePressureKeeps
<1> QED BY <1>1, <1>2, <1>3, <1>4

-----------------------------------------------------------------------------
(* Catalogs as values.  What validate() looks at is not needed below.       *)

\* Two catalogs that differ only in what they say of each pane.
SameStructure(c, d) ==
    /\ DOMAIN d.sessions = DOMAIN c.sessions
    /\ d.active = c.active
    /\ \A s \in DOMAIN c.sessions :
         /\ d.sessions[s].active = c.sessions[s].active
         /\ DOMAIN d.sessions[s].windows = DOMAIN c.sessions[s].windows
         /\ \A i \in DOMAIN c.sessions[s].windows :
              /\ d.sessions[s].windows[i].id = c.sessions[s].windows[i].id
              /\ d.sessions[s].windows[i].root = c.sessions[s].windows[i].root
              /\ d.sessions[s].windows[i].focused = c.sessions[s].windows[i].focused
              /\ DOMAIN d.sessions[s].windows[i].panes = DOMAIN c.sessions[s].windows[i].panes

\* The windows of a catalog are those of its sessions, its panes those of its windows.
LEMMA WindowsAre ==
    ASSUME NEW c
    PROVE  /\ \A s \in DOMAIN c.sessions : \A i \in DOMAIN c.sessions[s].windows :
                c.sessions[s].windows[i] \in Windows(c)
           /\ \A w \in Windows(c) : \E s \in DOMAIN c.sessions :
                \E i \in DOMAIN c.sessions[s].windows : w = c.sessions[s].windows[i]
  BY DEF Windows, Range

\* A pane of a catalog is a pane of one of its windows.
LEMMA PanesAre ==
    ASSUME NEW c
    PROVE  \A p : p \in PanesIn(c) <=> \E w \in Windows(c) : p \in DOMAIN w.panes
  BY DEF PanesIn

\* A sequence is one of its own elements.
LEMMA SequenceOfRange ==
    ASSUME NEW S, NEW q \in Seq(S)
    PROVE  q \in Seq(Range(q))
  BY DEF Range

-----------------------------------------------------------------------------
(* Catalogs with every pane replaced.                                       *)

\* MapPanes with the new panes as functions, of the sessions, windows and panes.
RebuildWindow(w, h) == [w EXCEPT !.panes = [p \in DOMAIN @ |-> h[p]]]
RebuildSession(t, g) == [t EXCEPT !.windows = [i \in DOMAIN @ |-> RebuildWindow(@[i], g[i])]]
Rebuild(c, f) == [c EXCEPT !.sessions = [s \in DOMAIN @ |-> RebuildSession(@[s], f[s])]]

\* A window keeps everything but its panes.
LEMMA RebuiltWindow ==
    ASSUME NEW w, NEW h, IsWindow(w)
    PROVE  /\ IsWindow(RebuildWindow(w, h))
           /\ RebuildWindow(w, h).panes = [p \in DOMAIN w.panes |-> h[p]]
           /\ RebuildWindow(w, h).id = w.id
           /\ RebuildWindow(w, h).root = w.root
           /\ RebuildWindow(w, h).focused = w.focused
  BY DEF RebuildWindow, IsWindow

\* A session keeps its windows and which of them is active.
LEMMA RebuiltSession ==
    ASSUME NEW t, NEW g, IsSession(t)
    PROVE  /\ IsSession(RebuildSession(t, g))
           /\ RebuildSession(t, g).active = t.active
           /\ RebuildSession(t, g).windows =
                [i \in DOMAIN t.windows |-> RebuildWindow(t.windows[i], g[i])]
  <1> DEFINE r == RebuildSession(t, g)
  <1>1. /\ r.active = t.active
        /\ r.windows = [i \in DOMAIN t.windows |-> RebuildWindow(t.windows[i], g[i])]
        /\ r = [windows |-> r.windows, active |-> r.active]
    BY DEF RebuildSession, IsSession
  <1> HIDE DEF r
  <1>2. r.windows \in Seq({RebuildWindow(t.windows[i], g[i]) : i \in DOMAIN t.windows})
    BY <1>1 DEF IsSession
  <1>3. r.windows \in Seq(Range(r.windows))
    BY <1>2, SequenceOfRange
  <1>4. ASSUME NEW i \in DOMAIN r.windows
        PROVE  IsWindow(r.windows[i])
    <2>1. i \in DOMAIN t.windows /\ r.windows[i] = RebuildWindow(t.windows[i], g[i])
      BY <1>1
    <2>2. IsWindow(t.windows[i])
      BY <2>1 DEF IsSession
    <2>3. IsWindow(RebuildWindow(t.windows[i], g[i]))
      BY <2>2, RebuiltWindow, Zenon
    <2> QED
      BY <2>1, <2>3
  <1>5. IsSession(r)
    BY <1>1, <1>3, <1>4 DEF IsSession
  <1> QED
    BY <1>1, <1>5 DEF r

\* A catalog keeps its structure.
LEMMA RebuiltCatalog ==
    ASSUME NEW c, NEW f, IsCatalog(c)
    PROVE  /\ IsCatalog(Rebuild(c, f))
           /\ SameStructure(c, Rebuild(c, f))
           /\ \A s \in DOMAIN c.sessions : \A i \in DOMAIN c.sessions[s].windows :
                \A p \in DOMAIN c.sessions[s].windows[i].panes :
                   Rebuild(c, f).sessions[s].windows[i].panes[p] = f[s][i][p]
  <1> DEFINE d == Rebuild(c, f)
  <1>1. /\ d.active = c.active
        /\ d.sessions = [s \in DOMAIN c.sessions |-> RebuildSession(c.sessions[s], f[s])]
        /\ d = [sessions |-> d.sessions, active |-> d.active]
    BY DEF Rebuild, IsCatalog
  <1> HIDE DEF d
  <1>2. ASSUME NEW s \in DOMAIN c.sessions
        PROVE  /\ IsSession(d.sessions[s])
               /\ d.sessions[s].active = c.sessions[s].active
               /\ d.sessions[s].windows = [i \in DOMAIN c.sessions[s].windows |->
                                             RebuildWindow(c.sessions[s].windows[i], f[s][i])]
    <2>1. IsSession(c.sessions[s]) /\ d.sessions[s] = RebuildSession(c.sessions[s], f[s])
      BY <1>1 DEF IsCatalog
    <2> QED
      BY <2>1, RebuiltSession
  <1>3. IsCatalog(d)
    BY <1>1, <1>2 DEF IsCatalog
  <1>4. ASSUME NEW s \in DOMAIN c.sessions, NEW i \in DOMAIN c.sessions[s].windows
        PROVE  /\ d.sessions[s].windows[i].id = c.sessions[s].windows[i].id
               /\ d.sessions[s].windows[i].root = c.sessions[s].windows[i].root
               /\ d.sessions[s].windows[i].focused = c.sessions[s].windows[i].focused
               /\ d.sessions[s].windows[i].panes =
                    [p \in DOMAIN c.sessions[s].windows[i].panes |-> f[s][i][p]]
    <2>1. IsWindow(c.sessions[s].windows[i])
      BY DEF IsCatalog, IsSession
    <2>2. d.sessions[s].windows[i] = RebuildWindow(c.sessions[s].windows[i], f[s][i])
      BY <1>2
    <2> QED
      BY <2>1, <2>2, RebuiltWindow
  <1>5. SameStructure(c, d)
    <2>1. DOMAIN d.sessions = DOMAIN c.sessions /\ d.active = c.active
      BY <1>1
    <2>2. ASSUME NEW s \in DOMAIN c.sessions
          PROVE  /\ d.sessions[s].active = c.sessions[s].active
                 /\ DOMAIN d.sessions[s].windows = DOMAIN c.sessions[s].windows
      BY <1>2
    <2>3. ASSUME NEW s \in DOMAIN c.sessions, NEW i \in DOMAIN c.sessions[s].windows
          PROVE  DOMAIN d.sessions[s].windows[i].panes = DOMAIN c.sessions[s].windows[i].panes
      BY <1>4
    <2> QED
      BY <2>1, <2>2, <2>3, <1>4 DEF SameStructure
  <1>6. ASSUME NEW s \in DOMAIN c.sessions, NEW i \in DOMAIN c.sessions[s].windows,
               NEW p \in DOMAIN c.sessions[s].windows[i].panes
        PROVE  d.sessions[s].windows[i].panes[p] = f[s][i][p]
    <2>1. d.sessions[s].windows[i].panes =
            [q \in DOMAIN c.sessions[s].windows[i].panes |-> f[s][i][q]]
      BY <1>4
    <2> QED
      BY <2>1
  <1> QED
    BY <1>3, <1>5, <1>6 DEF d

\* Two catalogs of the same structure that say the same of every pane are the same.
LEMMA SameCatalog ==
    ASSUME NEW c, NEW d, IsCatalog(c), IsCatalog(d), SameStructure(c, d),
           \A s \in DOMAIN c.sessions : \A i \in DOMAIN c.sessions[s].windows :
             \A p \in DOMAIN c.sessions[s].windows[i].panes :
               d.sessions[s].windows[i].panes[p] = c.sessions[s].windows[i].panes[p]
    PROVE  c = d
  <1>1. ASSUME NEW s \in DOMAIN c.sessions
        PROVE  c.sessions[s] = d.sessions[s]
    <2>1. ASSUME NEW i \in DOMAIN c.sessions[s].windows
          PROVE  c.sessions[s].windows[i] = d.sessions[s].windows[i]
      <3> DEFINE w == c.sessions[s].windows[i]
                 v == d.sessions[s].windows[i]
      <3>1. IsWindow(w) /\ IsWindow(v)
        BY DEF IsCatalog, IsSession, SameStructure
      <3>2. v.id = w.id /\ v.root = w.root /\ v.focused = w.focused
        BY DEF SameStructure
      <3>3. DOMAIN v.panes = DOMAIN w.panes
        BY DEF SameStructure
      <3>4. \A p \in DOMAIN w.panes : v.panes[p] = w.panes[p]
        OBVIOUS
      <3> HIDE DEF w, v
      <3>5. v.panes = w.panes
        BY <3>1, <3>3, <3>4 DEF IsWindow
      <3>6. v = w
        BY <3>1, <3>2, <3>5 DEF IsWindow
      <3> QED
        BY <3>6 DEF v, w
    <2>2. IsSession(c.sessions[s]) /\ IsSession(d.sessions[s])
      BY DEF IsCatalog, SameStructure
    <2>3. /\ DOMAIN d.sessions[s].windows = DOMAIN c.sessions[s].windows
          /\ d.sessions[s].active = c.sessions[s].active
      BY DEF SameStructure
    <2>4. c.sessions[s].windows = d.sessions[s].windows
      BY <2>1, <2>2, <2>3 DEF IsSession
    <2> QED
      BY <2>2, <2>3, <2>4 DEF IsSession
  <1>2. DOMAIN d.sessions = DOMAIN c.sessions /\ d.active = c.active
    BY DEF SameStructure
  <1>3. c.sessions = d.sessions
    BY <1>1, <1>2 DEF IsCatalog
  <1> QED
    BY <1>2, <1>3 DEF IsCatalog

\* The same structure has the same sessions and the same panes.
LEMMA SamePanes ==
    ASSUME NEW c, NEW d, SameStructure(c, d)
    PROVE  PanesIn(d) = PanesIn(c) /\ DOMAIN d.sessions = DOMAIN c.sessions
  <1>1. ASSUME NEW p
        PROVE  p \in PanesIn(c) <=> \E s \in DOMAIN c.sessions :
                 \E i \in DOMAIN c.sessions[s].windows : p \in DOMAIN c.sessions[s].windows[i].panes
    BY WindowsAre, PanesAre
  <1>2. ASSUME NEW p
        PROVE  p \in PanesIn(d) <=> \E s \in DOMAIN d.sessions :
                 \E i \in DOMAIN d.sessions[s].windows : p \in DOMAIN d.sessions[s].windows[i].panes
    BY WindowsAre, PanesAre
  <1>3. ASSUME NEW p
        PROVE  p \in PanesIn(d) <=> p \in PanesIn(c)
    BY <1>1, <1>2 DEF SameStructure
  <1> QED
    BY <1>3 DEF SameStructure

\* stopped_clone() as a rebuilt catalog.
LEMMA CloneRebuilds ==
    ASSUME NEW c
    PROVE  \E f : /\ StoppedClone(c) = Rebuild(c, f)
                  /\ \A s \in DOMAIN c.sessions : \A i \in DOMAIN c.sessions[s].windows :
                       \A p \in DOMAIN c.sessions[s].windows[i].panes : f[s][i][p] = StoppedPane
  <1> DEFINE h(w) == [p \in DOMAIN w.panes |-> StoppedPane]
             g(t) == [i \in DOMAIN t.windows |-> h(t.windows[i])]
             f == [s \in DOMAIN c.sessions |-> g(c.sessions[s])]
             Stopped(w) == [w EXCEPT !.panes = [p \in DOMAIN @ |-> StoppedPane]]
             Halted(t) == [t EXCEPT !.windows = [i \in DOMAIN @ |-> Stopped(@[i])]]
  <1>1. ASSUME NEW w
        PROVE  Stopped(w) = RebuildWindow(w, h(w))
    BY DEF RebuildWindow
  <1> HIDE DEF h
  <1>2. ASSUME NEW t
        PROVE  Halted(t) = RebuildSession(t, g(t))
    BY <1>1 DEF RebuildSession
  <1> HIDE DEF g
  <1>3. [c EXCEPT !.sessions = [s \in DOMAIN @ |-> Halted(@[s])]] = Rebuild(c, f)
    <2> HIDE DEF Halted
    <2> QED
      BY <1>2 DEF Rebuild
  <1>4. StoppedClone(c) = Rebuild(c, f)
    BY <1>3 DEF StoppedClone, MapPanes, MapSession, MapWindow
  <1>5. \A s \in DOMAIN c.sessions : \A i \in DOMAIN c.sessions[s].windows :
          \A p \in DOMAIN c.sessions[s].windows[i].panes : f[s][i][p] = StoppedPane
    BY DEF g, h
  <1> HIDE DEF f
  <1> QED
    BY <1>4, <1>5

\* What begin_pane_generation and set_generation_lifecycle make of one pane.
Begun(p, pane, panes) ==
    IF p \notin panes THEN pane
    ELSE [generation |-> pane.generation + 1, lifecycle |-> "Starting"]
Reported(p, pane, reports) ==
    IF p \in DOMAIN reports /\ reports[p].generation = pane.generation
    THEN [pane EXCEPT !.lifecycle = reports[p].lifecycle] ELSE pane

\* begin_pane_generation as a rebuilt catalog.
LEMMA BeginRebuilds ==
    ASSUME NEW c, NEW panes
    PROVE  \E f : /\ BeginGeneration(c, panes) = Rebuild(c, f)
                  /\ \A s \in DOMAIN c.sessions : \A i \in DOMAIN c.sessions[s].windows :
                       \A p \in DOMAIN c.sessions[s].windows[i].panes :
                         f[s][i][p] = Begun(p, c.sessions[s].windows[i].panes[p], panes)
  <1> DEFINE h(w) == [p \in DOMAIN w.panes |-> Begun(p, w.panes[p], panes)]
             g(t) == [i \in DOMAIN t.windows |-> h(t.windows[i])]
             f == [s \in DOMAIN c.sessions |-> g(c.sessions[s])]
             Changed(w) == [w EXCEPT !.panes = [p \in DOMAIN @ |-> Begun(p, @[p], panes)]]
             Altered(t) == [t EXCEPT !.windows = [i \in DOMAIN @ |-> Changed(@[i])]]
  <1>1. ASSUME NEW w
        PROVE  Changed(w) = RebuildWindow(w, h(w))
    BY DEF RebuildWindow
  <1> HIDE DEF h
  <1>2. ASSUME NEW t
        PROVE  Altered(t) = RebuildSession(t, g(t))
    BY <1>1 DEF RebuildSession
  <1> HIDE DEF g
  <1>3. [c EXCEPT !.sessions = [s \in DOMAIN @ |-> Altered(@[s])]] = Rebuild(c, f)
    <2> HIDE DEF Altered
    <2> QED
      BY <1>2 DEF Rebuild
  <1>4. BeginGeneration(c, panes) = Rebuild(c, f)
    BY <1>3 DEF BeginGeneration, MapPanes, MapSession, MapWindow, Begun
  <1>5. \A s \in DOMAIN c.sessions : \A i \in DOMAIN c.sessions[s].windows :
          \A p \in DOMAIN c.sessions[s].windows[i].panes :
            f[s][i][p] = Begun(p, c.sessions[s].windows[i].panes[p], panes)
    BY DEF g, h
  <1> HIDE DEF f
  <1> QED
    BY <1>4, <1>5

\* set_generation_lifecycle as a rebuilt catalog.
LEMMA ReportRebuilds ==
    ASSUME NEW c, NEW reports
    PROVE  \E f : /\ SetLifecycle(c, reports) = Rebuild(c, f)
                  /\ \A s \in DOMAIN c.sessions : \A i \in DOMAIN c.sessions[s].windows :
                       \A p \in DOMAIN c.sessions[s].windows[i].panes :
                         f[s][i][p] = Reported(p, c.sessions[s].windows[i].panes[p], reports)
  <1> DEFINE h(w) == [p \in DOMAIN w.panes |-> Reported(p, w.panes[p], reports)]
             g(t) == [i \in DOMAIN t.windows |-> h(t.windows[i])]
             f == [s \in DOMAIN c.sessions |-> g(c.sessions[s])]
             Changed(w) == [w EXCEPT !.panes = [p \in DOMAIN @ |-> Reported(p, @[p], reports)]]
             Altered(t) == [t EXCEPT !.windows = [i \in DOMAIN @ |-> Changed(@[i])]]
  <1>1. ASSUME NEW w
        PROVE  Changed(w) = RebuildWindow(w, h(w))
    BY DEF RebuildWindow
  <1> HIDE DEF h
  <1>2. ASSUME NEW t
        PROVE  Altered(t) = RebuildSession(t, g(t))
    BY <1>1 DEF RebuildSession
  <1> HIDE DEF g
  <1>3. [c EXCEPT !.sessions = [s \in DOMAIN @ |-> Altered(@[s])]] = Rebuild(c, f)
    <2> HIDE DEF Altered
    <2> QED
      BY <1>2 DEF Rebuild
  <1>4. SetLifecycle(c, reports) = Rebuild(c, f)
    BY <1>3 DEF SetLifecycle, MapPanes, MapSession, MapWindow, Reported
  <1>5. \A s \in DOMAIN c.sessions : \A i \in DOMAIN c.sessions[s].windows :
          \A p \in DOMAIN c.sessions[s].windows[i].panes :
            f[s][i][p] = Reported(p, c.sessions[s].windows[i].panes[p], reports)
    BY DEF g, h
  <1> HIDE DEF f
  <1> QED
    BY <1>4, <1>5

\* A stopped clone has the structure of the catalog, and every pane is stopped.
LEMMA CloneIsStopped ==
    ASSUME NEW c, IsCatalog(c)
    PROVE  /\ IsCatalog(StoppedClone(c))
           /\ SameStructure(c, StoppedClone(c))
           /\ \A s \in DOMAIN c.sessions : \A i \in DOMAIN c.sessions[s].windows :
                \A p \in DOMAIN c.sessions[s].windows[i].panes :
                  StoppedClone(c).sessions[s].windows[i].panes[p] = StoppedPane
  <1>1. PICK f : /\ StoppedClone(c) = Rebuild(c, f)
                 /\ \A s \in DOMAIN c.sessions : \A i \in DOMAIN c.sessions[s].windows :
                      \A p \in DOMAIN c.sessions[s].windows[i].panes : f[s][i][p] = StoppedPane
    BY CloneRebuilds
  <1> QED
    BY <1>1, RebuiltCatalog

\* What the panes do is not part of a stopped clone.
LEMMA CloneIgnoresPanes ==
    ASSUME NEW c, NEW d, IsCatalog(c), IsCatalog(d), SameStructure(c, d)
    PROVE  StoppedClone(c) = StoppedClone(d)
  <1> DEFINE a == StoppedClone(c)
             b == StoppedClone(d)
  <1>1. /\ IsCatalog(a) /\ SameStructure(c, a)
        /\ \A s \in DOMAIN c.sessions : \A i \in DOMAIN c.sessions[s].windows :
             \A p \in DOMAIN c.sessions[s].windows[i].panes :
               a.sessions[s].windows[i].panes[p] = StoppedPane
    BY CloneIsStopped
  <1>2. /\ IsCatalog(b) /\ SameStructure(d, b)
        /\ \A s \in DOMAIN d.sessions : \A i \in DOMAIN d.sessions[s].windows :
             \A p \in DOMAIN d.sessions[s].windows[i].panes :
               b.sessions[s].windows[i].panes[p] = StoppedPane
    BY CloneIsStopped
  <1> HIDE DEF a, b
  <1>3. SameStructure(a, b)
    BY <1>1, <1>2 DEF SameStructure
  <1>4. ASSUME NEW s \in DOMAIN a.sessions, NEW i \in DOMAIN a.sessions[s].windows,
               NEW p \in DOMAIN a.sessions[s].windows[i].panes
        PROVE  b.sessions[s].windows[i].panes[p] = a.sessions[s].windows[i].panes[p]
    <2>1. /\ s \in DOMAIN c.sessions /\ i \in DOMAIN c.sessions[s].windows
          /\ p \in DOMAIN c.sessions[s].windows[i].panes
      BY <1>1 DEF SameStructure
    <2>2. /\ s \in DOMAIN d.sessions /\ i \in DOMAIN d.sessions[s].windows
          /\ p \in DOMAIN d.sessions[s].windows[i].panes
      BY <2>1 DEF SameStructure
    <2> QED
      BY <1>1, <1>2, <2>1, <2>2
  <1>5. a = b
    BY <1>1, <1>2, <1>3, <1>4, SameCatalog
  <1> QED
    BY <1>5 DEF a, b

\* A stopped clone of a stopped clone is itself.
LEMMA CloneTwice ==
    ASSUME NEW c, IsCatalog(c)
    PROVE  StoppedClone(StoppedClone(c)) = StoppedClone(c)
  BY CloneIsStopped, CloneIgnoresPanes

\* A catalog after begin_pane_generation of some panes.
LEMMA BeginChanges ==
    ASSUME NEW c, NEW panes, IsCatalog(c)
    PROVE  /\ IsCatalog(BeginGeneration(c, panes))
           /\ SameStructure(c, BeginGeneration(c, panes))
           /\ \A s \in DOMAIN c.sessions : \A i \in DOMAIN c.sessions[s].windows :
                \A p \in DOMAIN c.sessions[s].windows[i].panes :
                  BeginGeneration(c, panes).sessions[s].windows[i].panes[p]
                    = Begun(p, c.sessions[s].windows[i].panes[p], panes)
  <1>1. PICK f : /\ BeginGeneration(c, panes) = Rebuild(c, f)
                 /\ \A s \in DOMAIN c.sessions : \A i \in DOMAIN c.sessions[s].windows :
                      \A p \in DOMAIN c.sessions[s].windows[i].panes :
                        f[s][i][p] = Begun(p, c.sessions[s].windows[i].panes[p], panes)
    BY BeginRebuilds
  <1> QED
    BY <1>1, RebuiltCatalog

\* A catalog after set_generation_lifecycle of some panes.
LEMMA ReportChanges ==
    ASSUME NEW c, NEW reports, IsCatalog(c)
    PROVE  /\ IsCatalog(SetLifecycle(c, reports))
           /\ SameStructure(c, SetLifecycle(c, reports))
           /\ \A s \in DOMAIN c.sessions : \A i \in DOMAIN c.sessions[s].windows :
                \A p \in DOMAIN c.sessions[s].windows[i].panes :
                  SetLifecycle(c, reports).sessions[s].windows[i].panes[p]
                    = Reported(p, c.sessions[s].windows[i].panes[p], reports)
  <1>1. PICK f : /\ SetLifecycle(c, reports) = Rebuild(c, f)
                 /\ \A s \in DOMAIN c.sessions : \A i \in DOMAIN c.sessions[s].windows :
                      \A p \in DOMAIN c.sessions[s].windows[i].panes :
                        f[s][i][p] = Reported(p, c.sessions[s].windows[i].panes[p], reports)
    BY ReportRebuilds
  <1> QED
    BY <1>1, RebuiltCatalog

-----------------------------------------------------------------------------
(* Mutations.                                                               *)

\* What a mutation may do to the windows of a session, and to a catalog: every pane there
\* is afterwards is a new one, stopped, or was there before and is as it was; and a pane
\* that is no longer there was not live.
Carries(old, new, fresh) ==
    \A w \in new : \A p \in DOMAIN w.panes :
        \/ p \in fresh /\ w.panes[p] = StoppedPane
        \/ \E v \in old : p \in DOMAIN v.panes /\ w.panes[p] = v.panes[p]
SparesLive(old, new) ==
    \A v \in old : \A p \in DOMAIN v.panes :
        v.panes[p].lifecycle \in LiveStates => \E w \in new : p \in DOMAIN w.panes

Rearranged(c, d, sessions, panes) ==
    /\ IsCatalog(d)
    /\ DOMAIN d.sessions \subseteq DOMAIN c.sessions \cup sessions
    /\ Carries(Windows(c), Windows(d), panes)
    /\ SparesLive(Windows(c), Windows(d))

\* The catalog's panes after a rearrangement.
LEMMA RearrangedPanes ==
    ASSUME NEW c, NEW d, NEW sessions, NEW panes, Rearranged(c, d, sessions, panes)
    PROVE  PanesIn(d) \subseteq PanesIn(c) \cup panes
  BY PanesAre DEF Rearranged, Carries

\* Another value for one session rearranges the catalog as it does the session.
LEMMA SetSessionRearranges ==
    ASSUME NEW c, NEW s, NEW t, NEW panes, IsCatalog(c), HasSession(c, s), IsSession(t),
           Carries(Range(c.sessions[s].windows), Range(t.windows), panes),
           SparesLive(Range(c.sessions[s].windows), Range(t.windows))
    PROVE  Rearranged(c, SetSession(c, s, t), {}, panes)
  <1> DEFINE d == SetSession(c, s, t)
  <1>1. /\ d = [sessions |-> d.sessions, active |-> d.active]
        /\ d.sessions = [r \in DOMAIN c.sessions |-> IF r = s THEN t ELSE c.sessions[r]]
    BY DEF SetSession, IsCatalog
  <1> HIDE DEF d
  <1>2. IsCatalog(d)
    <2>1. ASSUME NEW r \in DOMAIN d.sessions
          PROVE  IsSession(d.sessions[r])
      BY <1>1 DEF IsCatalog
    <2> QED
      BY <1>1, <2>1 DEF IsCatalog
  <1>3. \A w \in Windows(d) : w \in Windows(c) \/ w \in Range(t.windows)
    BY <1>1 DEF Windows
  <1>4. \A w \in Range(t.windows) : w \in Windows(d)
    BY <1>1 DEF Windows, HasSession
  <1>5. \A v \in Windows(c) : v \in Windows(d) \/ v \in Range(c.sessions[s].windows)
    BY <1>1 DEF Windows
  <1>6. \A v \in Range(c.sessions[s].windows) : v \in Windows(c)
    BY DEF Windows, HasSession
  <1>7. Carries(Windows(c), Windows(d), panes)
    BY <1>3, <1>6 DEF Carries
  <1>8. SparesLive(Windows(c), Windows(d))
    BY <1>4, <1>5 DEF SparesLive
  <1>9. Rearranged(c, d, {}, panes)
    BY <1>1, <1>2, <1>7, <1>8 DEF Rearranged
  <1> QED
    BY <1>9 DEF d

\* A catalog that stays as it is, or only makes another session the active one.
LEMMA ActivatingRearranges ==
    ASSUME NEW c, NEW s, IsCatalog(c)
    PROVE  /\ Rearranged(c, c, {}, {})
           /\ Rearranged(c, [c EXCEPT !.active = s], {}, {})
  <1>1. Rearranged(c, c, {}, {})
    BY DEF Rearranged, Carries, SparesLive
  <1> DEFINE d == [c EXCEPT !.active = s]
  <1>2. d = [sessions |-> d.sessions, active |-> d.active] /\ d.sessions = c.sessions
    BY DEF IsCatalog
  <1> HIDE DEF d
  <1>3. IsCatalog(d) /\ Windows(d) = Windows(c)
    BY <1>2 DEF IsCatalog, Windows
  <1>4. Rearranged(c, d, {}, {})
    BY <1>1, <1>2, <1>3 DEF Rearranged
  <1> QED
    BY <1>1, <1>4 DEF d

\* A session that is added, with new and stopped panes only.
LEMMA AddSessionRearranges ==
    ASSUME NEW c, NEW s, NEW t, NEW panes, IsCatalog(c), s \notin DOMAIN c.sessions,
           IsSession(t), Carries({}, Range(t.windows), panes)
    PROVE  Rearranged(c, AddSession(c, s, t), {s}, panes)
  <1> DEFINE d == AddSession(c, s, t)
  <1>1. /\ d = [sessions |-> d.sessions, active |-> d.active]
        /\ d.sessions = [r \in DOMAIN c.sessions \cup {s} |-> IF r = s THEN t ELSE c.sessions[r]]
    BY DEF AddSession
  <1> HIDE DEF d
  <1>2. IsCatalog(d)
    <2>1. ASSUME NEW r \in DOMAIN d.sessions
          PROVE  IsSession(d.sessions[r])
      BY <1>1 DEF IsCatalog
    <2> QED
      BY <1>1, <2>1 DEF IsCatalog
  <1>3. \A w \in Windows(d) : w \in Windows(c) \/ w \in Range(t.windows)
    BY <1>1 DEF Windows
  <1>4. \A v \in Windows(c) : v \in Windows(d)
    BY <1>1 DEF Windows
  <1>5. Carries(Windows(c), Windows(d), panes)
    BY <1>3 DEF Carries
  <1>6. SparesLive(Windows(c), Windows(d))
    BY <1>4 DEF SparesLive
  <1>7. Rearranged(c, d, {s}, panes)
    BY <1>1, <1>2, <1>5, <1>6 DEF Rearranged
  <1> QED
    BY <1>7 DEF d

\* A window that is added to a session, with new and stopped panes only.
LEMMA AddWindowRearranges ==
    ASSUME NEW c, NEW s, NEW w, NEW panes, IsCatalog(c), HasSession(c, s), IsWindow(w),
           Carries({}, {w}, panes)
    PROVE  Rearranged(c, AddWindow(c, s, w), {}, panes)
  <1> DEFINE old == c.sessions[s].windows
             t == [windows |-> Append(old, w), active |-> w.id]
  <1>1. old \in Seq(Range(old)) /\ \A i \in DOMAIN old : IsWindow(old[i])
    BY DEF IsCatalog, IsSession, HasSession
  <1> HIDE DEF old
  <1>2. /\ Append(old, w) \in Seq(Range(old) \cup {w})
        /\ DOMAIN Append(old, w) = 1..(Len(old) + 1) /\ DOMAIN old = 1..Len(old)
        /\ Len(old) \in Nat
        /\ \A i \in 1..Len(old) : Append(old, w)[i] = old[i]
        /\ Append(old, w)[Len(old) + 1] = w
    <2>1. old \in Seq(Range(old) \cup {w}) /\ w \in Range(old) \cup {w}
      BY <1>1
    <2> QED
      BY <2>1
  <1>3. Append(old, w) \in Seq(Range(Append(old, w)))
    BY <1>2, SequenceOfRange
  <1>4. \A i \in DOMAIN Append(old, w) : IsWindow(Append(old, w)[i])
    BY <1>1, <1>2
  <1>5. IsSession(t)
    BY <1>3, <1>4 DEF IsSession
  <1>6. \A v \in Range(t.windows) : v \in Range(old) \/ v = w
    BY <1>2 DEF Range
  <1>7. \A v \in Range(old) : v \in Range(t.windows)
    BY <1>2 DEF Range
  <1> HIDE DEF t
  <1>8. Carries(Range(old), Range(t.windows), panes) /\ SparesLive(Range(old), Range(t.windows))
    BY <1>6, <1>7 DEF Carries, SparesLive
  <1>9. Rearranged(c, SetSession(c, s, t), {}, panes)
    BY <1>5, <1>8, SetSessionRearranges DEF old
  <1> QED
    BY <1>9 DEF AddWindow, t, old

\* Another value for one window.
LEMMA SetWindowRearranges ==
    ASSUME NEW c, NEW s, NEW i, NEW w, NEW panes, IsCatalog(c), HasSession(c, s),
           i \in DOMAIN c.sessions[s].windows =>
             /\ IsWindow(w)
             /\ Carries({c.sessions[s].windows[i]}, {w}, panes)
             /\ SparesLive({c.sessions[s].windows[i]}, {w})
    PROVE  Rearranged(c, SetWindow(c, s, i, w), {}, panes)
  <1> DEFINE old == c.sessions[s].windows
             new == [old EXCEPT ![i] = w]
             t == [windows |-> new, active |-> c.sessions[s].active]
  <1>1. /\ old \in Seq(Range(old)) /\ \A j \in DOMAIN old : IsWindow(old[j])
        /\ c.sessions[s] = [windows |-> old, active |-> c.sessions[s].active]
    BY DEF IsCatalog, IsSession, HasSession
  <1>2. SetWindow(c, s, i, w) = SetSession(c, s, t)
    <2>1. t = [c.sessions[s] EXCEPT !.windows[i] = w]
      BY <1>1
    <2> QED
      BY <2>1 DEF SetWindow, SetSession
  <1>3. DOMAIN new = DOMAIN old /\ \A j \in DOMAIN old : new[j] = IF j = i THEN w ELSE old[j]
    OBVIOUS
  <1>4. new \in Seq(Range(new))
    <2> DEFINE S == Range(old) \cup {w}
    <2>1. DOMAIN old = 1..Len(old) /\ Len(old) \in Nat
      BY <1>1
    <2>2. \A j \in DOMAIN old : new[j] \in S
      BY <1>3 DEF Range
    <2>3. new \in [1..Len(old) -> S]
      BY <1>3, <2>1, <2>2
    <2>4. new \in Seq(S)
      <3> HIDE DEF S, new
      <3> QED
        BY <2>1, <2>3
    <2> HIDE DEF new
    <2> QED
      BY <2>4, SequenceOfRange
  <1> HIDE DEF new
  <1>5. IsSession(t)
    <2>1. \A j \in DOMAIN new : IsWindow(new[j])
      BY <1>1, <1>3
    <2> QED
      BY <1>4, <2>1 DEF IsSession
  <1>6. Carries(Range(old), Range(new), panes)
    <2> SUFFICES ASSUME NEW v \in Range(new), NEW p \in DOMAIN v.panes
                 PROVE  \/ p \in panes /\ v.panes[p] = StoppedPane
                        \/ \E u \in Range(old) : p \in DOMAIN u.panes /\ v.panes[p] = u.panes[p]
      BY DEF Carries
    <2>1. PICK j \in DOMAIN old : v = IF j = i THEN w ELSE old[j]
      BY <1>3 DEF Range
    <2>2. old[j] \in Range(old)
      BY DEF Range
    <2>3. CASE j = i
      BY <2>1, <2>2, <2>3 DEF Carries
    <2>4. CASE j # i
      BY <2>1, <2>2, <2>4
    <2> QED
      BY <2>3, <2>4
  <1>7. SparesLive(Range(old), Range(new))
    <2> SUFFICES ASSUME NEW v \in Range(old), NEW p \in DOMAIN v.panes,
                        v.panes[p].lifecycle \in LiveStates
                 PROVE  \E u \in Range(new) : p \in DOMAIN u.panes
      BY DEF SparesLive
    <2>1. PICK j \in DOMAIN old : v = old[j]
      BY DEF Range
    <2>2. new[j] \in Range(new) /\ new[j] = IF j = i THEN w ELSE old[j]
      BY <1>3 DEF Range
    <2>3. CASE j = i
      BY <2>1, <2>2, <2>3 DEF SparesLive
    <2>4. CASE j # i
      BY <2>1, <2>2, <2>4
    <2> QED
      BY <2>3, <2>4
  <1>8. Rearranged(c, SetSession(c, s, t), {}, panes)
    BY <1>5, <1>6, <1>7, SetSessionRearranges
  <1> QED
    BY <1>2, <1>8

\* The only window of a new session, the new window of a session, and the copy of a window.
LEMMA FreshWindows ==
    /\ \A w, pane : IsWindow(NewWindow(w, pane)) /\ Carries({}, {NewWindow(w, pane)}, {pane})
    /\ \A window, w, ids, panes :
         (\A q \in DOMAIN window.panes : ids[q] \in panes) =>
           IsWindow(CopyWindow(window, w, ids)) /\ Carries({}, {CopyWindow(window, w, ids)}, panes)
  <1>1. ASSUME NEW w, NEW pane
        PROVE  IsWindow(NewWindow(w, pane)) /\ Carries({}, {NewWindow(w, pane)}, {pane})
    BY DEF NewWindow, IsWindow, Carries
  <1>2. ASSUME NEW window, NEW w, NEW ids, NEW panes,
               \A q \in DOMAIN window.panes : ids[q] \in panes
        PROVE  /\ IsWindow(CopyWindow(window, w, ids))
               /\ Carries({}, {CopyWindow(window, w, ids)}, panes)
    BY <1>2 DEF CopyWindow, IsWindow, Carries
  <1> QED
    BY <1>1, <1>2

\* Creating a session, a window or a copy of one adds new and stopped panes.
LEMMA CreatingRearranges ==
    ASSUME NEW c, NEW d, NEW s, NEW w, NEW pane, IsCatalog(c)
    PROVE  /\ CreateSession(c, d, s, w, pane) /\ s \notin DOMAIN c.sessions =>
                Rearranged(c, d, {s}, {pane})
           /\ CreateWindow(c, d, s, w, pane) => Rearranged(c, d, {}, {pane})
           /\ \A i, ids, panes :
                /\ DuplicateWindow(c, d, s, i, w, ids)
                /\ \A q \in DOMAIN c.sessions[s].windows[i].panes : ids[q] \in panes
                => Rearranged(c, d, {}, panes)
  <1>1. ASSUME CreateSession(c, d, s, w, pane), s \notin DOMAIN c.sessions
        PROVE  Rearranged(c, d, {s}, {pane})
    <2> DEFINE window == NewWindow(w, pane)
               t == [windows |-> <<window>>, active |-> w]
    <2>1. IsWindow(window) /\ Carries({}, {window}, {pane})
      BY FreshWindows, Zenon
    <2> HIDE DEF window
    <2>2. IsSession(t) /\ Range(t.windows) = {window}
      BY <2>1 DEF IsSession, Range
    <2>3. Carries({}, Range(t.windows), {pane})
      BY <2>1, <2>2
    <2>4. d = AddSession(c, s, t)
      BY <1>1 DEF CreateSession, window
    <2> HIDE DEF t
    <2> QED
      BY <1>1, <2>2, <2>3, <2>4, AddSessionRearranges
  <1>2. ASSUME CreateWindow(c, d, s, w, pane)
        PROVE  Rearranged(c, d, {}, {pane})
    <2>1. IsWindow(NewWindow(w, pane)) /\ Carries({}, {NewWindow(w, pane)}, {pane})
      BY FreshWindows, Zenon
    <2>2. HasSession(c, s) /\ d = AddWindow(c, s, NewWindow(w, pane))
      BY <1>2 DEF CreateWindow
    <2> QED
      BY <2>1, <2>2, AddWindowRearranges
  <1>3. ASSUME NEW i, NEW ids, NEW panes, DuplicateWindow(c, d, s, i, w, ids),
               \A q \in DOMAIN c.sessions[s].windows[i].panes : ids[q] \in panes
        PROVE  Rearranged(c, d, {}, panes)
    <2> DEFINE copy == CopyWindow(c.sessions[s].windows[i], w, ids)
    <2>1. IsWindow(copy) /\ Carries({}, {copy}, panes)
      BY <1>3, FreshWindows, Zenon
    <2>2. HasSession(c, s) /\ d = AddWindow(c, s, copy)
      BY <1>3 DEF DuplicateWindow, HasWindow
    <2> HIDE DEF copy
    <2> QED
      BY <2>1, <2>2, AddWindowRearranges
  <1> QED
    BY <1>1, <1>2, <1>3

\* Duplicating a session adds the copies of its windows, in a session of their own.
LEMMA DuplicatingRearranges ==
    ASSUME NEW c, NEW d, NEW source, NEW s, NEW names, NEW ids, NEW panes, IsCatalog(c),
           DuplicateSession(c, d, source, s, names, ids), s \notin DOMAIN c.sessions,
           \A q \in PanesOf(c.sessions[source]) : ids[q] \in panes
    PROVE  Rearranged(c, d, {s}, panes)
  <1> DEFINE old == c.sessions[source].windows
             new == [i \in DOMAIN old |-> CopyWindow(old[i], names[i], ids)]
             t == [windows |-> new, active |-> names[ActiveIndex(c.sessions[source])]]
  <1>1. d = AddSession(c, s, t) /\ source \in DOMAIN c.sessions
    BY DEF DuplicateSession, HasSession
  <1>2. \A i \in DOMAIN old : \A q \in DOMAIN old[i].panes : ids[q] \in panes
    BY DEF PanesOf, Range
  <1>3. old \in Seq(Range(old))
    BY <1>1 DEF IsCatalog, IsSession
  <1> HIDE DEF old
  <1>4. \A i \in DOMAIN old : IsWindow(new[i]) /\ Carries({}, {new[i]}, panes)
    <2> SUFFICES ASSUME NEW i \in DOMAIN old
                 PROVE  /\ IsWindow(CopyWindow(old[i], names[i], ids))
                        /\ Carries({}, {CopyWindow(old[i], names[i], ids)}, panes)
      OBVIOUS
    <2> QED
      BY <1>2, FreshWindows, Zenon
  <1>5. new \in Seq({CopyWindow(old[i], names[i], ids) : i \in DOMAIN old}) /\ DOMAIN new = DOMAIN old
    BY <1>3
  <1> HIDE DEF new
  <1>6. new \in Seq(Range(new))
    BY <1>5, SequenceOfRange
  <1>7. IsSession(t)
    BY <1>4, <1>5, <1>6 DEF IsSession
  <1>8. Carries({}, Range(t.windows), panes)
    BY <1>4, <1>5 DEF Carries, Range
  <1> HIDE DEF t
  <1> QED
    BY <1>1, <1>7, <1>8, AddSessionRearranges

\* A window with another layout, other panes and another focus.
LEMMA ChangedWindow ==
    ASSUME NEW w, IsWindow(w), NEW root, NEW panes, NEW focused
    PROVE  [w EXCEPT !.root = root, !.panes = panes, !.focused = focused]
             = [id |-> w.id, root |-> root, focused |-> focused, panes |-> panes]
  <1> DEFINE u == [w EXCEPT !.root = root]
             v == [u EXCEPT !.panes = panes]
  <1>1. u = [id |-> w.id, root |-> root, focused |-> w.focused, panes |-> w.panes]
    BY DEF IsWindow
  <1> HIDE DEF u
  <1>2. v = [id |-> w.id, root |-> root, focused |-> w.focused, panes |-> panes]
    BY <1>1
  <1> HIDE DEF v
  <1>3. [v EXCEPT !.focused = focused]
          = [id |-> w.id, root |-> root, focused |-> focused, panes |-> panes]
    BY <1>2
  <1>4. [w EXCEPT !.root = root, !.panes = panes, !.focused = focused]
          = [v EXCEPT !.focused = focused]
    BY DEF u, v
  <1> QED
    BY <1>3, <1>4

\* Splitting, focusing and closing a pane give one window another value: the new pane is
\* stopped, the others are as they were, and a pane that is closed was not live.
LEMMA WindowChangeRearranges ==
    ASSUME NEW c, NEW d, NEW s, NEW pane, IsCatalog(c)
    PROVE  /\ SplitFocused(c, d, s, pane) => Rearranged(c, d, {}, {pane})
           /\ FocusPane(c, d, s, pane) => Rearranged(c, d, {}, {})
           /\ ClosePane(c, d, s, pane) => Rearranged(c, d, {}, {})
  <1>0. ASSUME HasSession(c, s), NEW i \in DOMAIN c.sessions[s].windows
        PROVE  IsWindow(c.sessions[s].windows[i])
    BY <1>0 DEF IsCatalog, IsSession, HasSession
  <1>1. ASSUME SplitFocused(c, d, s, pane)
        PROVE  Rearranged(c, d, {}, {pane})
    <2> DEFINE i == ActiveIndex(c.sessions[s])
               window == c.sessions[s].windows[i]
               root == SplitLeaf(window.root, window.focused, pane)
               panes == [p \in DOMAIN window.panes \cup {pane} |->
                            IF p = pane THEN StoppedPane ELSE window.panes[p]]
               split == [window EXCEPT !.root = root, !.panes = panes, !.focused = pane]
    <2>1. HasSession(c, s) /\ d = SetWindow(c, s, i, split)
      BY <1>1 DEF SplitFocused
    <2>2. ASSUME i \in DOMAIN c.sessions[s].windows
          PROVE  /\ IsWindow(split)
                 /\ Carries({window}, {split}, {pane})
                 /\ SparesLive({window}, {split})
      <3>1. IsWindow(window)
        BY <1>0, <2>1, <2>2
      <3> HIDE DEF window, root
      <3>2. split = [id |-> window.id, root |-> root, focused |-> pane, panes |-> panes]
        BY <3>1, ChangedWindow
      <3> HIDE DEF split
      <3>3. IsWindow(split) /\ split.panes = panes
        BY <3>2 DEF IsWindow
      <3> QED
        BY <3>3 DEF Carries, SparesLive
    <2> HIDE DEF i, split
    <2> QED
      BY <2>1, <2>2, SetWindowRearranges
  <1>2. ASSUME FocusPane(c, d, s, pane)
        PROVE  Rearranged(c, d, {}, {})
    <2> DEFINE i == ActiveIndex(c.sessions[s])
               window == c.sessions[s].windows[i]
               focused == [window EXCEPT !.focused = pane]
    <2>1. HasSession(c, s) /\ d = SetWindow(c, s, i, focused)
      BY <1>2 DEF FocusPane
    <2>2. ASSUME i \in DOMAIN c.sessions[s].windows
          PROVE  /\ IsWindow(focused)
                 /\ Carries({window}, {focused}, {})
                 /\ SparesLive({window}, {focused})
      <3>1. IsWindow(window)
        BY <1>0, <2>1, <2>2
      <3> HIDE DEF window
      <3> QED
        BY <3>1 DEF IsWindow, Carries, SparesLive
    <2> HIDE DEF i, focused
    <2> QED
      BY <2>1, <2>2, SetWindowRearranges
  <1>3. ASSUME ClosePane(c, d, s, pane)
        PROVE  Rearranged(c, d, {}, {})
    <2> DEFINE i == SelectInSeq(c.sessions[s].windows, LAMBDA w : pane \in DOMAIN w.panes)
               window == c.sessions[s].windows[i]
               rest == DOMAIN window.panes \ {pane}
               closed == [window EXCEPT !.root = RemoveLeaf(@, pane),
                                        !.panes = Restrict(@, rest),
                                        !.focused = IF @ = pane THEN Min(rest) ELSE @]
    <2>1. /\ HasSession(c, s) /\ d = SetWindow(c, s, i, closed)
          /\ window.panes[pane].lifecycle \notin LiveStates
      BY <1>3 DEF ClosePane
    <2>2. ASSUME i \in DOMAIN c.sessions[s].windows
          PROVE  /\ IsWindow(closed)
                 /\ Carries({window}, {closed}, {})
                 /\ SparesLive({window}, {closed})
      <3>1. IsWindow(window)
        BY <1>0, <2>1, <2>2
      <3> HIDE DEF window
      <3> DEFINE root == RemoveLeaf(window.root, pane)
                 focused == IF window.focused = pane THEN Min(rest) ELSE window.focused
                 panes == [p \in rest |-> window.panes[p]]
      <3>2. closed = [id |-> window.id, root |-> root, focused |-> focused, panes |-> panes]
        <4>1. closed = [window EXCEPT !.root = root, !.panes = panes, !.focused = focused]
          BY DEF Restrict
        <4> HIDE DEF closed, root, panes, focused
        <4> QED
          BY <3>1, <4>1, ChangedWindow
      <3> HIDE DEF closed, root, focused
      <3>3. IsWindow(closed) /\ closed.panes = panes
        BY <3>2 DEF IsWindow
      <3> QED
        BY <2>1, <3>3 DEF Carries, SparesLive
    <2> HIDE DEF i, closed, window
    <2> QED
      BY <2>1, <2>2, SetWindowRearranges DEF window
  <1> QED
    BY <1>1, <1>2, <1>3

\* A sequence without one of its elements.
LEMMA RemovedOne ==
    ASSUME NEW S, NEW q \in Seq(S), NEW i \in 1..Len(q)
    PROVE  /\ RemoveAt(q, i) \in Seq(S)
           /\ \A j \in DOMAIN RemoveAt(q, i) : \E k \in 1..Len(q) : RemoveAt(q, i)[j] = q[k]
           /\ \A k \in 1..Len(q) : k # i => \E j \in DOMAIN RemoveAt(q, i) : RemoveAt(q, i)[j] = q[k]
  <1> DEFINE before == SubSeq(q, 1, i - 1)
             after == SubSeq(q, i + 1, Len(q))
             rest == before \o after
  <1>1. /\ before \in Seq(S) /\ Len(before) = i - 1
        /\ \A k \in 1..(i - 1) : before[k] = q[k]
    <2>1. \A k \in 1..(i - 1) : q[k] \in S
      OBVIOUS
    <2> QED
      BY <2>1, SubSeqProperties
  <1>2. /\ after \in Seq(S) /\ Len(after) = Len(q) - i
        /\ \A k \in 1..(Len(q) - i) : after[k] = q[k + i]
    <2>1. \A k \in (i + 1)..Len(q) : q[k] \in S
      OBVIOUS
    <2> QED
      BY <2>1, SubSeqProperties
  <1> HIDE DEF before, after
  <1>3. /\ rest \in Seq(S) /\ Len(rest) = Len(q) - 1 /\ DOMAIN rest = 1..(Len(q) - 1)
        /\ \A k \in 1..(i - 1) : rest[k] = before[k]
        /\ \A k \in i..(Len(q) - 1) : rest[k] = after[k - i + 1]
    <2>1. /\ rest \in Seq(S)
          /\ Len(rest) = Len(before) + Len(after)
          /\ \A k \in 1..(Len(before) + Len(after)) :
               rest[k] = IF k <= Len(before) THEN before[k] ELSE after[k - Len(before)]
      BY <1>1, <1>2, ConcatProperties
    <2> HIDE DEF rest
    <2>2. Len(rest) = Len(q) - 1 /\ DOMAIN rest = 1..(Len(q) - 1)
      BY <1>1, <1>2, <2>1
    <2>3. ASSUME NEW k \in i..(Len(q) - 1)
          PROVE  rest[k] = after[k - i + 1]
      <3>1. /\ k \in 1..(Len(before) + Len(after)) /\ ~(k <= Len(before))
            /\ k - Len(before) = k - i + 1
        BY <1>1, <1>2
      <3> QED
        BY <2>1, <3>1
    <2>4. ASSUME NEW k \in 1..(i - 1)
          PROVE  rest[k] = before[k]
      <3>1. k \in 1..(Len(before) + Len(after)) /\ k <= Len(before)
        BY <1>1, <1>2
      <3> QED
        BY <2>1, <3>1
    <2> QED
      BY <2>1, <2>2, <2>3, <2>4
  <1> HIDE DEF rest
  <1>4. ASSUME NEW j \in DOMAIN rest
        PROVE  \E k \in 1..Len(q) : rest[j] = q[k]
    <2>1. CASE j < i
      <3>1. j \in 1..(i - 1) /\ j \in 1..Len(q)
        BY <1>3, <2>1
      <3>2. rest[j] = q[j]
        BY <1>1, <1>3, <3>1
      <3> QED
        BY <3>1, <3>2
    <2>2. CASE j >= i
      <3>1. j \in i..(Len(q) - 1) /\ j - i + 1 \in 1..(Len(q) - i) /\ j + 1 \in 1..Len(q)
        BY <1>3, <2>2
      <3>2. rest[j] = q[j - i + 1 + i]
        BY <1>2, <1>3, <3>1
      <3>3. rest[j] = q[j + 1]
        BY <3>1, <3>2
      <3> QED
        BY <3>1, <3>3
    <2> QED
      BY <1>3, <2>1, <2>2
  <1>5. ASSUME NEW k \in 1..Len(q), k # i
        PROVE  \E j \in DOMAIN rest : rest[j] = q[k]
    <2>1. CASE k < i
      <3>1. k \in 1..(i - 1) /\ k \in DOMAIN rest
        BY <1>3, <2>1
      <3>2. rest[k] = q[k]
        BY <1>1, <1>3, <3>1
      <3> QED
        BY <3>1, <3>2
    <2>2. CASE k > i
      <3>1. /\ k - 1 \in i..(Len(q) - 1) /\ k - 1 \in DOMAIN rest
            /\ (k - 1) - i + 1 = k - i /\ k - i \in 1..(Len(q) - i) /\ (k - i) + i = k
        BY <1>3, <2>2
      <3>2. rest[k - 1] = q[k]
        BY <1>2, <1>3, <3>1
      <3> QED
        BY <3>1, <3>2
    <2> QED
      BY <1>5, <2>1, <2>2
  <1>6. RemoveAt(q, i) = rest
    BY DEF RemoveAt, rest, before, after
  <1> QED
    BY <1>3, <1>4, <1>5, <1>6

\* Another active window, a window that is closed and a session that is removed: nothing is
\* added, and what goes was not live.
LEMMA RemovingRearranges ==
    ASSUME NEW c, NEW d, NEW s, NEW i, IsCatalog(c)
    PROVE  /\ ActivateWindow(c, d, s, i) => Rearranged(c, d, {}, {})
           /\ CloseWindow(c, d, s, i) => Rearranged(c, d, {}, {})
           /\ RemoveSession(c, d, s) => Rearranged(c, d, {}, {})
  <1>1. ASSUME ActivateWindow(c, d, s, i)
        PROVE  Rearranged(c, d, {}, {})
    <2> DEFINE session == c.sessions[s]
               t == [windows |-> session.windows, active |-> session.windows[i].id]
    <2>1. HasSession(c, s) /\ IsSession(session)
      BY <1>1 DEF ActivateWindow, HasWindow, HasSession, IsCatalog
    <2>2. d = SetSession(c, s, t)
      <3>1. t = [session EXCEPT !.active = session.windows[i].id]
        BY <2>1 DEF IsSession
      <3> QED
        BY <1>1, <3>1 DEF ActivateWindow, SetSession
    <2>3. IsSession(t) /\ t.windows = session.windows
      BY <2>1 DEF IsSession
    <2>4. /\ Carries(Range(session.windows), Range(t.windows), {})
          /\ SparesLive(Range(session.windows), Range(t.windows))
      BY <2>3 DEF Carries, SparesLive
    <2> HIDE DEF t
    <2> QED
      BY <2>1, <2>2, <2>3, <2>4, SetSessionRearranges
  <1>2. ASSUME CloseWindow(c, d, s, i)
        PROVE  Rearranged(c, d, {}, {})
    <2> DEFINE old == c.sessions[s].windows
               left == RemoveAt(old, i)
    <2>1. HasSession(c, s) /\ IsSession(c.sessions[s]) /\ i \in DOMAIN old /\ ~LiveWindow(old[i])
      BY <1>2 DEF CloseWindow, HasWindow, HasSession, IsCatalog
    <2>2. PICK active : d = SetSession(c, s, [windows |-> left, active |-> active])
      BY <1>2 DEF CloseWindow
    <2> DEFINE t == [windows |-> left, active |-> active]
    <2>3. old \in Seq(Range(old)) /\ i \in 1..Len(old) /\ DOMAIN old = 1..Len(old)
      BY <2>1 DEF IsSession
    <2>4. /\ left \in Seq(Range(old))
          /\ \A j \in DOMAIN left : \E k \in DOMAIN old : left[j] = old[k]
          /\ \A k \in DOMAIN old : k # i => \E j \in DOMAIN left : left[j] = old[k]
      <3> HIDE DEF old
      <3>1. /\ left \in Seq(Range(old))
            /\ \A j \in DOMAIN left : \E k \in 1..Len(old) : left[j] = old[k]
            /\ \A k \in 1..Len(old) : k # i => \E j \in DOMAIN left : left[j] = old[k]
        BY <2>3, RemovedOne
      <3> QED
        BY <2>3, <3>1
    <2> HIDE DEF left
    <2>5. left \in Seq(Range(left))
      BY <2>4, SequenceOfRange
    <2>6. \A j \in DOMAIN left : IsWindow(left[j])
      BY <2>1, <2>4 DEF IsSession
    <2>7. IsSession(t) /\ t.windows = left
      BY <2>5, <2>6 DEF IsSession
    <2>8. Carries(Range(old), Range(left), {})
      BY <2>4 DEF Carries, Range
    <2>9. SparesLive(Range(old), Range(left))
      <3> SUFFICES ASSUME NEW k \in DOMAIN old, NEW p \in DOMAIN old[k].panes,
                          old[k].panes[p].lifecycle \in LiveStates
                   PROVE  \E w \in Range(left) : p \in DOMAIN w.panes
        BY DEF SparesLive, Range
      <3>1. k # i
        BY <2>1 DEF LiveWindow
      <3>2. PICK j \in DOMAIN left : left[j] = old[k]
        BY <2>4, <3>1
      <3> QED
        BY <3>2 DEF Range
    <2> HIDE DEF t
    <2> QED
      BY <2>1, <2>2, <2>7, <2>8, <2>9, SetSessionRearranges DEF t
  <1>3. ASSUME RemoveSession(c, d, s)
        PROVE  Rearranged(c, d, {}, {})
    <2> DEFINE rest == DOMAIN c.sessions \ {s}
    <2>1. /\ d = [sessions |-> d.sessions, active |-> d.active]
          /\ d.sessions = [r \in rest |-> c.sessions[r]]
      BY <1>3 DEF RemoveSession, Restrict
    <2>2. \A window \in Range(c.sessions[s].windows) : ~LiveWindow(window)
      BY <1>3 DEF RemoveSession
    <2>3. IsCatalog(d)
      BY <2>1 DEF IsCatalog
    <2>4. \A w \in Windows(d) : w \in Windows(c)
      BY <2>1 DEF Windows
    <2>5. \A v \in Windows(c) : v \in Windows(d) \/ v \in Range(c.sessions[s].windows)
      BY <2>1 DEF Windows
    <2>6. Carries(Windows(c), Windows(d), {})
      BY <2>4 DEF Carries
    <2>7. SparesLive(Windows(c), Windows(d))
      BY <2>2, <2>5 DEF SparesLive, LiveWindow
    <2> QED
      BY <2>1, <2>3, <2>6, <2>7 DEF Rearranged
  <1> QED
    BY <1>1, <1>2, <1>3

-----------------------------------------------------------------------------
(* The service's catalog and the identifiers it has given out.              *)

\* The history of the identifiers is a record, and whatever is in a catalog was given out.
UsedIs == used = [session |-> used.session, window |-> used.window, pane |-> used.pane]
GivenOut(c) == DOMAIN c.sessions \subseteq used.session /\ PanesIn(c) \subseteq used.pane

\* Every mutation a client can ask for rearranges the catalog, with panes and a session
\* nobody had before.
LEMMA MutationRearranges ==
    ASSUME IsCatalog(catalog), UsedIs, GivenOut(catalog), Enlarge \/ Rearrange
    PROVE  \E sessions, panes :
             /\ Rearranged(catalog, catalog', sessions, panes)
             /\ panes \cap used.pane = {}
             /\ UsedIs'
             /\ used.session \cup sessions \subseteq used'.session
             /\ used.pane \cup panes \subseteq used'.pane
  <1> DEFINE Goal(sessions, panes) ==
               /\ Rearranged(catalog, catalog', sessions, panes)
               /\ panes \cap used.pane = {}
               /\ UsedIs'
               /\ used.session \cup sessions \subseteq used'.session
               /\ used.pane \cup panes \subseteq used'.pane
  <1>1. ASSUME NEW s, NEW w, NEW panes, Use(s, w, panes)
        PROVE  /\ UsedIs' /\ used.session \cup s \subseteq used'.session
               /\ used.pane \cup panes \subseteq used'.pane
    BY <1>1 DEF Use, UsedIs
  <1>2. ASSUME UNCHANGED used
        PROVE  /\ UsedIs' /\ used.session \cup {} \subseteq used'.session
               /\ used.pane \cup {} \subseteq used'.pane
    BY <1>2 DEF UsedIs
  <1>3. CASE Enlarge
    <2>1. CASE \E s \in FreshSessions, pane \in FreshPanes :
                 Create(s, pane)
      <3>1. PICK s \in FreshSessions, pane \in FreshPanes :
                 Create(s, pane)
        BY <2>1
      <3>2. s \notin DOMAIN catalog.sessions /\ pane \notin used.pane
        BY <3>1 DEF FreshSessions, FreshPanes, GivenOut
      <3>3. PICK w : /\ CreateSession(catalog, catalog', s, w[1], pane)
                     /\ Use({s}, {w[1]}, {pane})
        BY <3>1 DEF Create
      <3>4. Rearranged(catalog, catalog', {s}, {pane})
        BY <3>2, <3>3, CreatingRearranges
      <3>5. Goal({s}, {pane})
        BY <1>1, <3>2, <3>3, <3>4
      <3> QED
        BY <3>5
    <2>2. CASE \E s \in SessionIds, pane \in FreshPanes :
                 OpenWindow(s, pane) \/ Split(s, pane)
      <3>1. PICK s \in SessionIds, pane \in FreshPanes :
                 OpenWindow(s, pane) \/ Split(s, pane)
        BY <2>2
      <3>2. pane \notin used.pane
        BY <3>1 DEF FreshPanes
      <3>3. CASE OpenWindow(s, pane)
        <4>1. PICK w : /\ CreateWindow(catalog, catalog', s, w[1], pane)
                       /\ Use({}, {w[1]}, {pane})
          BY <3>3 DEF OpenWindow
        <4>2. Goal({}, {pane})
          BY <1>1, <3>2, <4>1, CreatingRearranges
        <4> QED
          BY <4>2
      <3>4. CASE Split(s, pane)
        <4>1. SplitFocused(catalog, catalog', s, pane) /\ Use({}, {}, {pane})
          BY <3>4 DEF Split
        <4>2. Goal({}, {pane})
          BY <1>1, <3>2, <4>1, WindowChangeRearranges
        <4> QED
          BY <4>2
      <3> QED
        BY <3>1, <3>3, <3>4
    <2>3. CASE \E s \in SessionIds, i \in 1..MaxWindows : CloneWindow(s, i)
      <3>1. PICK s \in SessionIds, i \in 1..MaxWindows : CloneWindow(s, i)
        BY <2>3
      <3> DEFINE old == DOMAIN catalog.sessions[s].windows[i].panes
      <3>2. PICK w \in NextWindows(1), ids \in Injection(old, FreshPanes) :
                 /\ DuplicateWindow(catalog, catalog', s, i, w[1], ids)
                 /\ Use({}, {w[1]}, Range(ids))
        BY <3>1 DEF CloneWindow
      <3>3. /\ \A q \in old : ids[q] \in Range(ids)
            /\ Range(ids) \cap used.pane = {}
        BY <3>2 DEF Injection, Range, FreshPanes
      <3>4. Rearranged(catalog, catalog', {}, Range(ids))
        BY <3>2, <3>3, CreatingRearranges
      <3>5. Goal({}, Range(ids))
        BY <1>1, <3>2, <3>3, <3>4
      <3> QED
        BY <3>5
    <2>4. CASE \E source \in SessionIds, s \in FreshSessions :
                 CloneSession(source, s)
      <3>1. PICK source \in SessionIds, s \in FreshSessions :
                 CloneSession(source, s)
        BY <2>4
      <3> DEFINE old == PanesOf(catalog.sessions[source])
      <3>2. PICK names \in NextWindows(Len(catalog.sessions[source].windows)),
                 ids \in Injection(old, FreshPanes) :
                 /\ DuplicateSession(catalog, catalog', source, s, names, ids)
                 /\ Use({s}, Range(names), Range(ids))
        BY <3>1 DEF CloneSession
      <3>3. /\ \A q \in old : ids[q] \in Range(ids)
            /\ Range(ids) \cap used.pane = {}
            /\ s \notin DOMAIN catalog.sessions
        BY <3>1, <3>2 DEF Injection, Range, FreshPanes, FreshSessions,
                          GivenOut
      <3>4. Rearranged(catalog, catalog', {s}, Range(ids))
        BY <3>2, <3>3, DuplicatingRearranges
      <3>5. Goal({s}, Range(ids))
        BY <1>1, <3>2, <3>3, <3>4
      <3> QED
        BY <3>5
    <2> QED
      BY <1>3, <2>1, <2>2, <2>3, <2>4 DEF Enlarge
  <1>4. CASE Rearrange
    <2>1. Rearranged(catalog, catalog', {}, {})
      BY <1>4, ActivatingRearranges, WindowChangeRearranges, RemovingRearranges
         DEF Rearrange, ActivateSession
    <2>2. Goal({}, {})
      BY <1>2, <1>4, <2>1 DEF Rearrange
    <2> QED
      BY <2>2
  <1> QED
    BY <1>3, <1>4

-----------------------------------------------------------------------------
(* Who is in control.                                                       *)

\* The loop's client and the service's count of attached clients change together, and only a
\* connection that is still there controls: inductive by itself.
ControlInv ==
    /\ phase \in Phases
    /\ attached \in {0, 1}
    /\ controller \in Clients \cup {NoClient}
    /\ connection \in [Clients -> Connections]
    /\ ControlAgrees

\* A step that leaves control alone, and can only move the connection of c that is not closed.
LEMMA TakingKeepsControl ==
    ASSUME ControlInv, NEW c \in Clients, NEW reply \in Phases, Takes(c, reply),
           UNCHANGED <<attached, controller>>
    PROVE  ControlInv'
  BY DaemonAssumption DEF ControlInv, ControlAgrees, Takes, Connections

\* The service that is gone left nobody in control.
LEMMA GoneIsUncontrolled ==
    ASSUME Gone, phase' \in Phases
    PROVE  ControlInv'
  BY DaemonAssumption DEF Gone, ControlInv, ControlAgrees, Connections

\* Every step keeps the two records of who is in control in agreement.
LEMMA ControlStep ==
    ASSUME ControlInv, [Next]_vars
    PROVE  ControlInv'
  <1> USE DaemonAssumption
  <1>0. {"recv", "ok", "refused", "closing", "tick", "last", "drained", "final", "ended", "killed"}
          \subseteq Phases
    BY DEF Phases
  <1>1. ASSUME NEW c \in Clients, Connect(c) \/ PeerLeaves(c)
        PROVE  ControlInv'
    BY <1>1 DEF Connect, PeerLeaves, ControlInv, ControlAgrees, Connections
  <1>2. ASSUME NEW c \in Clients, Handle(c)
        PROVE  ControlInv'
    <2>1. CASE Attach(c) \/ Detach(c)
      BY <2>1 DEF Attach, Detach, Takes, ControlInv, ControlAgrees, Connections, Phases
    <2>2. CASE \/ Refuse(c) \/ Ask(c) \/ Mutate(c) \/ Import(c) \/ Shutdown(c)
               \/ \E p \in PaneIds : StartPane(c, p) \/ TerminatePane(c, p) \/ ResizePane(c, p)
               \/ \E s \in SessionIds : TerminateSession(c, s) \/ RestartSession(c, s)
      <3>1. \E reply \in {"ok", "refused", "closing"} :
               Takes(c, reply) /\ UNCHANGED <<attached, controller>>
        BY <2>2 DEF Refuse, Ask, Mutate, Import, Shutdown, StartPane, TerminatePane, ResizePane,
                    TerminateSession, RestartSession, Controls
      <3> QED
        BY <1>0, <3>1, TakingKeepsControl
    <2> QED
      BY <1>2, <2>1, <2>2 DEF Handle
  <1>3. ASSUME NEW c \in Clients, Disconnected(c)
        PROVE  ControlInv'
    BY <1>3 DEF Disconnected, ControlInv, ControlAgrees, Connections, Phases
  <1>4. ASSUME NEW next \in Phases, PersistIfDirty(next)
        PROVE  ControlInv'
    <2>1. CASE Gone /\ phase' = "ended"
      BY <1>0, <2>1, GoneIsUncontrolled
    <2>2. CASE phase' = next /\ UNCHANGED clients
      BY <2>2 DEF clients, ControlInv, ControlAgrees
    <2> QED
      BY <1>4, <2>1, <2>2 DEF PersistIfDirty
  <1>5. CASE Save \/ PeriodicSave
    <2>1. \E next \in Phases : PersistIfDirty(next)
      BY <1>0, <1>5 DEF Save, PeriodicSave
    <2> QED
      BY <1>4, <2>1
  <1>6. CASE Drain \/ Round \/ Timeout \/ GoIdle \/ Launch \/ UNCHANGED vars
    <2>1. UNCHANGED clients /\ phase' \in Phases
      BY <1>0, <1>6 DEF Drain, Round, Timeout, GoIdle, Launch, vars, ControlInv
    <2> QED
      BY <2>1 DEF clients, ControlInv, ControlAgrees
  <1>7. CASE Finish \/ Crash
    BY <1>0, <1>7, GoneIsUncontrolled DEF Finish, Crash
  <1> QED
    BY <1>1, <1>2, <1>3, <1>5, <1>6, <1>7 DEF Next, Iterate

-----------------------------------------------------------------------------
(* The catalog and the processes.                                           *)

\* The catalog of the record in the session store, and what the catalog is to show of a pane.
Stored == IF disk = NoRecord THEN EmptyCatalog ELSE disk.catalog
Shown(p) ==
    IF p \in DOMAIN runtime
    THEN [generation |-> runtime[p].generation, lifecycle |-> runtime[p].state]
    ELSE StoppedPane

\* A pane that holds a process is running, whatever its screen.
Sound(pane) == pane \in PaneRuntime /\ (pane.process => pane.state \in HeldStates)

\* The invariant without what is on disk: every window shows the panes as the runtime has
\* them, and identifiers that were not given out occur nowhere.
RuntimeInv ==
    /\ runtime = [p \in DOMAIN runtime |-> runtime[p]]
    /\ \A p \in DOMAIN runtime : Sound(runtime[p])
ShowsRuntime ==
    /\ DOMAIN runtime \subseteq PanesIn(catalog)
    /\ \A w \in Windows(catalog) : \A p \in DOMAIN w.panes : w.panes[p] = Shown(p)
CatalogInv ==
    /\ IsCatalog(catalog)
    /\ RuntimeInv
    /\ ShowsRuntime
    /\ UsedIs
    /\ GivenOut(catalog)

\* The record on disk is of stopped panes, with identifiers that were given out.
StoreInv ==
    /\ IsCatalog(Stored)
    /\ StoppedClone(Stored) = Stored
    /\ GivenOut(Stored)

\* What the service acknowledged is on disk, or is about to be; a service that is gone holds
\* nothing.
SavedInv ==
    /\ dirty \in BOOLEAN
    /\ Up => \/ StoppedClone(catalog) = Stored
             \/ phase = "ok" /\ dirty
    /\ ~Up => ~dirty /\ DOMAIN runtime = {}

DaemonInv == ControlInv /\ CatalogInv /\ StoreInv /\ SavedInv

\* Every window of a catalog that is stopped shows stopped panes.
LEMMA StoppedShows ==
    ASSUME NEW c, IsCatalog(c), NEW w \in Windows(StoppedClone(c)), NEW p \in DOMAIN w.panes
    PROVE  w.panes[p] = StoppedPane
  <1> DEFINE d == StoppedClone(c)
  <1>1. /\ SameStructure(c, d)
        /\ \A s \in DOMAIN c.sessions : \A i \in DOMAIN c.sessions[s].windows :
             \A q \in DOMAIN c.sessions[s].windows[i].panes :
               d.sessions[s].windows[i].panes[q] = StoppedPane
    BY CloneIsStopped
  <1>2. PICK s \in DOMAIN d.sessions : \E i \in DOMAIN d.sessions[s].windows :
             w = d.sessions[s].windows[i]
    BY WindowsAre
  <1>3. PICK i \in DOMAIN d.sessions[s].windows : w = d.sessions[s].windows[i]
    BY <1>2
  <1> HIDE DEF d
  <1>4. /\ s \in DOMAIN c.sessions /\ i \in DOMAIN c.sessions[s].windows
        /\ p \in DOMAIN c.sessions[s].windows[i].panes
    BY <1>1, <1>3 DEF SameStructure
  <1> QED
    BY <1>1, <1>3, <1>4

\* A stopped catalog, when no pane has a runtime.
LEMMA StoppedKeeps ==
    ASSUME NEW c, IsCatalog(c), catalog' = StoppedClone(c), DOMAIN runtime' = {},
           runtime' = [p \in {} |-> NewPane(1, "Stopped")], UsedIs',
           DOMAIN c.sessions \subseteq used'.session, PanesIn(c) \subseteq used'.pane
    PROVE  CatalogInv'
  <1>1. IsCatalog(catalog') /\ SameStructure(c, catalog')
    BY CloneIsStopped
  <1>2. GivenOut(catalog)'
    BY <1>1, SamePanes DEF GivenOut
  <1>3. ShowsRuntime'
    BY StoppedShows DEF ShowsRuntime, Shown
  <1>4. RuntimeInv'
    BY DEF RuntimeInv
  <1> QED
    BY <1>1, <1>2, <1>3, <1>4 DEF CatalogInv

\* A rearrangement keeps the panes that have a process, and the catalog goes on to show what
\* is left of the runtime.
LEMMA RearrangementKeeps ==
    ASSUME CatalogInv, Forget, NEW sessions, NEW panes,
           Rearranged(catalog, catalog', sessions, panes), panes \cap used.pane = {}, UsedIs',
           used.session \cup sessions \subseteq used'.session,
           used.pane \cup panes \subseteq used'.pane
    PROVE  CatalogInv' /\ Held \subseteq Held'
  <1>1. /\ DOMAIN runtime' = DOMAIN runtime \cap PanesIn(catalog')
        /\ runtime' = [p \in DOMAIN runtime' |-> runtime'[p]]
        /\ \A p \in DOMAIN runtime' : runtime'[p] = runtime[p]
    BY DEF Forget, Restrict
  <1>2. RuntimeInv'
    BY <1>1 DEF CatalogInv, RuntimeInv
  <1>3. GivenOut(catalog)'
    BY RearrangedPanes DEF CatalogInv, GivenOut, Rearranged
  <1>4. ASSUME NEW w \in Windows(catalog'), NEW p \in DOMAIN w.panes
        PROVE  w.panes[p] = Shown(p)'
    <2>1. p \in PanesIn(catalog')
      BY PanesAre
    <2>2. CASE p \in panes /\ w.panes[p] = StoppedPane
      <3>1. p \notin DOMAIN runtime
        BY <2>2 DEF CatalogInv, GivenOut, ShowsRuntime
      <3> QED
        BY <1>1, <2>2, <3>1 DEF Shown
    <2>3. CASE \E v \in Windows(catalog) : p \in DOMAIN v.panes /\ w.panes[p] = v.panes[p]
      <3>1. w.panes[p] = Shown(p)
        BY <2>3 DEF CatalogInv, ShowsRuntime
      <3> QED
        BY <1>1, <2>1, <3>1 DEF Shown
    <2> QED
      BY <2>2, <2>3 DEF Rearranged, Carries
  <1>5. ShowsRuntime'
    BY <1>1, <1>4 DEF ShowsRuntime
  <1>6. ASSUME NEW p \in Held
        PROVE  p \in Held'
    <2>1. /\ p \in DOMAIN runtime /\ runtime[p].process /\ runtime[p].state \in LiveStates
          /\ p \in PanesIn(catalog)
      BY DEF Held, CatalogInv, RuntimeInv, Sound, ShowsRuntime, HeldStates, LiveStates
    <2>2. PICK v \in Windows(catalog) : p \in DOMAIN v.panes
      BY <2>1, PanesAre
    <2>3. v.panes[p].lifecycle \in LiveStates
      <3>1. v.panes[p] = Shown(p)
        BY <2>2 DEF CatalogInv, ShowsRuntime
      <3> QED
        BY <2>1, <3>1 DEF Shown
    <2>4. p \in PanesIn(catalog')
      BY <2>2, <2>3, PanesAre DEF Rearranged, SparesLive
    <2> QED
      BY <1>1, <2>1, <2>4 DEF Held
  <1> QED
    BY <1>2, <1>3, <1>5, <1>6 DEF CatalogInv, Rearranged

\* A window after begin_pane_generation is a window before, with the panes begun.
LEMMA BegunWindows ==
    ASSUME NEW c, NEW panes, IsCatalog(c), NEW w \in Windows(BeginGeneration(c, panes))
    PROVE  \E v \in Windows(c) :
             /\ DOMAIN w.panes = DOMAIN v.panes
             /\ \A p \in DOMAIN w.panes : w.panes[p] = Begun(p, v.panes[p], panes)
  <1> DEFINE d == BeginGeneration(c, panes)
  <1>1. /\ SameStructure(c, d)
        /\ \A s \in DOMAIN c.sessions : \A i \in DOMAIN c.sessions[s].windows :
             \A p \in DOMAIN c.sessions[s].windows[i].panes :
               d.sessions[s].windows[i].panes[p]
                 = Begun(p, c.sessions[s].windows[i].panes[p], panes)
    BY BeginChanges
  <1>a. PICK s \in DOMAIN d.sessions : \E i \in DOMAIN d.sessions[s].windows :
             w = d.sessions[s].windows[i]
    BY WindowsAre
  <1>2. PICK i \in DOMAIN d.sessions[s].windows : w = d.sessions[s].windows[i]
    BY <1>a
  <1> HIDE DEF d
  <1>3. s \in DOMAIN c.sessions /\ i \in DOMAIN c.sessions[s].windows
    BY <1>1 DEF SameStructure
  <1>4. c.sessions[s].windows[i] \in Windows(c)
    BY <1>3, WindowsAre
  <1>5. DOMAIN w.panes = DOMAIN c.sessions[s].windows[i].panes
    BY <1>1, <1>2, <1>3 DEF SameStructure
  <1> QED
    BY <1>1, <1>2, <1>3, <1>4, <1>5

\* A window after set_generation_lifecycle is a window before, with the panes reported.
LEMMA ReportedWindows ==
    ASSUME NEW c, NEW reports, IsCatalog(c), NEW w \in Windows(SetLifecycle(c, reports))
    PROVE  \E v \in Windows(c) :
             /\ DOMAIN w.panes = DOMAIN v.panes
             /\ \A p \in DOMAIN w.panes : w.panes[p] = Reported(p, v.panes[p], reports)
  <1> DEFINE d == SetLifecycle(c, reports)
  <1>1. /\ SameStructure(c, d)
        /\ \A s \in DOMAIN c.sessions : \A i \in DOMAIN c.sessions[s].windows :
             \A p \in DOMAIN c.sessions[s].windows[i].panes :
               d.sessions[s].windows[i].panes[p]
                 = Reported(p, c.sessions[s].windows[i].panes[p], reports)
    BY ReportChanges
  <1>a. PICK s \in DOMAIN d.sessions : \E i \in DOMAIN d.sessions[s].windows :
             w = d.sessions[s].windows[i]
    BY WindowsAre
  <1>2. PICK i \in DOMAIN d.sessions[s].windows : w = d.sessions[s].windows[i]
    BY <1>a
  <1> HIDE DEF d
  <1>3. s \in DOMAIN c.sessions /\ i \in DOMAIN c.sessions[s].windows
    BY <1>1 DEF SameStructure
  <1>4. c.sessions[s].windows[i] \in Windows(c)
    BY <1>3, WindowsAre
  <1>5. DOMAIN w.panes = DOMAIN c.sessions[s].windows[i].panes
    BY <1>1, <1>2, <1>3 DEF SameStructure
  <1> QED
    BY <1>1, <1>2, <1>3, <1>4, <1>5

\* What every window of a catalog shows, as a function of the pane.
Shows(c, shown) == \A w \in Windows(c) : \A p \in DOMAIN w.panes : w.panes[p] = shown[p]

\* begin_pane_generation, as it is seen in the windows.
LEMMA BegunShows ==
    ASSUME NEW c, NEW panes, NEW shown, NEW next, IsCatalog(c), Shows(c, shown),
           \A p \in PanesIn(c) : next[p] = Begun(p, shown[p], panes)
    PROVE  Shows(BeginGeneration(c, panes), next)
  <1> SUFFICES ASSUME NEW w \in Windows(BeginGeneration(c, panes)), NEW p \in DOMAIN w.panes
               PROVE  w.panes[p] = next[p]
    BY DEF Shows
  <1>1. PICK v \in Windows(c) :
              /\ DOMAIN w.panes = DOMAIN v.panes
              /\ \A q \in DOMAIN w.panes : w.panes[q] = Begun(q, v.panes[q], panes)
    BY BegunWindows
  <1>2. v.panes[p] = shown[p] /\ p \in PanesIn(c)
    BY <1>1, PanesAre DEF Shows
  <1> QED
    BY <1>1, <1>2

\* set_generation_lifecycle, as it is seen in the windows.
LEMMA ReportedShows ==
    ASSUME NEW c, NEW reports, NEW shown, NEW next, IsCatalog(c), Shows(c, shown),
           \A p \in PanesIn(c) : next[p] = Reported(p, shown[p], reports)
    PROVE  Shows(SetLifecycle(c, reports), next)
  <1> SUFFICES ASSUME NEW w \in Windows(SetLifecycle(c, reports)), NEW p \in DOMAIN w.panes
               PROVE  w.panes[p] = next[p]
    BY DEF Shows
  <1>1. PICK v \in Windows(c) :
              /\ DOMAIN w.panes = DOMAIN v.panes
              /\ \A q \in DOMAIN w.panes : w.panes[q] = Reported(q, v.panes[q], reports)
    BY ReportedWindows
  <1>2. v.panes[p] = shown[p] /\ p \in PanesIn(c)
    BY <1>1, PanesAre DEF Shows
  <1> QED
    BY <1>1, <1>2

\* The panes that are started begin the generation of their new runtime, and every lifecycle
\* that is reported is of the generation that the catalog counts: none is dropped as stale.
LEMMA ApplyKeeps ==
    ASSUME CatalogInv, NEW changed, NEW starting, Apply(changed, starting),
           starting \subseteq DOMAIN changed, DOMAIN changed \subseteq PanesIn(catalog),
           \A p \in DOMAIN changed : Sound(changed[p]),
           \A p \in starting : changed[p].generation = NextGeneration(p),
           \A p \in DOMAIN changed \ starting :
             p \in DOMAIN runtime /\ changed[p].generation = runtime[p].generation
    PROVE  CatalogInv' /\ SameStructure(catalog, catalog')
  <1> DEFINE reports == [p \in DOMAIN changed |-> [generation |-> changed[p].generation,
                                                   lifecycle  |-> changed[p].state]]
             begun == BeginGeneration(catalog, starting)
             first == [p \in PanesIn(catalog) |-> Shown(p)]
             second == [p \in PanesIn(catalog) |-> Begun(p, first[p], starting)]
             third == [p \in PanesIn(catalog) |-> Reported(p, second[p], reports)]
  <1>1. /\ IsCatalog(catalog)
        /\ DOMAIN runtime \subseteq PanesIn(catalog)
        /\ Shows(catalog, first)
    BY PanesAre DEF CatalogInv, ShowsRuntime, Shows
  <1>2. IsCatalog(begun) /\ SameStructure(catalog, begun)
    BY <1>1, BeginChanges
  <1>3. Shows(begun, second)
    <2> HIDE DEF first
    <2>1. \A p \in PanesIn(catalog) : second[p] = Begun(p, first[p], starting)
      OBVIOUS
    <2> HIDE DEF second
    <2> QED
      BY <1>1, <2>1, BegunShows
  <1>4. PanesIn(begun) = PanesIn(catalog)
    BY <1>2, SamePanes
  <1>5. catalog' = SetLifecycle(begun, reports)
    BY DEF Apply
  <1>6. IsCatalog(catalog') /\ SameStructure(begun, catalog')
    <2> HIDE DEF begun, reports
    <2> QED
      BY <1>2, <1>5, ReportChanges
  <1>7. Shows(catalog', third)
    <2> HIDE DEF second, begun, reports
    <2>1. \A p \in PanesIn(begun) : third[p] = Reported(p, second[p], reports)
      BY <1>4
    <2> HIDE DEF third
    <2> QED
      BY <1>2, <1>3, <1>5, <2>1, ReportedShows
  <1>8. SameStructure(catalog, catalog')
    <2> HIDE DEF begun
    <2> QED
      BY <1>2, <1>6 DEF SameStructure
  <1>9. /\ PanesIn(catalog') = PanesIn(catalog)
        /\ DOMAIN catalog'.sessions = DOMAIN catalog.sessions
    BY <1>8, SamePanes
  <1>10. /\ DOMAIN runtime' = DOMAIN runtime \cup DOMAIN changed
         /\ \A p \in DOMAIN runtime' :
              runtime'[p] = IF p \in DOMAIN changed THEN changed[p] ELSE runtime[p]
         /\ runtime' = [p \in DOMAIN runtime' |-> runtime'[p]]
    BY DEF Apply
  <1>11. RuntimeInv'
    BY <1>10 DEF RuntimeInv, CatalogInv
  <1>12. ASSUME NEW p \in PanesIn(catalog)
         PROVE  third[p] = Shown(p)'
    <2> DEFINE a == Shown(p)
               b == Begun(p, a, starting)
    <2>1. third[p] = Reported(p, b, reports)
      OBVIOUS
    <2> HIDE DEF third, first, second
    <2>2. CASE p \in starting
      <3>1. b.generation = changed[p].generation
            /\ b = [generation |-> b.generation, lifecycle |-> "Starting"]
        BY <2>2 DEF Begun, Shown, NextGeneration, StoppedPane
      <3> HIDE DEF b
      <3>2. Reported(p, b, reports)
              = [generation |-> changed[p].generation, lifecycle |-> changed[p].state]
        BY <2>2, <3>1 DEF Reported
      <3> QED
        BY <1>10, <2>1, <2>2, <3>2 DEF Shown
    <2>3. CASE p \in DOMAIN changed /\ p \notin starting
      <3>1. b = [generation |-> runtime[p].generation, lifecycle |-> runtime[p].state]
            /\ runtime[p].generation = changed[p].generation
        BY <2>3 DEF Begun, Shown
      <3> HIDE DEF b
      <3>2. Reported(p, b, reports)
              = [generation |-> changed[p].generation, lifecycle |-> changed[p].state]
        BY <2>3, <3>1 DEF Reported
      <3> QED
        BY <1>10, <2>1, <2>3, <3>2 DEF Shown
    <2>4. CASE p \notin DOMAIN changed
      <3>1. b = a /\ Reported(p, b, reports) = b
        BY <2>4 DEF Begun, Reported
      <3> QED
        BY <1>10, <2>1, <2>4, <3>1 DEF Shown
    <2> QED
      BY <2>2, <2>3, <2>4
  <1>13. ShowsRuntime'
    <2> HIDE DEF third
    <2>1. \A w \in Windows(catalog') : \A p \in DOMAIN w.panes : w.panes[p] = Shown(p)'
      BY <1>7, <1>9, <1>12, PanesAre DEF Shows
    <2> QED
      BY <1>1, <1>9, <1>10, <2>1 DEF ShowsRuntime
  <1>14. UNCHANGED used
    BY DEF Apply
  <1> QED
    BY <1>6, <1>8, <1>9, <1>11, <1>13, <1>14 DEF CatalogInv, UsedIs, GivenOut

\* What a drain makes of a pane: a pane of the same generation, which is reported whenever its
\* state is another one.
LEMMA OutcomeKeeps ==
    ASSUME NEW p, Sound(runtime[p]), NEW outcome \in Outcomes(p)
    PROVE  /\ Sound(outcome.pane)
           /\ outcome.pane.generation = runtime[p].generation
           /\ ~outcome.changed => outcome.pane.state = runtime[p].state
  <1>1. CASE outcome = [pane |-> runtime[p], changed |-> FALSE]
    BY <1>1
  <1>2. CASE outcome # [pane |-> runtime[p], changed |-> FALSE]
    <2>1. PICK turn \in Turns \cap TurnsOf(runtime[p]), aged \in BOOLEAN :
               outcome = [pane    |-> AfterTurn(runtime[p], turn, aged),
                          changed |-> TurnChanges(runtime[p], turn, aged)]
      BY <1>2 DEF Outcomes
    <2> DEFINE after == AfterTurn(runtime[p], turn, aged)
    <2>2. turn \in Turn
      BY DaemonAssumption
    <2>3. /\ after \in PaneRuntime
          /\ after.generation = runtime[p].generation
          /\ after.process => runtime[p].process
          /\ after.process /\ runtime[p].state \in HeldStates => after.state \in HeldStates
      BY <2>2, AfterTurnKeeps DEF Sound
    <2>4. outcome.pane = after
      BY <2>1
    <2>5. outcome.changed <=> TurnChanges(runtime[p], turn, aged)
      BY <2>1
    <2>6. ~outcome.changed => after.state = runtime[p].state
      BY <2>5 DEF TurnChanges
    <2> HIDE DEF after
    <2> QED
      BY <2>3, <2>4, <2>6 DEF Sound
  <1> QED
    BY <1>1, <1>2

\* A drain leaves the generations alone and reports every pane whose state it changed.
LEMMA DrainKeeps ==
    ASSUME CatalogInv, Drain
    PROVE  CatalogInv' /\ SameStructure(catalog, catalog')
  <1>1. PICK after :
            /\ \A p \in DOMAIN runtime : after[p] \in Outcomes(p)
            /\ runtime' = [p \in DOMAIN runtime |-> after[p].pane]
            /\ catalog' = SetLifecycle(catalog,
                 [p \in {q \in DOMAIN runtime : after[q].changed /\ q \in PanesIn(catalog)} |->
                    [generation |-> after[p].pane.generation,
                     lifecycle  |-> after[p].pane.state]])
    BY DEF Drain
  <1> DEFINE changed == {q \in DOMAIN runtime : after[q].changed /\ q \in PanesIn(catalog)}
             reports == [p \in changed |-> [generation |-> after[p].pane.generation,
                                            lifecycle  |-> after[p].pane.state]]
             first == [p \in PanesIn(catalog) |-> Shown(p)]
             second == [p \in PanesIn(catalog) |-> Reported(p, first[p], reports)]
  <1>2. /\ IsCatalog(catalog)
        /\ DOMAIN runtime \subseteq PanesIn(catalog)
        /\ Shows(catalog, first)
    BY PanesAre DEF CatalogInv, ShowsRuntime, Shows
  <1>3. catalog' = SetLifecycle(catalog, reports)
    BY <1>1
  <1>4. IsCatalog(catalog') /\ SameStructure(catalog, catalog')
    <2> HIDE DEF reports
    <2> QED
      BY <1>2, <1>3, ReportChanges
  <1>5. Shows(catalog', second)
    <2> HIDE DEF first, reports
    <2>1. \A p \in PanesIn(catalog) : second[p] = Reported(p, first[p], reports)
      OBVIOUS
    <2> HIDE DEF second
    <2> QED
      BY <1>2, <1>3, <2>1, ReportedShows
  <1>6. /\ PanesIn(catalog') = PanesIn(catalog)
        /\ DOMAIN catalog'.sessions = DOMAIN catalog.sessions
    BY <1>4, SamePanes
  <1>7. \A p \in DOMAIN runtime : /\ Sound(after[p].pane)
                                  /\ after[p].pane.generation = runtime[p].generation
                                  /\ ~after[p].changed => after[p].pane.state = runtime[p].state
    BY <1>1, OutcomeKeeps DEF CatalogInv, RuntimeInv
  <1>8. /\ DOMAIN runtime' = DOMAIN runtime
        /\ \A p \in DOMAIN runtime : runtime'[p] = after[p].pane
        /\ runtime' = [p \in DOMAIN runtime' |-> runtime'[p]]
    BY <1>1
  <1>9. RuntimeInv'
    BY <1>7, <1>8 DEF RuntimeInv
  <1>10. ASSUME NEW p \in PanesIn(catalog)
         PROVE  second[p] = Shown(p)'
    <2>1. second[p] = Reported(p, Shown(p), reports)
      OBVIOUS
    <2>2. CASE p \in changed
      <3>1. /\ p \in DOMAIN reports
            /\ reports[p] = [generation |-> after[p].pane.generation,
                             lifecycle  |-> after[p].pane.state]
            /\ p \in DOMAIN runtime
        BY <2>2
      <3> HIDE DEF reports, second, changed
      <3> QED
        BY <1>7, <1>8, <2>1, <3>1 DEF Reported, Shown
    <2>3. CASE p \notin changed
      <3>1. p \notin DOMAIN reports
        BY <2>3
      <3>2. p \in DOMAIN runtime => ~after[p].changed
        BY <2>3
      <3> HIDE DEF reports, second, changed
      <3> QED
        BY <1>7, <1>8, <2>1, <3>1, <3>2 DEF Reported, Shown
    <2> QED
      BY <2>2, <2>3
  <1>11. ShowsRuntime'
    <2> HIDE DEF second
    <2>1. \A w \in Windows(catalog') : \A p \in DOMAIN w.panes : w.panes[p] = Shown(p)'
      BY <1>5, <1>6, <1>10, PanesAre DEF Shows
    <2> QED
      BY <1>2, <1>6, <1>8, <2>1 DEF ShowsRuntime
  <1>12. UNCHANGED used
    BY DEF Drain
  <1> QED
    BY <1>4, <1>6, <1>9, <1>11, <1>12 DEF CatalogInv, UsedIs, GivenOut

-----------------------------------------------------------------------------
(* Every step.                                                              *)

\* What a step must leave behind, and that it ends no process if it rearranges the catalog.
Kept ==
    /\ CatalogInv'
    /\ StoreInv'
    /\ SavedInv'
    /\ PanesIn(catalog') = PanesIn(catalog) \/ Held \subseteq Held'

\* A pane that is started or terminated.
LEMMA StartedAndTerminated ==
    ASSUME CatalogInv, NEW p, NEW ok \in BOOLEAN
    PROVE  /\ Sound(Started(p, ok)) /\ Started(p, ok).generation = NextGeneration(p)
           /\ p \in Held => /\ Sound(Terminated(p, ok))
                            /\ Terminated(p, ok).generation = runtime[p].generation
                            /\ p \in DOMAIN runtime /\ p \in PanesIn(catalog)
  <1>1. NextGeneration(p) \in Nat
    BY DEF NextGeneration, CatalogInv, RuntimeInv, Sound, PaneRuntime
  <1> DEFINE new == NewPane(NextGeneration(p), IF ok THEN "Running" ELSE "Failed")
  <1>2. /\ new \in PaneRuntime /\ new.generation = NextGeneration(p)
        /\ new.state = IF ok THEN "Running" ELSE "Failed"
    BY <1>1, NewPaneType DEF States
  <1>3. Started(p, ok) = [new EXCEPT !.process = ok]
    BY DEF Started
  <1> HIDE DEF new
  <1>4. Sound(Started(p, ok)) /\ Started(p, ok).generation = NextGeneration(p)
    BY <1>2, <1>3 DEF Sound, PaneRuntime, HeldStates
  <1>5. ASSUME p \in Held
        PROVE  /\ Sound(Terminated(p, ok))
               /\ Terminated(p, ok).generation = runtime[p].generation
               /\ p \in DOMAIN runtime /\ p \in PanesIn(catalog)
    <2>1. p \in DOMAIN runtime /\ p \in PanesIn(catalog) /\ runtime[p] \in PaneRuntime
      BY <1>5 DEF Held, CatalogInv, RuntimeInv, ShowsRuntime, Sound
    <2> DEFINE ended == [runtime[p] EXCEPT !.process = FALSE]
               state == IF ok THEN "Exited" ELSE "Failed"
    <2>2. ended \in PaneRuntime /\ ~ended.process /\ ended.generation = runtime[p].generation
      BY <2>1 DEF PaneRuntime
    <2>3. Terminated(p, ok) = [ended EXCEPT !.state = state]
      BY <2>1 DEF Terminated, PaneRuntime
    <2>4. state \in States
      BY DEF States
    <2> HIDE DEF ended, state
    <2> QED
      BY <2>1, <2>2, <2>3, <2>4 DEF Sound, PaneRuntime
  <1> QED
    BY <1>4, <1>5

\* A step of the loop that starts, terminates or reports panes leaves the structure as it was.
LEMMA ReportingKeeps ==
    ASSUME CatalogInv, StoreInv, SavedInv, Up, Up', phase = "ok" => phase' = "ok" \/ ~dirty,
           dirty => dirty', UNCHANGED <<disk, used>>,
           CatalogInv', SameStructure(catalog, catalog'), dirty' \in BOOLEAN
    PROVE  Kept
  <1>1. StoppedClone(catalog') = StoppedClone(catalog)
    BY CloneIgnoresPanes DEF CatalogInv
  <1>2. PanesIn(catalog') = PanesIn(catalog)
    BY SamePanes
  <1>3. UNCHANGED Stored
    BY DEF Stored
  <1>4. StoreInv'
    BY <1>3 DEF StoreInv, GivenOut
  <1>5. SavedInv'
    BY <1>1, <1>3 DEF SavedInv
  <1> QED
    BY <1>2, <1>4, <1>5 DEF Kept

\* A request that rearranges the catalog leaves a service that is still to be saved.
LEMMA MutateKeeps ==
    ASSUME CatalogInv, StoreInv, NEW c, Mutate(c)
    PROVE  Kept
  <1>1. /\ phase' = "ok" /\ dirty' = TRUE /\ UNCHANGED disk /\ Forget /\ Up'
        /\ \/ Enlarge \/ Rearrange
           \/ catalog' = catalog /\ UNCHANGED used
    BY DEF Mutate, Controls, Takes, Retouch, RenameSession, RenameWindow, ResizeSplit, Up
  <1>2. \E sessions, panes :
             /\ Rearranged(catalog, catalog', sessions, panes)
             /\ panes \cap used.pane = {}
             /\ UsedIs'
             /\ used.session \cup sessions \subseteq used'.session
             /\ used.pane \cup panes \subseteq used'.pane
    <2>1. CASE Enlarge \/ Rearrange
      BY <2>1, MutationRearranges DEF CatalogInv
    <2>2. CASE catalog' = catalog /\ UNCHANGED used
      <3>1. Rearranged(catalog, catalog', {}, {})
        BY <2>2 DEF CatalogInv, Rearranged, Carries, SparesLive
      <3>2. UsedIs'
        BY <2>2 DEF UsedIs, CatalogInv
      <3> WITNESS {}, {}
      <3> QED
        BY <2>2, <3>1, <3>2
    <2> QED
      BY <1>1, <2>1, <2>2
  <1>3. PICK sessions, panes :
             /\ Rearranged(catalog, catalog', sessions, panes)
             /\ panes \cap used.pane = {}
             /\ UsedIs'
             /\ used.session \cup sessions \subseteq used'.session
             /\ used.pane \cup panes \subseteq used'.pane
    BY <1>2
  <1>4. CatalogInv' /\ Held \subseteq Held'
    BY <1>1, <1>3, RearrangementKeeps
  <1>5. StoreInv'
    BY <1>1, <1>3 DEF StoreInv, Stored, GivenOut
  <1>6. SavedInv'
    BY <1>1 DEF SavedInv, Up
  <1> QED
    BY <1>4, <1>5, <1>6 DEF Kept

\* An import into an empty catalog brings stopped panes, and there is no process to end.
LEMMA ImportKeeps ==
    ASSUME CatalogInv, StoreInv, NEW c, Import(c)
    PROVE  Kept
  <1>1. PICK given \in Imports :
             /\ ImportStopped(catalog, catalog', given)
             /\ used' = [used EXCEPT !.session = @ \cup DOMAIN given.sessions,
                             !.window = @ \cup {w.id : w \in Windows(given)},
                             !.pane = @ \cup PanesIn(given)]
    BY DEF Import
  <1>2. /\ phase' = "ok" /\ dirty' = TRUE /\ UNCHANGED <<disk, runtime>> /\ Up'
    BY DEF Import, Controls, Takes, Up
  <1>3. IsCatalog(given) /\ catalog' = StoppedClone(given) /\ DOMAIN catalog.sessions = {}
    BY <1>1, DaemonAssumption DEF ImportStopped
  <1>4. DOMAIN runtime = {}
    <2>1. PanesIn(catalog) = {}
      BY <1>3, PanesAre, WindowsAre
    <2> QED
      BY <2>1 DEF CatalogInv, ShowsRuntime
  <1>5. /\ UsedIs'
        /\ used'.session = used.session \cup DOMAIN given.sessions
        /\ used'.pane = used.pane \cup PanesIn(given)
    <2> DEFINE s == used.session \cup DOMAIN given.sessions
               w == used.window \cup {v.id : v \in Windows(given)}
               q == used.pane \cup PanesIn(given)
    <2>1. used' = [used EXCEPT !.session = s, !.window = w, !.pane = q]
      BY <1>1
    <2>2. used = [session |-> used.session, window |-> used.window, pane |-> used.pane]
      BY DEF CatalogInv, UsedIs
    <2> HIDE DEF s, w, q
    <2>3. used' = [session |-> s, window |-> w, pane |-> q]
      BY <2>1, <2>2
    <2> QED
      BY <2>3 DEF s, q, UsedIs
  <1>6. runtime' = [p \in {} |-> NewPane(1, "Stopped")] /\ DOMAIN runtime' = {}
    BY <1>2, <1>4 DEF CatalogInv, RuntimeInv
  <1>7. CatalogInv'
    BY <1>3, <1>5, <1>6, StoppedKeeps
  <1>8. StoreInv'
    BY <1>2, <1>5 DEF StoreInv, Stored, GivenOut
  <1>9. SavedInv'
    BY <1>2 DEF SavedInv, Up
  <1>10. Held \subseteq Held'
    BY <1>2 DEF Held
  <1> QED
    BY <1>7, <1>8, <1>9, <1>10 DEF Kept

\* The requests that start or terminate panes.
LEMMA PanesKeep ==
    ASSUME CatalogInv, StoreInv, SavedInv, NEW c, NEW p, NEW s,
           \/ StartPane(c, p) \/ TerminatePane(c, p)
           \/ TerminateSession(c, s) \/ RestartSession(c, s)
    PROVE  Kept
  <1> SUFFICES CatalogInv' /\ SameStructure(catalog, catalog')
    <2>1. \E changed, starting : Apply(changed, starting)
      BY DEF StartPane, TerminatePane, TerminateSession, RestartSession
    <2>2. dirty' \in BOOLEAN /\ (dirty => dirty') /\ UNCHANGED used
      BY <2>1 DEF Apply, SavedInv
    <2>3. /\ phase = "recv" /\ phase' \in {"ok", "refused", "closing"}
          /\ UNCHANGED disk /\ Up /\ Up'
      BY DEF StartPane, TerminatePane, TerminateSession, RestartSession, Controls, Takes, Up
    <2> QED
      BY <2>2, <2>3, ReportingKeeps
  <1> DEFINE Good(changed, starting) ==
               /\ Apply(changed, starting)
               /\ starting \subseteq DOMAIN changed
               /\ DOMAIN changed \subseteq PanesIn(catalog)
               /\ \A q \in DOMAIN changed : Sound(changed[q])
               /\ \A q \in starting : changed[q].generation = NextGeneration(q)
               /\ \A q \in DOMAIN changed \ starting :
                    q \in DOMAIN runtime /\ changed[q].generation = runtime[q].generation
  <1> SUFFICES \E changed, starting : Good(changed, starting)
    BY ApplyKeeps
  <1>1. ASSUME StartPane(c, p)
        PROVE  \E changed, starting : Good(changed, starting)
    <2>1. PICK ok \in BOOLEAN : Apply([q \in {p} |-> Started(p, ok)], {p})
      BY <1>1 DEF StartPane
    <2>2. p \in PanesIn(catalog)
      BY <1>1 DEF StartPane
    <2>3. Good([q \in {p} |-> Started(p, ok)], {p})
      BY <2>1, <2>2, StartedAndTerminated
    <2> QED
      BY <2>3
  <1>2. ASSUME TerminatePane(c, p)
        PROVE  \E changed, starting : Good(changed, starting)
    <2>1. PICK ok \in BOOLEAN : Apply([q \in {p} |-> Terminated(p, ok)], {})
      BY <1>2 DEF TerminatePane
    <2>2. p \in Held
      BY <1>2 DEF TerminatePane
    <2>3. Good([q \in {p} |-> Terminated(p, ok)], {})
      BY <2>1, <2>2, StartedAndTerminated
    <2> QED
      BY <2>3
  <1>3. ASSUME TerminateSession(c, s)
        PROVE  \E changed, starting : Good(changed, starting)
    <2> DEFINE panes == {q \in PanesOf(catalog.sessions[s]) : ShownLive(q)} \cap Held
    <2>1. PICK ok \in [panes -> BOOLEAN] : Apply([q \in panes |-> Terminated(q, ok[q])], {})
      BY <1>3 DEF TerminateSession
    <2>2. panes \subseteq Held
      OBVIOUS
    <2> HIDE DEF panes
    <2>3. Good([q \in panes |-> Terminated(q, ok[q])], {})
      BY <2>1, <2>2, StartedAndTerminated
    <2> QED
      BY <2>3
  <1>4. ASSUME RestartSession(c, s)
        PROVE  \E changed, starting : Good(changed, starting)
    <2> DEFINE all == PanesOf(catalog.sessions[s])
               panes == {q \in all : ShownLive(q) => q \in Held}
               live == {q \in panes : ShownLive(q)}
               starting(shell, ends) == {q \in panes : shell /\ (q \in live => ends[q])}
    <2>1. PICK shell \in BOOLEAN, ends \in [live -> BOOLEAN], ok \in [panes -> BOOLEAN] :
               Apply([q \in starting(shell, ends) \cup live |->
                        IF q \in starting(shell, ends) THEN Started(q, ok[q])
                        ELSE Terminated(q, ends[q])], starting(shell, ends))
      BY <1>4 DEF RestartSession
    <2> DEFINE begins == starting(shell, ends)
               changed == [q \in begins \cup live |-> IF q \in begins THEN Started(q, ok[q])
                                                      ELSE Terminated(q, ends[q])]
    <2>2. HasSession(catalog, s) /\ all \subseteq PanesIn(catalog)
      BY <1>4 DEF RestartSession, HasSession, PanesOf, PanesIn, Windows
    <2>3. /\ Apply(changed, begins)
          /\ begins \subseteq panes /\ live \subseteq panes /\ live \subseteq Held
          /\ panes \subseteq PanesIn(catalog)
      BY <2>1, <2>2
    <2> HIDE DEF begins, live, panes, all
    <2>4. /\ \A q \in begins : Sound(changed[q]) /\ changed[q].generation = NextGeneration(q)
          /\ \A q \in live \ begins : /\ Sound(changed[q]) /\ q \in DOMAIN runtime
                                      /\ changed[q].generation = runtime[q].generation
      BY <2>1, <2>3, StartedAndTerminated
    <2>5. DOMAIN changed = begins \cup live
      OBVIOUS
    <2> HIDE DEF changed
    <2>6. Good(changed, begins)
      BY <2>3, <2>4, <2>5
    <2> QED
      BY <2>6
  <1> QED
    BY <1>1, <1>2, <1>3, <1>4

\* A step that leaves the catalog, the runtime and the record alone, and no acknowledgement
\* unsaved.
LEMMA QuietKeeps ==
    ASSUME CatalogInv, StoreInv, SavedInv, Up, Up', UNCHANGED <<catalog, runtime, disk, used>>,
           dirty' \in BOOLEAN, phase = "ok" => (phase' = "ok" /\ dirty') \/ ~dirty
    PROVE  Kept
  BY DEF Kept, CatalogInv, RuntimeInv, ShowsRuntime, Shown, UsedIs, GivenOut, StoreInv, Stored,
         SavedInv, Up, Held

\* The empty catalog, of a service that is new or gone.
LEMMA EmptyKeeps ==
    /\ IsCatalog(EmptyCatalog) /\ StoppedClone(EmptyCatalog) = EmptyCatalog
    /\ DOMAIN EmptyCatalog.sessions = {} /\ PanesIn(EmptyCatalog) = {}
  <1>1. IsCatalog(EmptyCatalog) /\ DOMAIN EmptyCatalog.sessions = {}
    BY DEF IsCatalog, EmptyCatalog
  <1>2. PanesIn(EmptyCatalog) = {}
    BY <1>1, PanesAre, WindowsAre
  <1>3. StoppedClone(EmptyCatalog) = EmptyCatalog
    <2> DEFINE e == EmptyCatalog
               d == StoppedClone(e)
    <2>1. IsCatalog(d) /\ SameStructure(e, d)
      BY <1>1, CloneIsStopped
    <2>2. DOMAIN e.sessions = {}
      BY <1>1
    <2> HIDE DEF e, d
    <2>3. IsCatalog(e)
      BY <1>1 DEF e
    <2>4. e = d
      BY <2>1, <2>2, <2>3, SameCatalog
    <2> QED
      BY <2>4 DEF e, d
  <1> QED
    BY <1>1, <1>2, <1>3

\* A service that is gone has nothing; what is on disk stays.
LEMMA GoneKeeps ==
    ASSUME CatalogInv, StoreInv', Gone, ~Up', UNCHANGED used
    PROVE  CatalogInv' /\ SavedInv'
  <1>1. /\ catalog' = StoppedClone(EmptyCatalog) /\ dirty' = FALSE
        /\ runtime' = [p \in {} |-> NewPane(1, "Stopped")] /\ DOMAIN runtime' = {}
    BY EmptyKeeps DEF Gone, NoRuntime
  <1>2. UsedIs'
    BY DEF CatalogInv, UsedIs
  <1>3. CatalogInv'
    BY <1>1, <1>2, EmptyKeeps, StoppedKeeps
  <1> QED
    BY <1>1, <1>3 DEF SavedInv, Up

\* NoRecord is what the session store answers when it has none: no record.
NoRecordIsNone == \A c, histories : NoRecord # [catalog |-> c, histories |-> histories]

\* The record that the service makes has the structure of its catalog, and is stopped.
LEMMA RecordKeeps ==
    ASSUME NoRecordIsNone, CatalogInv, UNCHANGED used, disk' = Record
    PROVE  StoreInv' /\ Stored' = StoppedClone(catalog)
  <1>1. Stored' = StoppedClone(catalog)
    BY DEF Stored, Record, NoRecordIsNone
  <1>2. /\ IsCatalog(StoppedClone(catalog)) /\ SameStructure(catalog, StoppedClone(catalog))
        /\ StoppedClone(StoppedClone(catalog)) = StoppedClone(catalog)
    BY CloneIsStopped, CloneTwice DEF CatalogInv
  <1>3. /\ PanesIn(StoppedClone(catalog)) = PanesIn(catalog)
        /\ DOMAIN StoppedClone(catalog).sessions = DOMAIN catalog.sessions
    BY <1>2, SamePanes
  <1>4. StoreInv'
    <2> DEFINE d == StoppedClone(catalog)
    <2>1. Stored' = d /\ IsCatalog(d) /\ StoppedClone(d) = d
      BY <1>1, <1>2
    <2>2. PanesIn(d) \subseteq used'.pane /\ DOMAIN d.sessions \subseteq used'.session
      BY <1>3 DEF CatalogInv, GivenOut
    <2> HIDE DEF d
    <2> QED
      BY <2>1, <2>2 DEF StoreInv, GivenOut
  <1> QED
    BY <1>1, <1>4

\* persist_if_dirty: nothing to save, the record saved, or the end of the service.
LEMMA PersistKeeps ==
    ASSUME NoRecordIsNone, CatalogInv, StoreInv, SavedInv, Up, UNCHANGED used,
           NEW next \in {"tick", "recv", "last"}, PersistIfDirty(next)
    PROVE  Kept \/ (CatalogInv' /\ StoreInv' /\ SavedInv' /\ ~Up')
  <1>1. CASE ~dirty /\ phase' = next /\ UNCHANGED <<service, clients, disk>>
    <2>1. UNCHANGED <<catalog, runtime, disk>> /\ dirty' = dirty /\ Up'
      BY <1>1 DEF service, Up
    <2>2. dirty \in BOOLEAN
      BY DEF SavedInv
    <2> QED
      BY <1>1, <2>1, <2>2, QuietKeeps
  <1>2. CASE /\ phase' = next /\ disk' = Record /\ dirty' = FALSE
             /\ UNCHANGED <<catalog, runtime, historical, large, clients>>
    <2>1. StoreInv' /\ Stored' = StoppedClone(catalog)
      BY <1>2, RecordKeeps
    <2>2. CatalogInv' /\ Held' = Held
      BY <1>2 DEF CatalogInv, RuntimeInv, ShowsRuntime, Shown, UsedIs, GivenOut, Held
    <2>3. SavedInv'
      BY <1>2, <2>1 DEF SavedInv, Up
    <2> QED
      BY <2>1, <2>2, <2>3 DEF Kept
  <1>3. CASE phase' = "ended" /\ Gone /\ UNCHANGED disk
    <2>1. StoreInv' /\ ~Up'
      BY <1>3 DEF StoreInv, Stored, GivenOut, Up
    <2> QED
      BY <1>3, <2>1, GoneKeeps
  <1> QED
    BY <1>1, <1>2, <1>3 DEF PersistIfDirty

\* The next service has what is on disk, stopped.
LEMMA LaunchKeeps ==
    ASSUME CatalogInv, StoreInv, SavedInv, Launch
    PROVE  CatalogInv' /\ StoreInv' /\ SavedInv'
  <1>1. /\ ~Up /\ phase' = "recv" /\ UNCHANGED <<runtime, dirty, disk, used>>
        /\ catalog' = IF disk = NoRecord THEN EmptyCatalog ELSE StoppedClone(disk.catalog)
    BY DEF Launch
  <1>2. catalog' = StoppedClone(Stored)
    BY <1>1, EmptyKeeps DEF Stored
  <1>3. DOMAIN runtime' = {} /\ runtime' = [p \in {} |-> NewPane(1, "Stopped")]
    BY <1>1 DEF SavedInv, CatalogInv, RuntimeInv
  <1>4. UsedIs' /\ IsCatalog(Stored) /\ DOMAIN Stored.sessions \subseteq used'.session
        /\ PanesIn(Stored) \subseteq used'.pane
    BY <1>1 DEF CatalogInv, UsedIs, StoreInv, GivenOut
  <1>5. CatalogInv'
    <2> HIDE DEF Stored
    <2> QED
      BY <1>2, <1>3, <1>4, StoppedKeeps
  <1>6. StoreInv' /\ Stored' = Stored
    BY <1>1 DEF StoreInv, GivenOut, Stored
  <1>7. SavedInv'
    <2>1. StoppedClone(catalog') = Stored
      BY <1>2, <1>4, CloneTwice DEF StoreInv
    <2> QED
      BY <1>1, <1>6, <2>1 DEF SavedInv, Up
  <1> QED
    BY <1>5, <1>6, <1>7

\* The whole of it: every step keeps the invariant, and one that rearranges the catalog of a
\* service that goes on ends no process.
LEMMA DaemonStep ==
    ASSUME NoRecordIsNone, CatalogInv, StoreInv, SavedInv, phase \in Phases, [Next]_vars
    PROVE  /\ CatalogInv' /\ StoreInv' /\ SavedInv'
           /\ (Up /\ Up' /\ PanesIn(catalog) # PanesIn(catalog')) => Held \subseteq Held'
  <1>1. ASSUME NEW c \in Clients, Connect(c) \/ PeerLeaves(c) \/ Disconnected(c)
        PROVE  Kept \/ (~Up /\ UNCHANGED <<phase, catalog, runtime, dirty, disk, used>>)
    <2>1. /\ UNCHANGED <<catalog, runtime, dirty, disk, used>>
          /\ phase' = phase \/ (phase = "recv" /\ phase' = "tick")
      BY <1>1 DEF Connect, PeerLeaves, Disconnected, service
    <2>2. dirty \in BOOLEAN
      BY DEF SavedInv
    <2>3. ASSUME Up
          PROVE  Kept
      <3>1. Up'
        BY <2>1, <2>3 DEF Up
      <3>2. CASE phase = "ok"
        <4>1. phase' = "ok" /\ dirty' = dirty
          BY <2>1, <3>2
        <4> QED
          BY <2>1, <2>2, <2>3, <3>1, <4>1, QuietKeeps
      <3> QED
        BY <2>1, <2>2, <2>3, <3>1, <3>2, QuietKeeps
    <2>4. ASSUME ~Up
          PROVE  UNCHANGED <<phase, catalog, runtime, dirty, disk, used>>
      BY <2>1, <2>4 DEF Up
    <2> QED
      BY <2>3, <2>4
  <1>2. ASSUME NEW c \in Clients, Handle(c)
        PROVE  Kept
    <2>1. ASSUME Refuse(c) \/ Attach(c) \/ Detach(c) \/ Ask(c) \/ Shutdown(c)
                 \/ \E p \in PaneIds : ResizePane(c, p)
          PROVE  Kept
      <3>1. /\ UNCHANGED <<catalog, runtime, disk, used>> /\ phase = "recv"
            /\ phase' \in {"ok", "refused", "closing"} /\ dirty' \in {dirty, TRUE}
        BY <2>1 DEF Refuse, Attach, Detach, Ask, Shutdown, ResizePane, SetPaneSize, Controls, Takes, service
      <3>2. dirty' \in BOOLEAN /\ Up /\ Up'
        BY <3>1 DEF SavedInv, Up
      <3> QED
        BY <3>1, <3>2, QuietKeeps
    <2> QED
      BY <1>2, <2>1, MutateKeeps, ImportKeeps, PanesKeep DEF Handle
  <1>3. ASSUME Save \/ PeriodicSave
        PROVE  Kept \/ (CatalogInv' /\ StoreInv' /\ SavedInv' /\ ~Up')
    <2>1. Up /\ UNCHANGED used /\ \E next \in {"tick", "recv", "last"} : PersistIfDirty(next)
      BY <1>3 DEF Save, PeriodicSave, Up
    <2> QED
      BY <2>1, PersistKeeps
  <1>4. ASSUME Drain
        PROVE  Kept
    <2>1. CatalogInv' /\ SameStructure(catalog, catalog')
      BY <1>4, DrainKeeps
    <2>2. /\ phase # "ok" /\ Up /\ Up' /\ UNCHANGED <<disk, used>>
          /\ dirty' \in BOOLEAN /\ (dirty => dirty')
      BY <1>4 DEF Drain, Up, SavedInv
    <2> QED
      BY <2>1, <2>2, ReportingKeeps
  <1>5. ASSUME Round \/ Timeout \/ GoIdle
        PROVE  Kept
    <2>1. /\ UNCHANGED <<catalog, runtime, dirty, disk, used>> /\ phase # "ok" /\ Up /\ Up'
      BY <1>5 DEF Round, Timeout, GoIdle, service, Up
    <2>2. dirty' \in BOOLEAN
      BY <2>1 DEF SavedInv
    <2> QED
      BY <2>1, <2>2, QuietKeeps
  <1>6. ASSUME Finish \/ Crash
        PROVE  CatalogInv' /\ StoreInv' /\ SavedInv' /\ ~Up'
    <2>1. Gone /\ ~Up' /\ UNCHANGED used /\ (disk' = disk \/ disk' = Record)
      BY <1>6 DEF Finish, Crash, Up
    <2>2. StoreInv'
      BY <2>1, RecordKeeps DEF StoreInv, Stored, GivenOut
    <2> QED
      BY <2>1, <2>2, GoneKeeps
  <1>7. ASSUME Launch
        PROVE  CatalogInv' /\ StoreInv' /\ SavedInv' /\ ~Up
    BY <1>7, LaunchKeeps DEF Launch
  <1>8. ASSUME UNCHANGED <<phase, catalog, runtime, dirty, disk, used>>
        PROVE  CatalogInv' /\ StoreInv' /\ SavedInv' /\ Held = Held'
    BY <1>8 DEF CatalogInv, RuntimeInv, ShowsRuntime, Shown, UsedIs, GivenOut, StoreInv, Stored,
                SavedInv, Up, Held
  <1>9. UNCHANGED vars => UNCHANGED <<phase, catalog, runtime, dirty, disk, used>>
    BY DEF vars, service
  <1> QED
    BY <1>1, <1>2, <1>3, <1>4, <1>5, <1>6, <1>7, <1>8, <1>9 DEF Next, Iterate, Kept

-----------------------------------------------------------------------------
(* The theorems.                                                            *)

\* A service that is new has no catalog, no record and nobody in control.
LEMMA DaemonInit ==
    ASSUME Init
    PROVE  DaemonInv
  <1>1. ControlInv
    BY DaemonAssumption DEF Init, ControlInv, ControlAgrees, Connections, Phases
  <1>2. Stored = EmptyCatalog /\ catalog = EmptyCatalog /\ StoreInv
    BY EmptyKeeps DEF Init, Stored, StoreInv, GivenOut
  <1>3. RuntimeInv /\ UsedIs /\ DOMAIN runtime = {}
    BY DEF Init, NoRuntime, RuntimeInv, UsedIs
  <1>4. Windows(catalog) = {}
    BY <1>2, EmptyKeeps DEF Windows
  <1>5. CatalogInv
    BY <1>2, <1>3, <1>4, EmptyKeeps DEF CatalogInv, ShowsRuntime, GivenOut
  <1>6. SavedInv
    BY <1>2, EmptyKeeps DEF Init, SavedInv, Up
  <1> QED
    BY <1>1, <1>2, <1>5, <1>6 DEF DaemonInv

\* The invariant of the service, inductive: control, catalog and processes, and the record.
THEOREM DaemonHolds ==
    ASSUME NoRecordIsNone
    PROVE  Spec => []DaemonInv
  <1>1. ASSUME DaemonInv, [Next]_vars
        PROVE  DaemonInv'
    BY <1>1, ControlStep, DaemonStep DEF DaemonInv, ControlInv
  <1> QED
    BY <1>1, DaemonInit, PTL DEF Spec

\* The loop's controlling client and the service's count of attached clients agree, and
\* whoever is in control has a connection whose end is still to be reported (strukt-sessiond.rs,
\* controlling_client; service.rs, attached_clients).
THEOREM ControlIsAgreed == Spec => []ControlAgrees
  <1>1. ASSUME Init
        PROVE  ControlInv
    BY <1>1, DaemonInit DEF DaemonInv
  <1>2. ControlInv => ControlAgrees
    BY DEF ControlInv
  <1> QED
    BY <1>1, <1>2, ControlStep, PTL DEF Spec

\* The catalog shows of every pane the generation and the state of its runtime, or a stopped
\* pane if it has none: close_pane and remove_session, which look at the catalog only, look at
\* the processes (service.rs, begin_start, finish_start, tick).
THEOREM CatalogIsTrue ==
    ASSUME NoRecordIsNone
    PROVE  Spec => []CatalogShowsRuntime
  <1>1. ASSUME DaemonInv
        PROVE  CatalogShowsRuntime
    <2>1. /\ DOMAIN runtime \subseteq PanesIn(catalog)
          /\ \A w \in Windows(catalog) : \A p \in DOMAIN w.panes : w.panes[p] = Shown(p)
      BY <1>1 DEF DaemonInv, CatalogInv, ShowsRuntime
    <2>2. ASSUME NEW p \in PanesIn(catalog)
          PROVE  PaneOf(catalog, p) = Shown(p)
      <3>1. \E w \in Windows(catalog) : p \in DOMAIN w.panes
        BY PanesAre
      <3>2. WindowOf(catalog, p) \in Windows(catalog) /\ p \in DOMAIN WindowOf(catalog, p).panes
        BY <3>1 DEF WindowOf
      <3> QED
        BY <2>1, <3>2 DEF PaneOf
    <2> QED
      BY <2>1, <2>2 DEF CatalogShowsRuntime, Shown
  <1> QED
    BY <1>1, DaemonHolds, PTL

\* Outside of a handler and its save the record on disk has the structure of the catalog: a
\* service that is killed takes nothing with it that a client was told to be done
\* (strukt-sessiond.rs, persist_if_dirty before the answer).
THEOREM AcknowledgedIsSaved ==
    ASSUME NoRecordIsNone
    PROVE  Spec => []AcknowledgedIsOnDisk
  <1>1. DaemonInv => AcknowledgedIsOnDisk
    BY DEF DaemonInv, SavedInv, Stored, AcknowledgedIsOnDisk
  <1> QED
    BY <1>1, DaemonHolds, PTL

\* Whatever is created, split, duplicated, closed or removed, no process that the service holds
\* ends with it, although apply_catalog_mutation discards the runtime of what was removed.
THEOREM ProcessesSurviveRearranging ==
    ASSUME NoRecordIsNone
    PROVE  Spec => RearrangingKeepsProcesses
  <1>1. ASSUME DaemonInv, [Next]_vars
        PROVE  [(Up /\ Up' /\ PanesIn(catalog) # PanesIn(catalog')) => Held \subseteq Held']_vars
    BY <1>1, DaemonStep DEF DaemonInv, ControlInv
  <1> QED
    BY <1>1, DaemonHolds, PTL DEF Spec, RearrangingKeepsProcesses
=============================================================================
