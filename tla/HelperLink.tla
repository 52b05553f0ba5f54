---------------------------- MODULE HelperLink ----------------------------
(***************************************************************************)
(* The desktop's end of a remote helper: OpenSshClient and HelperClient    *)
(* (crates/strukt-remote/src/client.rs), their frames (framing.rs), the    *)
(* negotiation (protocol.rs) and the first exchange of run_helper_stdio    *)
(* (helper.rs).  The desktop holds one connection, the session surfaces    *)
(* another clone of it, and each task one more, so tasks of a former       *)
(* connection go on beside those of a new one.  A connection ends when its *)
(* last holder lets go, or when the user disconnects.                      *)
(*                                                                         *)
(* The helper's loop is module RemoteHelper; here it takes requests and    *)
(* answers them in any order.  A frame is its size and what it says.       *)
(***************************************************************************)
EXTENDS Naturals, Sequences, FiniteSets, FiniteSetsExt, SequencesExt

CONSTANTS
    Tasks,
    Nobody,
    ClientLimit, HelperLimit,   \* max_frame_bytes of the two hellos
    Sizes,                      \* sizes of requests and answers
    MaxLinks,                   \* bound: connections, the generations
    MaxLinkRequests             \* bound: requests of all connections

VARIABLES
    link,        \* each connection
    held,        \* remote_runtime: a connection, 0 if none
    sessions,    \* the connection of the session surfaces' backend
    awaited,     \* the connection whose completion the remote surfaces accept
    task         \* what each task is doing, on which connection, with which request

linkVars == <<link, held, sessions, awaited, task>>
desktop == <<held, sessions, awaited>>

Links == 1..MaxLinks
NoTask == [step |-> "idle", link |-> 0, id |-> 0]

\* child: ssh.  helper: the process on the host.  limit: of each side, 0 before they agree.
NoLink ==
    [phase |-> "none", child |-> "none", helper |-> "none", stdin |-> << >>, stdout |-> << >>,
     asked |-> {}, clientLimit |-> 0, helperLimit |-> 0, next |-> 1, owner |-> Nobody,
     ending |-> FALSE]

Holders(c) == {t \in Tasks : task[t].link = c}
\* Who else has a clone: the runtime, the sessions, a completion that is on its way, the job
\* that disconnects.
Kept(c, runtime, backend) ==
    c \in {runtime, backend} \/ link[c].phase = "made" \/ link[c].ending
Frame(size, id, from) == [size |-> size, id |-> id, generation |-> from]

LinkInit ==
    /\ link = [c \in Links |-> NoLink]
    /\ held = 0 /\ sessions = 0 /\ awaited = 0
    /\ task = [t \in Tasks |-> NoTask]

\* Intersection that takes the limits of the other side.
TheirLimit(mine, theirs) == theirs
\* ProtocolLimits::intersection, with the frame limit for all four.
Intersection(mine, theirs) == Min({mine, theirs})
-----------------------------------------------------------------------------
(* Connecting.                                                             *)

\* OpenSshClient::connect: ssh with its three pipes, a reader of stderr, and the hello.
\* A login shell may write on stdout before the helper does.
Connect(c) ==
    /\ link[c].phase = "none"
    /\ \A d \in Links : d < c => link[d].phase # "none"
    /\ \E noise \in {<< >>, <<Frame(0, 0, 0)>>} :
         link' = [link EXCEPT ![c] =
                   [link[c] EXCEPT !.phase = "hello", !.child = "running",
                                   !.helper = "starting", !.stdout = noise]]
    /\ awaited' = c
    /\ UNCHANGED <<held, sessions, task>>

\* The first part of run_helper_stdio: the helper answers with its limits, and the nonce it
\* was given.
HelperHello(c) ==
    /\ link[c].helper = "starting" /\ link[c].child = "running"
    /\ link' = [link EXCEPT ![c] =
                 [link[c] EXCEPT !.helper = "loop",
                                 !.helperLimit = Intersection(HelperLimit, ClientLimit),
                                 !.stdout = Append(@, Frame(1, 0, c))]]
    /\ UNCHANGED <<desktop, task>>

\* HelperServer::open of a root that is not there, or a process manager that fails.
HelperRefuses(c) ==
    /\ link[c].helper = "starting" /\ link[c].child = "running"
    /\ link' = [link EXCEPT ![c].helper = "ended"]
    /\ UNCHANGED <<desktop, task>>

\* Abandon that leaves ssh running.
AbandonRunning(c) == link' = [link EXCEPT ![c].phase = "failed"]
\* A handshake that fails kills ssh and waits for it.
Abandon(c) ==
    link' = [link EXCEPT ![c] =
              [link[c] EXCEPT !.phase = "failed", !.child = "exited", !.helper = "ended"]]

\* read_preface, the hello of the helper, negotiate.
IsHello(c) == link[c].stdout # << >> /\ Head(link[c].stdout) = Frame(1, 0, c)
Negotiate(c) ==
    /\ link[c].phase = "hello"
    /\ link[c].stdout # << >> \/ link[c].helper = "ended"
    /\ IF IsHello(c)
         THEN link' = [link EXCEPT ![c] =
                        [link[c] EXCEPT !.phase = "made", !.stdout = Tail(@),
                                        !.clientLimit = Intersection(ClientLimit, HelperLimit)]]
         ELSE Abandon(c)
    /\ UNCHANGED <<desktop, task>>

\* Those nobody holds any more are closed: disconnect in Drop of OpenSshClient.
Dropped(links, runtime, backend) ==
    [c \in Links |->
        IF links[c].phase = "open" /\ Holders(c) = {} /\ ~Kept(c, runtime, backend)
        THEN [links[c] EXCEPT !.phase = "closing"] ELSE links[c]]

\* RemoteConnected of a connection that was made: the one that is awaited becomes the
\* runtime, and the sessions are bound to it unless they are busy.
RemoteConnected(c) ==
    /\ link[c].phase = "made"
    /\ IF awaited = c
         THEN /\ held' = c
              /\ sessions' \in {c, sessions}
         ELSE UNCHANGED <<held, sessions>>
    /\ link' = Dropped([link EXCEPT ![c].phase = IF awaited = c THEN "open" ELSE "closing"],
                       held', sessions')
    /\ UNCHANGED <<awaited, task>>

\* RemoteConnected of one that failed leaves no runtime.
RemoteFailed(c) ==
    /\ link[c].phase = "failed" /\ awaited = c
    /\ held' = 0 /\ awaited' = 0
    /\ link' = Dropped(link, 0, sessions)
    /\ UNCHANGED <<sessions, task>>
-----------------------------------------------------------------------------
(* Requests.                                                               *)

\* A task of the desktop or of the sessions takes a clone of the connection, and the lock
\* when nobody has it.
TaskBegins(t) ==
    /\ task[t] = NoTask
    /\ \E c \in {held, sessions} \ {0} :
         task' = [task EXCEPT ![t] = [step |-> "wants", link |-> c, id |-> 0]]
    /\ UNCHANGED <<link, desktop>>

Locks(t) ==
    /\ task[t].step = "wants"
    /\ link[task[t].link].owner = Nobody
    /\ link' = [link EXCEPT ![task[t].link].owner = t]
    /\ task' = [task EXCEPT ![t].step = "locked"]
    /\ UNCHANGED desktop

Alive(c) == link[c].phase = "open" /\ link[c].child = "running" /\ link[c].helper = "loop"

\* The first half of HelperClient::request: an id, and the frame.  One that is too large is
\* not written; a pipe that is closed refuses it.
Released(c, t) == IF link[c].owner = t THEN Nobody ELSE link[c].owner
WriteRequest(t) ==
    LET c == task[t].link
        id == link[c].next
    IN /\ task[t].step = "locked"
       /\ MapThenSumSet(LAMBDA d : link[d].next - 1, Links) < MaxLinkRequests
       /\ \E size \in Sizes :
            IF size <= link[c].clientLimit /\ Alive(c)
              THEN /\ link' = [link EXCEPT ![c] =
                               [link[c] EXCEPT !.next = @ + 1,
                                               !.stdin = Append(@, Frame(size, id, c))]]
                   /\ task' = [task EXCEPT ![t] = [@ EXCEPT !.step = "reading", !.id = id]]
              ELSE /\ link' = [link EXCEPT ![c] =
                               [link[c] EXCEPT !.next = @ + 1, !.owner = Released(c, t)]]
                   /\ task' = [task EXCEPT ![t].step = "finished"]
       /\ UNCHANGED desktop

\* The second half: the next frame, which must be the answer, or the end of the stream.
ReadResponse(t) ==
    LET c == task[t].link
    IN /\ task[t].step = "reading"
       /\ link[c].stdout # << >> \/ ~Alive(c)
       /\ link' = [link EXCEPT ![c] =
                   [link[c] EXCEPT !.owner = Released(c, t),
                                   !.stdout = IF @ = << >> THEN @ ELSE Tail(@)]]
       /\ task' = [task EXCEPT ![t].step = "finished"]
       /\ UNCHANGED desktop

\* The helper's reader and its workers.  An answer that does not fit ends the helper.
HelperTakes(c) ==
    /\ Alive(c) /\ link[c].stdin # << >>
    /\ link' = [link EXCEPT ![c] =
                 [link[c] EXCEPT !.stdin = Tail(@), !.asked = @ \cup {Head(link[c].stdin).id}]]
    /\ UNCHANGED <<desktop, task>>
HelperAnswers(c) ==
    /\ Alive(c)
    /\ \E id \in link[c].asked, size \in Sizes :
         link' = [link EXCEPT ![c] =
                   IF size <= link[c].helperLimit
                     THEN [link[c] EXCEPT !.asked = @ \ {id},
                                          !.stdout = Append(@, Frame(size, id, c))]
                     ELSE [link[c] EXCEPT !.helper = "ended"]]
    /\ UNCHANGED <<desktop, task>>
-----------------------------------------------------------------------------
(* The end of a connection.                                                *)

\* The network or the host takes the helper or ssh away; ssh follows a helper that ended.
HelperDies(c) ==
    /\ link[c].helper \in {"starting", "loop"}
    /\ link' = [link EXCEPT ![c].helper = "ended"]
    /\ UNCHANGED <<desktop, task>>
ChildExits(c) ==
    /\ link[c].child = "running" /\ link[c].helper = "ended"
    /\ link' = [link EXCEPT ![c].child = "exited"]
    /\ UNCHANGED <<desktop, task>>

\* DisconnectRemote: the runtime goes to a job, which takes the lock and disconnects whoever
\* else has a clone.
DisconnectRemote ==
    /\ held # 0 \/ awaited # 0
    /\ held' = 0 /\ awaited' = 0
    /\ link' = IF held = 0 THEN link ELSE [link EXCEPT ![held].ending = TRUE]
    /\ UNCHANGED <<sessions, task>>
RuntimeDisconnect(c) ==
    /\ link[c].ending /\ link[c].owner = Nobody
    /\ link' = [link EXCEPT ![c] =
                 [link[c] EXCEPT !.ending = FALSE, !.phase = IF @ = "open" THEN "closing" ELSE @]]
    /\ UNCHANGED <<desktop, task>>
TaskEnds(t) ==
    /\ task[t].step = "finished"
    /\ task' = [task EXCEPT ![t] = NoTask]
    /\ link' = [c \in Links |->
                 IF link[c].phase = "open" /\ Holders(c) = {t} /\ ~Kept(c, held, sessions)
                 THEN [link[c] EXCEPT !.phase = "closing"] ELSE link[c]]
    /\ UNCHANGED desktop

\* disconnect: ssh exits by itself within the polls, or it is killed and polled again;
\* the reader of stderr is waited for a bounded time.
HelperClosed(c) ==
    /\ link[c].phase = "closing" /\ link[c].helper = "loop" /\ link[c].stdin = << >>
    /\ link' = [link EXCEPT ![c].helper = "ended"]
    /\ UNCHANGED <<desktop, task>>
PollExit(c) ==
    /\ link[c].phase = "closing"
    /\ link' = [link EXCEPT ![c] =
                 [link[c] EXCEPT !.phase = "closed",
                                 !.child = IF @ = "running" THEN "killed" ELSE @]]
    /\ UNCHANGED <<desktop, task>>

LinkNext ==
    \/ \E c \in Links :
         \/ Connect(c) \/ HelperHello(c) \/ HelperRefuses(c) \/ Negotiate(c)
         \/ RemoteConnected(c) \/ RemoteFailed(c) \/ RuntimeDisconnect(c)
         \/ HelperTakes(c) \/ HelperAnswers(c) \/ HelperDies(c) \/ ChildExits(c)
         \/ HelperClosed(c) \/ PollExit(c)
    \/ \E t \in Tasks :
         TaskBegins(t) \/ Locks(t) \/ WriteRequest(t) \/ ReadResponse(t) \/ TaskEnds(t)
    \/ DisconnectRemote

LinkSpec == LinkInit /\ [][LinkNext]_linkVars
-----------------------------------------------------------------------------
\* Type invariant.
LinkTypeOK ==
    /\ {held, sessions, awaited} \subseteq 0..MaxLinks
    /\ \A c \in Links :
         /\ link[c].phase \in {"none", "hello", "made", "open", "failed", "closing", "closed"}
         /\ link[c].owner \in Tasks \cup {Nobody}
         /\ \A i \in DOMAIN link[c].stdout : link[c].stdout[i].size \in Sizes \cup {0, 1}
    /\ \A t \in Tasks : task[t].step \in {"idle", "wants", "locked", "reading", "finished"}

\* The stream stays in step: the frame a task reads is the answer to what it asked, on the
\* connection it asked on, and is within the limit it reads with, whichever tasks share
\* the connection and whatever the two sides offered.
AnswersInStep ==
    \A t \in Tasks :
        LET c == link[task[t].link]
        IN task[t].step = "reading" /\ c.stdout # << >> =>
             /\ Head(c.stdout).id = task[t].id
             /\ Head(c.stdout).generation = task[t].link
             /\ \A i \in DOMAIN c.stdout : c.stdout[i].size <= c.clientLimit

\* No ssh is left behind: a handshake that failed and a connection that was closed have
\* ended theirs, one that runs has somebody to end it, the runtime, the sessions, a task, a
\* completion or a disconnect on its way, and none is closed while a task is in the middle
\* of a request.
NothingIsLeftRunning ==
    \A c \in Links :
        /\ link[c].phase \in {"failed", "closed"} => link[c].child # "running"
        /\ link[c].phase = "open" => Kept(c, held, sessions) \/ Holders(c) # {}
        /\ \A t \in Holders(c) : task[t].step = "reading" => link[c].phase = "open"
=============================================================================
