----------------------------- MODULE RevisionSync -----------------------------
(***************************************************************************)
(* How an open board learns of changes made elsewhere: the revision of the *)
(* cloud database and its broadcast (cloud/src/index.mjs), the sockets of  *)
(* the hub and of the local companion (server/app.mjs, upgrade), and the   *)
(* client in the browser (web/src/revisionPolling.mjs), which either polls *)
(* the revision or is pushed it and checks it once for each connection.    *)
(*                                                                         *)
(* A push may be late, overtaken or lost, a check may be answered after    *)
(* the push it raced, and sockets break at any stage.                      *)
(***************************************************************************)
EXTENDS Integers, Sequences, SequencesExt

CONSTANT MaxRevision  \* bound: changes ever committed
ASSUME RevisionAssumption == MaxRevision \in Nat \ {0}

Revisions == 0 .. MaxRevision

VARIABLES
  \* cloud worker
  rev,        \* global_revision
  due,        \* the changes whose broadcast is still to be made
  lost,       \* history: the changes whose broadcast failed
  \* the connection
  link,       \* how far the current socket is; `ready' once onopen has run,
              \* `dead' once it broke and onclose has not run
  queue,      \* the pushes on their way through it
  \* client
  transport,  \* "poll" or "websocket", as the metadata of the board says
  running,
  known,      \* the client's `revision'
  check,      \* the request for the revision: its state, what the server read and
              \* whether it belongs to the current socket
  timer,      \* a reconnect is scheduled
  live,       \* the connection is shown as live
  \* view
  viewed      \* a revision the data of the view is at least as new as

cloud  == <<rev, due, lost>>
socket == <<link, queue>>
client == <<transport, running, timer>>
vars == <<rev, due, lost, link, queue, transport, running, known, check, timer, live, viewed>>

NoCheck == [state |-> "none", value |-> 0, current |-> FALSE]

Init ==
  /\ rev \in Revisions /\ due = {} /\ lost = {}
  /\ link = "none" /\ queue = <<>>
  /\ transport \in {"poll", "websocket"}
  /\ running = FALSE /\ known = 0 /\ check = NoCheck /\ timer = FALSE /\ live = FALSE
  /\ viewed = 0

-----------------------------------------------------------------------------
(* The cloud *)

\* A request that changes the board is answered, and its broadcast begun.
Commit ==
  /\ rev < MaxRevision
  /\ rev' = rev + 1
  /\ due' = due \cup {rev + 1}
  /\ UNCHANGED <<lost, socket, client, known, check, live, viewed>>

\* The hub sends what the request read after its own change to each socket it has
\* accepted; broadcasts of different requests overtake each other.
Broadcast(n, read) ==
  /\ n \in due /\ read \in n .. rev
  /\ due' = due \ {n}
  /\ queue' = IF link \in {"attached", "open", "ready"} THEN Append(queue, read) ELSE queue
  /\ UNCHANGED <<rev, lost, link, client, known, check, live, viewed>>

\* waitUntil only logs a broadcast that failed.
BroadcastFails(n) ==
  /\ n \in due
  /\ due' = due \ {n} /\ lost' = lost \cup {n}
  /\ UNCHANGED <<rev, socket, client, known, check, live, viewed>>

-----------------------------------------------------------------------------
(* The socket *)

\* The hub accepts the socket of the companion, which keeps what is pushed ...
Attach ==
  /\ link = "dialing" /\ link' = "attached"
  /\ UNCHANGED <<cloud, queue, client, known, check, live, viewed>>

\* ... until the socket of the browser is upgraded (pendingMessages).
Upgrade ==
  /\ link = "attached" /\ link' = "open"
  /\ UNCHANGED <<cloud, queue, client, known, check, live, viewed>>

\* Either half breaks; the companion closes the other one.
Break ==
  /\ link \in {"dialing", "attached", "open", "ready"}
  /\ link' = "dead" /\ queue' = <<>>
  /\ UNCHANGED <<cloud, client, known, check, live, viewed>>

-----------------------------------------------------------------------------
(* The client *)

Larger(a, b) == IF a >= b THEN a ELSE b

\* A fault: the revision is raised before it is compared
RaiseFirst(v) == known' = Larger(known, v) /\ viewed' = IF v > known' THEN rev ELSE viewed

\* Only a revision that is news makes the view load its data again.
Learn(v) ==
  /\ known' = Larger(known, v)
  /\ viewed' = IF v > known THEN rev ELSE viewed

Asked == [state |-> "sent", value |-> 0, current |-> transport = "websocket"]

Start ==
  /\ ~running /\ running' = TRUE
  /\ IF transport = "websocket"
       THEN link' = "dialing" /\ live' = FALSE /\ UNCHANGED check
       ELSE /\ check' = IF check = NoCheck THEN Asked ELSE check
            /\ UNCHANGED <<link, live>>
  /\ UNCHANGED <<cloud, queue, transport, known, timer, viewed>>

Stop ==
  /\ running /\ running' = FALSE
  /\ timer' = FALSE
  /\ link' = "none" /\ queue' = <<>>
  /\ check' = [check EXCEPT !.current = FALSE]
  /\ UNCHANGED <<cloud, transport, known, live, viewed>>

\* The interval of the poller: nothing while a request is pending
Poll ==
  /\ transport = "poll" /\ running /\ check = NoCheck
  /\ check' = Asked
  /\ UNCHANGED <<cloud, socket, client, known, live, viewed>>

\* A fault: a socket is live from the moment it opens
LiveAtOnce ==
  /\ link = "open" /\ link' = "ready" /\ live' = TRUE
  /\ check' = IF check = NoCheck THEN Asked ELSE check

\* onopen: a socket that cannot check, because an earlier socket's request is
\* still pending, is given up (4000).
OnOpen ==
  /\ link = "open"
  /\ \/ check = NoCheck /\ check' = Asked /\ link' = "ready"
     \/ check # NoCheck /\ link' = "dead" /\ UNCHANGED check
  /\ UNCHANGED live

Opened ==
  /\ OnOpen
  /\ queue' = IF link' = "dead" THEN <<>> ELSE queue
  /\ UNCHANGED <<cloud, client, known, viewed>>

\* The server reads the revision for the request.
CheckRead ==
  /\ check.state = "sent"
  /\ check' = [check EXCEPT !.state = "read", !.value = rev]
  /\ UNCHANGED <<cloud, socket, client, known, live, viewed>>

\* A stopped client ignores the answer.
Take(v) == IF running THEN Learn(v) ELSE UNCHANGED <<known, viewed>>

CheckAnswered ==
  /\ check.state = "read"
  /\ check' = NoCheck
  /\ Take(check.value)
  /\ live' = (live \/ (running /\ check.current))
  /\ UNCHANGED <<cloud, socket, client>>

\* A fault: the socket stays open without a check
KeepSocket == UNCHANGED <<link, queue>>

\* A socket whose check failed is given up too.
GiveUp ==
  IF check.current /\ running /\ link # "dead"
    THEN link' = "dead" /\ queue' = <<>> ELSE UNCHANGED socket

\* A fault: a request that failed counts as pending
StillPending == check' = [check EXCEPT !.state = "failed"]

Released == check' = NoCheck

\* The request fails or is aborted.
CheckFailed ==
  /\ check.state # "none"
  /\ GiveUp
  /\ Released
  /\ UNCHANGED <<cloud, client, known, live, viewed>>

OnMessage ==
  /\ link = "ready" /\ queue # <<>>
  /\ queue' = Tail(queue)
  /\ Learn(Head(queue))
  /\ UNCHANGED <<cloud, link, client, check, live>>

OnClose ==
  /\ link = "dead" /\ link' = "none"
  /\ live' = FALSE /\ timer' = TRUE
  /\ check' = [check EXCEPT !.current = FALSE]
  /\ UNCHANGED <<cloud, queue, transport, running, known, viewed>>

Reconnect ==
  /\ timer /\ timer' = FALSE
  /\ link' = "dialing" /\ live' = FALSE
  /\ UNCHANGED <<cloud, queue, transport, running, known, check, viewed>>

-----------------------------------------------------------------------------
Next ==
  \/ Commit \/ Attach \/ Upgrade \/ Break
  \/ \E n \in Revisions :
       BroadcastFails(n) \/ \E read \in Revisions : Broadcast(n, read)
  \/ Start \/ Stop \/ Poll \/ Opened \/ OnMessage \/ OnClose \/ Reconnect
  \/ CheckRead \/ CheckAnswered \/ CheckFailed

Spec == Init /\ [][Next]_vars

\* The browser runs its events and timers.  Connections and requests do not fail
\* for ever: the next stage of a socket or of a request that comes within reach
\* again and again is reached once, the answer for the current socket included.
FairSpec ==
  /\ Spec
  /\ WF_vars(OnClose) /\ WF_vars(Reconnect) /\ WF_vars(Poll)
  /\ SF_vars(Attach) /\ SF_vars(Upgrade) /\ SF_vars(Opened)
  /\ SF_vars(CheckRead) /\ SF_vars(CheckAnswered)
  /\ SF_vars(CheckRead /\ check.current) /\ SF_vars(CheckAnswered /\ check.current)

-----------------------------------------------------------------------------
(* Properties *)

TypeOK ==
  /\ rev \in Revisions /\ due \subseteq Revisions /\ lost \subseteq Revisions
  /\ link \in {"none", "dialing", "attached", "open", "ready", "dead"}
  /\ queue \in Seq(Revisions)
  /\ transport \in {"poll", "websocket"} /\ running \in BOOLEAN
  /\ known \in Revisions
  /\ check \in [state : {"none", "sent", "read"}, value : Revisions, current : BOOLEAN]
  /\ timer \in BOOLEAN /\ live \in BOOLEAN
  /\ viewed \in Revisions

\* A board shown as live is not behind: the newest change is known, or its push is
\* still to be made or on its way.  (A push that failed is made up for by the next
\* one or by the next connection.)
LiveIsCurrent ==
  live /\ link = "ready" =>
    known >= rev \/ rev \in lost \cup due \/ Contains(queue, rev)

\* The data of the view is as new as the revision the client counts from: a check
\* or a push that is skipped as old news was already shown.
ViewIsKnown == viewed >= known

\* An answer that comes after a newer push does not turn the client back.
KnownGrows == [][known' >= known]_known

\* A board that was left is not loaded again by what was in flight.
StoppedLoadsNothing == [][~running => viewed' = viewed]_viewed

\* A client that is not stopped gets a live connection in the end: each failed
\* check, each check an older one is in the way of, leads to another attempt.
GoesLive ==
  transport = "websocket" /\ running ~> live \/ ~running

\* A polling client learns of every change.
PollCatchesUp ==
  \A n \in Revisions :
    transport = "poll" /\ running /\ rev >= n ~> known >= n \/ ~running
=============================================================================
