---------------------------- MODULE CodexConnection ----------------------------
(***************************************************************************)
(* The connection to the Codex app-server (server/codex-app-server.mjs): a *)
(* child process that is spawned when it is first needed and again after   *)
(* it died, and requests that are answered on its standard output, time    *)
(* out, or are rejected with the child.  The operators below are the       *)
(* methods of the class; the component that makes the requests (CodexTurns)*)
(* joins them to its own steps.                                            *)
(*                                                                         *)
(* A settled request is `resolved' or `rejected' until the code behind its *)
(* await has run: lines read in one chunk, and the news of the end of the  *)
(* child, are handled before that code.                                    *)
(***************************************************************************)
EXTENDS Integers, Sequences, FiniteSets

CONSTANTS
  MaxChildren,  \* bound: processes ever spawned
  MaxRequests   \* bound: requests ever made
ASSUME ConnectionAssumption == MaxChildren \in Nat \ {0} /\ MaxRequests \in Nat \ {0}

Children == 1 .. MaxChildren
Requests == 1 .. MaxRequests

VARIABLES
  child,     \* the current child, 0 when there is none
  starting,  \* the child whose handshake is not over, 0 when there is none
  closing,
  proc,      \* `none', `up' or `gone' (its end was handled)
  request,   \* [Requests -> [state, child, method, turn]]; `turn' is an argument
             \* or the result
  inbox,     \* the requests written to a child that it has not handled
  out        \* what a child has written and nobody has read

connection == <<child, starting, closing, proc, request, inbox, out>>

Settled == {"resolved", "rejected"}
NoRequest == [state |-> "free", child |-> 0, method |-> "none", turn |-> 0]

ConnectionInit ==
  /\ child = 0 /\ starting = 0 /\ closing = FALSE
  /\ proc = [c \in Children |-> "none"]
  /\ request = [i \in Requests |-> NoRequest]
  /\ inbox = [c \in Children |-> {}]
  /\ out = [c \in Children |-> <<>>]

\* Code behind an await is ready to run: it runs before any other event.
Continues == \E i \in Requests : request[i].state \in Settled

Unused(i) == request[i].state = "free" /\ \A j \in Requests : j < i => request[j].state # "free"
NextChild(c) == proc[c] = "none" /\ \A d \in Children : d < c => proc[d] # "none"

\* The rows after request i has become x, and after the code behind j has run (0:
\* behind no request)
Request(i, j, x) ==
  request' = [k \in Requests |-> IF k = i THEN x
                                 ELSE IF k = j THEN [request[k] EXCEPT !.state = "done"]
                                 ELSE request[k]]

\* #ensureStarted: the child can be written to at once
Started == child # 0 /\ starting = 0

\* request: sent to the child, or once the handshake with it is over.
Ask(i, j, method, turn) ==
  LET asked(state, c) == [state |-> state, child |-> c, method |-> method, turn |-> turn] IN
  /\ Unused(i)
  /\ \/ /\ closing /\ Request(i, j, asked("rejected", 0))
        /\ UNCHANGED <<child, starting, proc, inbox>>
     \/ /\ ~closing /\ Started
        /\ Request(i, j, asked("sent", child))
        /\ inbox' = [inbox EXCEPT ![child] = @ \cup {i}]
        /\ UNCHANGED <<child, starting, proc>>
     \/ /\ ~closing /\ starting # 0
        /\ Request(i, j, asked("queued", starting))
        /\ UNCHANGED <<child, starting, proc, inbox>>
     \/ /\ ~closing /\ child = 0
        /\ \/ \E c \in Children :
                /\ NextChild(c)
                /\ child' = c /\ starting' = c
                /\ proc' = [proc EXCEPT ![c] = "up"]
                /\ Request(i, j, asked("queued", c))
           \/ Request(i, j, asked("rejected", 0)) /\ UNCHANGED <<child, starting, proc>>
        /\ UNCHANGED inbox
  /\ UNCHANGED <<closing, out>>

\* The code behind request j has run, and asked for nothing more.
Done(j) ==
  /\ request' = [request EXCEPT ![j].state = "done"]
  /\ UNCHANGED <<child, starting, closing, proc, inbox, out>>

\* The child answers `initialize', or refuses it, or not in time: the child is
\* kept, the requests that waited for it are made or fail.
Handshake(ok) ==
  LET waiting == {i \in Requests : request[i].state = "queued" /\ request[i].child = starting} IN
  /\ starting # 0
  /\ starting' = 0
  /\ request' = [i \in Requests |->
       IF i \in waiting THEN [request[i] EXCEPT !.state = IF ok THEN "sent" ELSE "rejected"]
       ELSE request[i]]
  /\ inbox' = IF ok THEN [inbox EXCEPT ![starting] = @ \cup waiting] ELSE inbox
  /\ UNCHANGED <<child, closing, proc, out>>

TimesOut(i) ==
  /\ request[i].state = "sent"
  /\ request' = [request EXCEPT ![i].state = "rejected"]
  /\ UNCHANGED <<child, starting, closing, proc, inbox, out>>

\* #rejectPending, and the start that the queued requests wait for
RejectPending(c) ==
  request' = [i \in Requests |->
    IF request[i].state \in {"queued", "sent"} /\ request[i].child = c
      THEN [request[i] EXCEPT !.state = "rejected"] ELSE request[i]]

\* this.starting after the end of the child
NoStart == 0

\* #handleExit for the current child; what it wrote is not read any more.
Exit ==
  /\ child # 0
  /\ child' = 0 /\ starting' = NoStart
  /\ proc' = [proc EXCEPT ![child] = "gone"]
  /\ RejectPending(child)
  /\ inbox' = [inbox EXCEPT ![child] = {}]
  /\ out' = [out EXCEPT ![child] = <<>>]

Closes == ~closing /\ closing' = TRUE /\ (Exit \/ (child = 0 /\ UNCHANGED <<child, starting,
                                                     proc, request, inbox, out>>))

\* What a child writes: the answer to a request, or news of a turn
Answer(i, ok, turn) == [kind |-> IF ok THEN "result" ELSE "error", id |-> i, turn |-> turn]
News(kind, turn) == [kind |-> kind, id |-> 0, turn |-> turn]

\* The child handles a request, or does something of its own (i = 0), and writes
\* the messages m.
Writes(c, i, m) ==
  /\ proc[c] = "up"
  /\ inbox' = [inbox EXCEPT ![c] = @ \ {i}]
  /\ out' = [out EXCEPT ![c] = @ \o m]
  /\ UNCHANGED <<child, starting, closing, proc, request>>

\* The next line of the current child
Reads(m) == child # 0 /\ out[child] # <<>> /\ m = Head(out[child])
Read == out' = [out EXCEPT ![child] = Tail(@)]

\* An answer belongs to a request that is still waiting for it.
Takes(m) == request[m.id].state = "sent" /\ request[m.id].child = child

\* #handleMessage: an answer
ReadAnswer(m) ==
  /\ Reads(m) /\ m.kind \in {"result", "error"}
  /\ request' = IF Takes(m)
       THEN [request EXCEPT ![m.id].state = IF m.kind = "result" THEN "resolved" ELSE "rejected",
                            ![m.id].turn = m.turn]
       ELSE request
  /\ Read
  /\ UNCHANGED <<child, starting, closing, proc, inbox>>

\* #handleMessage: a notification, given to the listeners
ReadNews(m) ==
  /\ Reads(m) /\ m.kind \in {"started", "completed"}
  /\ Read
  /\ UNCHANGED <<child, starting, closing, proc, request, inbox>>
=============================================================================
