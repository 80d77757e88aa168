------------------------------ MODULE CodexTurns ------------------------------
(***************************************************************************)
(* The Codex provider of the run service (server/runs/codex-app.mjs) on top *)
(* of the connection to its app-server, for one Codex thread: a run starts *)
(* it, its follow-ups and the runs that continue it start turns in it, and *)
(* stops interrupt them.  The provider follows a turn from what it reads;  *)
(* the turns of the process are the truth about it.                        *)
(***************************************************************************)
EXTENDS CodexConnection

CONSTANTS
  Runs,      \* the runs of the thread, numbered; the first one starts it
  MaxTurns   \* bound: turns ever started
ASSUME TurnsAssumption == Runs \subseteq Nat \ {0} /\ 1 \in Runs /\ MaxTurns \in Nat \ {0}

Turns == 1 .. MaxTurns

VARIABLES
  run,     \* what the provider keeps of each run: `runs', and states that a call
           \* still holds when they have left the map (~tracked); `row' is the turn
           \* that its row names, 0 when the row does not know the thread either
  bound,   \* runByThread: the run the thread is bound to, 0 when there is none
  loaded,  \* loadedThreads: the child the thread was loaded in, 0 for none
  job,     \* the await each start or follow-up is at
  stop,    \* the stop request of each run
  turn,    \* the turns of the process
  ended,   \* history: how often the end of a turn was reported
  late,    \* history: some request timed out
  crossed  \* history: a message was accepted before the turn of an earlier one was begun

provider == <<run, bound, loaded, job, stop>>
truth    == <<turn, ended>>
vars == <<child, starting, closing, proc, request, inbox, out,
          run, bound, loaded, job, stop, turn, ended, late, crossed>>
history == <<late, crossed>>

NoRun == [tracked |-> FALSE, phase |-> "idle", child |-> 0, turn |-> 0, last |-> 0, row |-> 0]
NoJob == [step |-> "none", id |-> 0, starts |-> FALSE]
NoStop == [step |-> "none", id |-> 0, on |-> 0, turn |-> 0, stopped |-> FALSE]

\* The thread is new, or run 1 had a turn of it before the board was restarted.
Init ==
  /\ ConnectionInit
  /\ \E known \in {{}, {1}} :
       /\ run = [r \in Runs |-> IF r \in known THEN [NoRun EXCEPT !.row = 1] ELSE NoRun]
       /\ turn = [k \in Turns |-> IF k \in known THEN "done" ELSE "none"]
  /\ bound = 0 /\ loaded = 0
  /\ job = [r \in Runs |-> NoJob]
  /\ stop = [r \in Runs |-> NoStop]
  /\ ended = [k \in Turns |-> 0]
  /\ late = FALSE /\ crossed = FALSE

-----------------------------------------------------------------------------
(* Waiters of stop requests *)

\* A stop request that was answered
Over(stopped) == [NoStop EXCEPT !.stopped = stopped]

\* settleStopWaiters: the requests in S that wait for a turn of run r are told so.
Told(S, r, stopped) ==
  [q \in Runs |-> IF S[q].step = "wait" /\ S[q].on = r THEN Over(stopped)
                  ELSE IF S[q].step = "interrupt" /\ S[q].on = r
                    THEN [S[q] EXCEPT !.step = "told", !.stopped = stopped]
                  ELSE S[q]]

\* markRunning, and the row that its update writes
MarkRunning(R, r, k) == [R EXCEPT ![r] = [@ EXCEPT !.turn = k, !.phase = "running", !.row = k]]

\* A fault: turn/start is answered after the end of its turn
AnsweredRunning(r, k) == MarkRunning(run, r, k)

\* startTurnFor, the answer: its turn may have ended before.
Begun(r, k) == IF k = run[r].last THEN run ELSE MarkRunning(run, r, k)

-----------------------------------------------------------------------------
(* Calls of the run service *)

\* Bound: n requests are left beside the turns that calls in progress still start.
Spare(n) == Cardinality({i \in Requests : request[i].state = "free"})
              >= n + Cardinality({r \in Runs : job[r].step \in {"thread", "resume"}})

\* start: the thread is asked for first.
Start(i) ==
  /\ Spare(2)
  /\ (\A r \in Runs : run[r].row = 0) /\ job[1] = NoJob /\ ~run[1].tracked /\ request[1] = NoRequest
  /\ run' = [run EXCEPT ![1] = [NoRun EXCEPT !.tracked = TRUE, !.phase = "turn-starting"]]
  /\ job' = [job EXCEPT ![1] = [step |-> "thread", id |-> i, starts |-> TRUE]]
  /\ Ask(i, 0, "thread/start", 0)
  /\ UNCHANGED <<bound, loaded, stop, truth, history>>

\* A fault: nobody looks at what another run does in the thread
NeverBusy(r) == ~run[r].tracked \/ run[r].phase = "idle"

\* sendFollowup refuses a message while a turn of the thread is in flight.
ThreadIdle(r) ==
  /\ bound \notin {0, r} => run[bound].phase = "idle"
  /\ run[r].tracked => run[r].phase = "idle"

\* bindThread: a run that had the thread is not followed any more.
Bound(R, r) == IF bound \in {0, r} THEN R ELSE [R EXCEPT ![bound].tracked = FALSE]
BoundStops(r) == IF bound \in {0, r} THEN stop ELSE Told(stop, bound, TRUE)

\* The turn of an earlier message is not begun: the thread is still resumed for it,
\* or nobody waits for its turn/start any more, which the child has not handled.
Ahead(r) ==
  \/ \E o \in Runs \ {r} : job[o].step = "resume"
  \/ \E c \in Children : \E i \in inbox[c] : request[i].method = "turn/start"

\* sendFollowup (queue): turn/start, after thread/resume when this child has not
\* loaded the thread.  A run that continues another one got that one's row.
Followup(r, q, i) ==
  LET b == IF bound = 0 THEN NoRun ELSE run[bound]
      row == run[IF run[r].row = 0 THEN q ELSE r].row
      fresh == [NoRun EXCEPT !.tracked = TRUE, !.child = b.child, !.turn = row, !.last = b.last,
                             !.row = row]
      mine == IF run[r].tracked THEN run[r] ELSE fresh
      isLoaded == loaded # 0 /\ loaded = child
      step == IF isLoaded THEN "turn" ELSE "resume" IN
  /\ Spare(IF isLoaded THEN 1 ELSE 2)
  /\ row # 0 /\ job[r] = NoJob /\ ~closing
  /\ ThreadIdle(r)
  /\ bound' = r
  /\ stop' = BoundStops(r)
  /\ run' = [Bound(run, r) EXCEPT ![r] =
               IF isLoaded THEN [mine EXCEPT !.phase = "turn-starting"] ELSE mine]
  /\ job' = [job EXCEPT ![r] = [step |-> step, id |-> i, starts |-> FALSE]]
  /\ Ask(i, 0, IF isLoaded THEN "turn/start" ELSE "thread/resume", 0)
  /\ crossed' = (crossed \/ Ahead(r))
  /\ UNCHANGED <<loaded, truth, late>>

\* forgetRun
Forgotten(R, r) == [R EXCEPT ![r].tracked = FALSE]
Unbound(r) == IF run[r].tracked /\ bound = r THEN 0 ELSE bound

\* The answer to thread/start or thread/resume: the turn is started.
ThreadAnswered(r, i) ==
  LET j == job[r].id IN
  /\ job[r].step \in {"thread", "resume"} /\ request[j].state = "resolved"
  /\ job[r].starts => run[r].tracked
  /\ bound' = IF job[r].starts THEN r ELSE bound
  /\ loaded' = child
  /\ run' = [run EXCEPT ![r].phase = "turn-starting", ![r].child = child]
  /\ job' = [job EXCEPT ![r] = [@ EXCEPT !.step = "turn", !.id = i]]
  /\ Ask(i, j, "turn/start", 0)
  /\ UNCHANGED <<stop, truth, history>>

\* The answer to turn/start
TurnAnswered(r) ==
  LET j == job[r].id IN
  /\ job[r].step = "turn" /\ request[j].state = "resolved"
  /\ run' = Begun(r, request[j].turn)
  /\ job' = [job EXCEPT ![r] = NoJob]
  /\ Done(j)
  /\ UNCHANGED <<bound, loaded, stop, truth, history>>

\* Any of the three is rejected: a start is forgotten, a follow-up undelivered.
JobFails(r) ==
  LET j == job[r].id
      idle == [run EXCEPT ![r].phase = IF job[r].step = "turn" /\ @ = "turn-starting"
                                         THEN "idle" ELSE @] IN
  /\ job[r].step # "none"
  /\ \/ request[j].state = "rejected"
     \/ request[j].state = "resolved" /\ job[r].starts /\ ~run[r].tracked
  /\ job' = [job EXCEPT ![r] = NoJob]
  /\ Done(j)
  /\ IF job[r].starts
       THEN run' = Forgotten(idle, r) /\ bound' = Unbound(r) /\ stop' = Told(stop, r, FALSE)
       ELSE run' = idle /\ UNCHANGED <<bound, stop>>
  /\ UNCHANGED <<loaded, truth, history>>

\* stateForRun
StateOf(r) == IF run[r].tracked THEN r ELSE bound

\* stop, when there is a turn to interrupt: the waiter is registered before the
\* interrupt is sent.  A run whose turn is not running is answered at once.
Stop(r, i) ==
  LET s == StateOf(r) IN
  /\ Spare(1)
  /\ stop[r].step = "none" /\ s # 0 /\ ~closing
  /\ run[s].phase = "running"
  /\ stop' = [stop EXCEPT ![r] = [step |-> "interrupt", id |-> i, on |-> s,
                                  turn |-> run[s].turn, stopped |-> FALSE]]
  /\ Ask(i, 0, "turn/interrupt", run[s].turn)
  /\ UNCHANGED <<run, bound, loaded, job, truth, history>>

\* A fault: the answer to turn/interrupt counts as the end of the turn
InterruptIsEnd(r) == stop' = [stop EXCEPT ![r] = Over(TRUE)]

\* The interrupt is sent: the end of the turn is waited for.
AwaitEnd(r) == stop' = [stop EXCEPT ![r].step = "wait"]

InterruptAnswered(r) ==
  LET j == stop[r].id
      over == run[stop[r].on].phase = "idle" IN
  /\ stop[r].step \in {"interrupt", "told"} /\ request[j].state \in Settled
  /\ \/ stop[r].step = "told" /\ stop' = [stop EXCEPT ![r] = Over(@.stopped)]
     \/ stop[r].step = "interrupt" /\ request[j].state = "resolved" /\ AwaitEnd(r)
     \/ /\ stop[r].step = "interrupt" /\ request[j].state = "rejected"
        /\ stop' = [stop EXCEPT ![r] = Over(over)]
  /\ Done(j)
  /\ UNCHANGED <<run, bound, loaded, job, truth, history>>

\* A fault: the wait for the end of the turn has no timeout
WaitsOn(r) == FALSE

\* stopTimeoutMs is over.
StopExpired(r) == stop[r].step = "wait"

StopTimesOut(r) ==
  /\ StopExpired(r)
  /\ stop' = [stop EXCEPT ![r] = Over(FALSE)]
  /\ UNCHANGED <<connection, run, bound, loaded, job, truth, history>>

\* close: an idle run is forgotten.  It is called for a card that is archived,
\* after its start and its deliveries were waited for.
Close(r) ==
  LET s == StateOf(r) IN
  /\ \A q \in Runs : job[q] = NoJob
  /\ s # 0 /\ run[s].phase = "idle" /\ run[s].tracked
  /\ run' = Forgotten(run, s) /\ bound' = Unbound(s)
  /\ stop' = Told(stop, s, FALSE)
  /\ UNCHANGED <<connection, loaded, job, truth, history>>

-----------------------------------------------------------------------------
(* What the provider reads *)

\* handleNotification: the run the thread is bound to hears what the child writes,
\* unless it was in another child that it had its last turn.
Hears == bound # 0 /\ run[bound].child \in {0, child}

\* handleNotification: turn/started
ReadStarted(m) ==
  /\ ReadNews(m) /\ m.kind = "started"
  /\ run' = IF Hears /\ m.turn # run[bound].last THEN MarkRunning(run, bound, m.turn) ELSE run
  /\ UNCHANGED <<bound, loaded, job, stop, truth, history>>

EndTurn(R, r, k) == [R EXCEPT ![r] = [@ EXCEPT !.phase = "idle", !.turn = k, !.last = k]]
Reported(k) == [ended EXCEPT ![k] = @ + 1]

\* handleNotification: turn/completed.  A turn that has ended, or is not the one
\* that is followed, is left alone.
ReadCompleted(m) ==
  LET known == Hears /\ m.turn # run[bound].last /\ run[bound].turn \in {0, m.turn} IN
  /\ ReadNews(m) /\ m.kind = "completed"
  /\ IF known
       THEN /\ run' = EndTurn(run, bound, m.turn)
            /\ stop' = Told(stop, bound, TRUE)
            /\ ended' = Reported(m.turn)
       ELSE UNCHANGED <<run, stop, ended>>
  /\ UNCHANGED <<bound, loaded, job, turn, history>>

\* A fault: every run of the provider is told
EveryRun(r) == run[r].tracked /\ run[r].turn # 0

\* handleTerminated looks for the runs with a turn in the child.
Interrupted(r) == run[r].tracked /\ run[r].phase = "running" /\ run[r].child \in {0, child}

\* The child ends: its turns are over, and the runs that had one are told so.
Terminated ==
  LET hit == {r \in Runs : Interrupted(r)} IN
  /\ turn' = [k \in Turns |-> IF turn[k] = "busy" THEN "done" ELSE turn[k]]
  /\ loaded' = 0
  /\ run' = [r \in Runs |-> IF r \in hit
               THEN [run[r] EXCEPT !.phase = "idle", !.last = run[r].turn] ELSE run[r]]
  /\ stop' = [q \in Runs |-> IF stop[q].on \in hit
                               THEN Told(stop, stop[q].on, TRUE)[q] ELSE stop[q]]
  /\ ended' = [k \in Turns |-> ended[k] + Cardinality({r \in hit : run[r].turn = k})]

ChildExits ==
  /\ Exit /\ Terminated
  /\ UNCHANGED <<closing, bound, job, history>>

\* dispose: the provider forgets everything and closes the connection.
Dispose ==
  /\ Closes
  /\ turn' = [k \in Turns |-> IF turn[k] = "busy" THEN "done" ELSE turn[k]]
  /\ run' = [r \in Runs |-> [run[r] EXCEPT !.tracked = FALSE]]
  /\ bound' = 0 /\ loaded' = 0
  /\ stop' = [q \in Runs |-> Told(stop, stop[q].on, FALSE)[q]]
  /\ UNCHANGED <<job, ended, history>>

-----------------------------------------------------------------------------
(* The process *)

Busy == \E k \in Turns : turn[k] = "busy"
NextTurn(k) == turn[k] = "none" /\ \A l \in Turns : l < k => turn[l] # "none"

\* The app-server handles a request, also one that nobody waits for any more.
\* News of a turn and the answer that made it are written in either order.
ChildHandles(c, i) ==
  LET method == request[i].method
      k == request[i].turn IN
  /\ i \in inbox[c]
  /\ \/ Writes(c, i, <<Answer(i, FALSE, 0)>>) /\ UNCHANGED turn
     \/ /\ method \in {"thread/start", "thread/resume"}
        /\ Writes(c, i, <<Answer(i, TRUE, 0)>>) /\ UNCHANGED turn
     \/ /\ method = "turn/start" /\ ~Busy
        /\ \E n \in Turns :
             /\ NextTurn(n)
             /\ \/ /\ turn' = [turn EXCEPT ![n] = "busy"]
                   /\ \/ Writes(c, i, <<News("started", n), Answer(i, TRUE, n)>>)
                      \/ Writes(c, i, <<Answer(i, TRUE, n), News("started", n)>>)
                \/ /\ turn' = [turn EXCEPT ![n] = "done"]
                   /\ Writes(c, i, <<News("started", n), News("completed", n), Answer(i, TRUE, n)>>)
     \/ /\ method = "turn/interrupt" /\ turn[k] = "busy"
        /\ turn' = [turn EXCEPT ![k] = "done"]
        /\ \/ Writes(c, i, <<Answer(i, TRUE, 0), News("completed", k)>>)
           \/ Writes(c, i, <<News("completed", k), Answer(i, TRUE, 0)>>)
     \/ /\ method = "turn/interrupt" /\ turn[k] = "busy"
        /\ Writes(c, i, <<Answer(i, TRUE, 0)>>) /\ UNCHANGED turn
  /\ UNCHANGED <<provider, ended, history>>

TurnEnds(c, k) ==
  /\ turn[k] = "busy" /\ proc[c] = "up"
  /\ turn' = [turn EXCEPT ![k] = "done"]
  /\ Writes(c, 0, <<News("completed", k)>>)
  /\ UNCHANGED <<provider, ended, history>>

-----------------------------------------------------------------------------
(* The next event: code behind an await runs first, but lines of one chunk and *)
(* what the process does may come before it.                                   *)

RequestTimesOut(i) ==
  /\ TimesOut(i) /\ late' = TRUE
  /\ UNCHANGED <<provider, truth, crossed>>

HandshakeEnds(ok) == Handshake(ok) /\ UNCHANGED <<provider, truth, history>>

Line ==
  \E m \in {Head(out[c]) : c \in {d \in Children : out[d] # <<>>}} :
    \/ ReadStarted(m) \/ ReadCompleted(m)
    \/ ReadAnswer(m) /\ UNCHANGED <<provider, truth, history>>

Continuation ==
  \E r \in Runs :
    \/ \E i \in Requests : ThreadAnswered(r, i)
    \/ TurnAnswered(r) \/ JobFails(r) \/ InterruptAnswered(r)

Timeout ==
  \/ \E i \in Requests : RequestTimesOut(i)
  \/ \E r \in Runs : StopTimesOut(r)
  \/ \E ok \in BOOLEAN : HandshakeEnds(ok)

Event ==
  \/ Timeout
  \/ \E i \in Requests : Start(i)
  \/ \E r \in Runs :
       \/ \E i \in Requests : Stop(r, i) \/ \E q \in Runs : Followup(r, q, i)
       \/ Close(r)
  \/ ChildExits \/ Dispose

Child == \E c \in Children : (\E i \in Requests : ChildHandles(c, i)) \/ \E k \in Turns : TurnEnds(c, k)

Next == Line \/ Continuation \/ Child \/ (~Continues /\ Event)

Spec == Init /\ [][Next]_vars

\* Code that is ready runs, lines are read and timers go off.  Requests are bounded,
\* so code that is ready does not hold up the timers for ever.
FairSpec ==
  /\ Spec
  /\ WF_vars(Continuation)
  /\ WF_vars(Line)
  /\ WF_vars(~Continues /\ Timeout)

-----------------------------------------------------------------------------
(* Properties.  When a message is accepted before the turn of an earlier one is *)
(* begun, two turns of the thread can be on their way at once, and the provider *)
(* remembers only the last one that ended: then none of the first four holds.   *)

\* The lines that the current child has written
Lines == IF child = 0 THEN {} ELSE {out[child][n] : n \in DOMAIN out[child]}

\* A run that is shown as running has a turn, or the news of its end is on the
\* way: late answers and late news never revive a turn that has ended.
RunningIsReal ==
  ~crossed => \A r \in Runs : run[r].tracked /\ run[r].phase = "running" =>
    \/ turn[run[r].turn] = "busy"
    \/ News("completed", run[r].turn) \in Lines

\* The end of a turn is reported once, by its news or by the end of the child.
EndReportedOnce == ~crossed => \A k \in Turns : ended[k] <= 1

\* A turn works for a run that follows it, as long as no request timed out: the
\* run is running with it, or is about to be told of it.
TurnIsFollowed ==
  ~late /\ ~crossed => \A k \in Turns : turn[k] = "busy" =>
    \/ \E r \in Runs : run[r].tracked /\ run[r].phase = "running" /\ run[r].turn = k
    \/ News("started", k) \in Lines
    \/ \E i \in Requests : request[i].state = "resolved" /\ request[i].turn = k

\* Who is told that a running turn was stopped can rely on it.
StoppedHasEnded ==
  [][\A r \in Runs :
       ~crossed /\ ~stop[r].stopped /\ stop'[r].stopped
       => turn[stop[r].turn] # "busy" \/ turn'[stop[r].turn] # "busy"]_vars

\* Every call of the run service is answered: by the app-server, a timeout or the
\* end of the child, in whatever order.
CallsEnd ==
  \A r \in Runs : job[r].step # "none" \/ stop[r].step # "none"
                    ~> job[r].step = "none" /\ stop[r].step = "none"
=============================================================================
