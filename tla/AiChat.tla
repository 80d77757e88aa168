-------------------------------- MODULE AiChat --------------------------------
(***************************************************************************)
(* One conversation of the AI chat (server/ai-chat.mjs): turns that run as *)
(* a process of their own (server/ai-chat-process.mjs) or as a turn of an  *)
(* app-server, the row of each turn, the directory of its attachments, the *)
(* stop button, the end of the app-server and of the board.  A handler is  *)
(* split at each await that lets other requests in.                        *)
(***************************************************************************)
EXTENDS Integers, Sequences, FiniteSets

CONSTANTS
  MaxCalls,   \* bound: requests for a turn
  MaxRuns,    \* bound: rows of ai_chat_runs
  MaxEpochs   \* bound: processes of the app-server
ASSUME AiChatAssumption ==
  MaxCalls \in Nat \ {0} /\ MaxRuns \in Nat \ {0} /\ MaxEpochs \in Nat \ {0}

Calls == 1 .. MaxCalls
Runs  == 1 .. MaxRuns
Turns == 1 .. MaxRuns
Kinds == {"cli", "composer"}

VARIABLES
  deleted,    \* the row of the conversation is gone
  remote,     \* the conversation belongs to a remote app-server
  row,        \* [Runs -> status], `none' for a row that does not exist
  active,     \* this.active: what the board keeps of a turn that runs
  call,       \* the requests for a turn: where they are and what they have read
  files,      \* the calls whose directory of attachments exists
  stop,       \* where the interrupt of each run is
  epoch,      \* the process of the app-server
  asked,      \* the runs whose turn/start the app-server has not handled
  interrupts, \* the turns whose turn/interrupt it has not handled
  turn,       \* the turns of the app-server: [state, run]
  out,        \* what it has written and nobody has read
  left        \* history: a turn may go on that nobody waits for

board   == <<deleted, row, active, call, files, stop>>
server  == <<epoch, asked, interrupts, turn, out>>
vars    == <<deleted, remote, row, active, call, files, stop,
             epoch, asked, interrupts, turn, out, left>>

NoEntry == [kind |-> "none", call |-> 0, attach |-> FALSE, turn |-> 0, child |-> 0,
            interrupted |-> FALSE]
NoCall  == [step |-> "free", kind |-> "cli", attach |-> FALSE, child |-> 0, run |-> 0]

Init ==
  /\ deleted = FALSE
  /\ remote \in BOOLEAN
  /\ row = [r \in Runs |-> "none"]
  /\ active = [r \in Runs |-> NoEntry]
  /\ call = [q \in Calls |-> NoCall]
  /\ files = {}
  /\ stop = [r \in Runs |-> "none"]
  /\ epoch = 1
  /\ asked = {} /\ interrupts = {}
  /\ turn = [k \in Turns |-> [state |-> "none", run |-> 0]]
  /\ out = <<>>
  /\ left = FALSE

-----------------------------------------------------------------------------
(* Rows and entries *)

IsActive(r) == active[r] # NoEntry

\* #threadIsActive
ThreadIsActive == \E r \in Runs : row[r] = "running" \/ IsActive(r)

\* A fault: the index ai_chat_runs_one_active is missing
NoIndex == ~deleted

\* createAiChatRun: the rows that may be inserted (foreign key and unique index)
MayInsert == ~deleted /\ \A r \in Runs : row[r] # "running"

NewRow(r) == row[r] = "none" /\ \A s \in Runs : s < r => row[s] # "none"

At(q, step) == call[q].step = step

\* A call is answered; what it has read is not used any more.
Over(q) == [call EXCEPT ![q] = [NoCall EXCEPT !.step = "done"]]

\* A turn of the app-server, as opposed to a process of its own
OnServer(q) == call[q].kind = "composer" \/ remote

\* A fault: whoever ends a run writes its row
EveryFinisher(r) == TRUE

\* #finishAppServerRun returns at once when the entry is gone.
Finishes(r) == IsActive(r)

\* #finishAppServerRun, #finishRun
Finish(r, status) ==
  IF Finishes(r)
    THEN /\ row' = [row EXCEPT ![r] = status]
         /\ active' = [active EXCEPT ![r] = NoEntry]
         /\ files' = files \ {active[r].call}
    ELSE UNCHANGED <<row, active, files>>

Ended(r) == IF active[r].interrupted THEN "interrupted" ELSE "failed"

-----------------------------------------------------------------------------
(* startTurn *)

\* The checks before the context is resolved.  Attachments of a remote turn are not
\* written to a directory.
StartTurn(q, kind, attach) ==
  /\ attach => ~remote
  /\ At(q, "free") /\ \A p \in Calls : p < q => ~At(p, "free")
  /\ ~deleted /\ ~ThreadIsActive
  /\ call' = [call EXCEPT ![q] = [NoCall EXCEPT !.step = "context", !.kind = kind,
                                                !.attach = attach]]
  /\ UNCHANGED <<deleted, remote, row, active, files, stop, server, left>>

\* The checks behind the context and the catalog
StillAllowed == ~deleted /\ ~ThreadIsActive

\* A fault: the directory is left behind when the row is refused
KeepFiles(q) == files

\* rm in the catch of startTurn and #startComposerTurn
DropFiles(q) == files \ {q}

Entry(q, kind, child) ==
  [NoEntry EXCEPT !.kind = kind, !.call = q, !.attach = call[q].attach, !.child = child]

\* The turn is started: a process with its row, or the thread of the app-server is
\* asked for first.
Launch(q) ==
  IF OnServer(q)
    THEN /\ call' = [call EXCEPT ![q].step = "thread", ![q].child = epoch]
         /\ UNCHANGED <<row, active, files>>
    ELSE IF MayInsert
      THEN \E r \in Runs :
             /\ NewRow(r)
             /\ row' = [row EXCEPT ![r] = "running"]
             /\ active' = [active EXCEPT ![r] = Entry(q, "cli", 0)]
             /\ call' = Over(q)
             /\ UNCHANGED files
      ELSE /\ call' = Over(q) /\ files' = DropFiles(q)
           /\ UNCHANGED <<row, active>>

\* The context is resolved and there is nothing else to wait for.
ContextLaunches(q) ==
  /\ At(q, "context") /\ StillAllowed
  /\ ~call[q].attach
  /\ Launch(q)
  /\ UNCHANGED <<deleted, remote, stop, server, left>>

\* Attachments are written, references of a composer document are looked up.
ContextPrepares(q) ==
  /\ At(q, "context") /\ StillAllowed
  /\ call[q].attach \/ call[q].kind = "composer"
  /\ call' = [call EXCEPT ![q].step = "files"]
  /\ files' = IF call[q].attach THEN files \cup {q} ELSE files
  /\ UNCHANGED <<deleted, remote, row, active, stop, server, left>>

\* Nobody looks at the conversation again.
Prepared(q) ==
  /\ At(q, "files")
  /\ Launch(q)
  /\ UNCHANGED <<deleted, remote, stop, server, left>>

\* The context or the preparation fails, the thread is not started or resumed, or
\* the conversation is not the same any more.
CallFails(q) ==
  /\ At(q, "context") \/ At(q, "files") \/ At(q, "thread")
  /\ call' = Over(q) /\ files' = DropFiles(q)
  /\ UNCHANGED <<deleted, remote, row, active, stop, server, left>>

\* #startAppServerRun: the thread is known to the app-server, the turn is asked for.
ThreadAnswered(q) ==
  /\ At(q, "thread") /\ call[q].child = epoch /\ MayInsert
  /\ \E r \in Runs :
       /\ NewRow(r)
       /\ row' = [row EXCEPT ![r] = "running"]
       /\ active' = [active EXCEPT ![r] = Entry(q, "app-server", epoch)]
       /\ call' = [call EXCEPT ![q] = [NoCall EXCEPT !.step = "turn", !.run = r]]
       /\ asked' = asked \cup {r}
  /\ UNCHANGED <<deleted, remote, files, stop, epoch, interrupts, turn, out, left>>

\* turn/start times out, or its process has ended.
TurnFails(q) ==
  /\ At(q, "turn")
  /\ left' = (left \/ IsActive(call[q].run))
  /\ Finish(call[q].run, "failed")
  /\ call' = Over(q)
  /\ UNCHANGED <<deleted, remote, stop, server>>

-----------------------------------------------------------------------------
(* The other requests *)

\* interrupt
Interrupt(r) ==
  LET a == active[r] IN
  /\ row[r] = "running" /\ IsActive(r) /\ stop[r] = "none"
  /\ active' = [active EXCEPT ![r].interrupted = TRUE]
  /\ stop' = [stop EXCEPT ![r] = IF a.turn # 0 THEN "asked" ELSE "grace"]
  /\ interrupts' = IF a.turn # 0 THEN interrupts \cup {a.turn} ELSE interrupts
  /\ UNCHANGED <<deleted, remote, row, call, files, epoch, asked, turn, out, left>>

\* turn/interrupt is answered, or fails.
InterruptAnswered(r) ==
  /\ stop[r] = "asked"
  /\ stop' = [stop EXCEPT ![r] = "grace"]
  /\ UNCHANGED <<deleted, remote, row, active, call, files, server, left>>

\* A fault: the interrupt returns when its time is over
JustReturns(r) == UNCHANGED <<row, active, files>>

\* After the grace period a turn of the app-server is given up.
EndsInterrupted(r) == Finish(r, "interrupted")

GraceEnds(r) ==
  /\ stop[r] = "grace"
  /\ IF active[r].kind = "cli"
       THEN stop' = [stop EXCEPT ![r] = "killed"] /\ UNCHANGED <<row, active, files, left>>
       ELSE /\ stop' = [stop EXCEPT ![r] = "none"]
            /\ left' = (left \/ IsActive(r))
            /\ EndsInterrupted(r)
  /\ UNCHANGED <<deleted, remote, call, server>>

\* deleteThread: its rows go with it.
DeleteThread ==
  /\ ~deleted /\ ~ThreadIsActive
  /\ deleted' = TRUE
  /\ row' = [r \in Runs |-> IF row[r] = "none" THEN "none" ELSE "deleted"]
  /\ UNCHANGED <<remote, active, call, files, stop, server, left>>

\* The process of a turn ends by itself or was killed (#finishRun).
CliEnds(r) ==
  /\ active[r].kind = "cli"
  /\ \E status \in {"completed", "failed"} :
       Finish(r, IF active[r].interrupted THEN "interrupted" ELSE status)
  /\ stop' = [stop EXCEPT ![r] = "none"]
  /\ UNCHANGED <<deleted, remote, call, server, left>>

-----------------------------------------------------------------------------
(* The app-server *)

Busy == \E k \in Turns : turn[k].state = "busy"
NewTurn(k) == turn[k].state = "none" /\ \A l \in Turns : l < k => turn[l].state # "none"

Answer(r, k)  == [kind |-> "answer", run |-> r, turn |-> k]
News(kind, k) == [kind |-> kind, run |-> 0, turn |-> k]

\* It starts a turn, or refuses it while another one runs.
HandlesStart(r) ==
  /\ r \in asked
  /\ asked' = asked \ {r}
  /\ \/ /\ ~Busy
        /\ \E k \in Turns :
             /\ NewTurn(k)
             /\ \/ /\ turn' = [turn EXCEPT ![k] = [state |-> "busy", run |-> r]]
                   /\ \/ out' = out \o <<News("started", k), Answer(r, k)>>
                      \/ out' = out \o <<Answer(r, k), News("started", k)>>
                \/ /\ turn' = [turn EXCEPT ![k] = [state |-> "done", run |-> r]]
                   /\ out' = out \o <<News("started", k), News("completed", k), Answer(r, k)>>
     \/ out' = Append(out, Answer(r, 0)) /\ UNCHANGED turn
  /\ UNCHANGED <<remote, board, epoch, interrupts, left>>

HandlesInterrupt(k) ==
  /\ k \in interrupts
  /\ interrupts' = interrupts \ {k}
  /\ \/ /\ turn[k].state = "busy"
        /\ turn' = [turn EXCEPT ![k].state = "done"]
        /\ out' = Append(out, News("interrupted", k))
     \/ turn[k].state # "busy" /\ UNCHANGED <<turn, out>>
  /\ UNCHANGED <<remote, board, epoch, asked, left>>

TurnEnds(k) ==
  /\ turn[k].state = "busy"
  /\ turn' = [turn EXCEPT ![k].state = "done"]
  /\ \E kind \in {"completed", "failed"} : out' = Append(out, News(kind, k))
  /\ UNCHANGED <<remote, board, epoch, asked, interrupts, left>>

\* The entries of the process that writes (#handleAppServerNotification; the news
\* of a turn names the thread, and its own turn only inside)
Listening(r) == active[r].kind = "app-server" /\ active[r].child = epoch

Reads(kind) == out # <<>> /\ Head(out).kind = kind /\ out' = Tail(out)

\* The call that waits for the answer goes on, a late answer is not looked at.
ReadAnswer ==
  LET r == Head(out).run
      k == Head(out).turn
      waits == {q \in Calls : At(q, "turn") /\ call[q].run = r} IN
  /\ Reads("answer")
  /\ \/ waits = {} /\ UNCHANGED <<row, active, files, call>>
     \/ \E q \in waits :
          /\ call' = Over(q)
          /\ \/ /\ k # 0
                /\ active' = IF IsActive(r) THEN [active EXCEPT ![r].turn = k] ELSE active
                /\ UNCHANGED <<row, files>>
             \/ k = 0 /\ Finish(r, "failed")
  /\ UNCHANGED <<deleted, remote, stop, epoch, asked, interrupts, turn, left>>

ReadStarted ==
  /\ Reads("started")
  /\ active' = [r \in Runs |-> IF Listening(r) THEN [active[r] EXCEPT !.turn = Head(out).turn]
                                               ELSE active[r]]
  /\ UNCHANGED <<deleted, remote, row, call, files, stop, epoch, asked, interrupts, turn, left>>

ReadEnd(kind) ==
  /\ Reads(kind)
  /\ IF \E r \in Runs : Listening(r)
       THEN \E r \in Runs :
              /\ Listening(r)
              /\ Finish(r, IF active[r].interrupted THEN "interrupted" ELSE kind)
       ELSE UNCHANGED <<row, active, files>>
  /\ UNCHANGED <<deleted, remote, call, stop, epoch, asked, interrupts, turn, left>>

TurnsDone == [k \in Turns |-> IF turn[k].state = "busy" THEN [turn[k] EXCEPT !.state = "done"]
                                                         ELSE turn[k]]

\* The local process ends with its turns, and the runs that used it are told so.
ServerExits ==
  /\ ~remote /\ epoch < MaxEpochs
  /\ epoch' = epoch + 1
  /\ asked' = {} /\ interrupts' = {} /\ out' = <<>> /\ turn' = TurnsDone
  /\ row' = [r \in Runs |-> IF Listening(r) THEN Ended(r) ELSE row[r]]
  /\ active' = [r \in Runs |-> IF Listening(r) THEN NoEntry ELSE active[r]]
  /\ files' = files \ {active[r].call : r \in {s \in Runs : Listening(s)}}
  /\ UNCHANGED <<deleted, remote, call, stop, left>>

\* The bridge to a remote app-server breaks: what it wrote meanwhile is lost.
BridgeBreaks ==
  /\ remote /\ out # <<>>
  /\ out' = <<>> /\ left' = TRUE
  /\ UNCHANGED <<remote, board, epoch, asked, interrupts, turn>>

\* A fault: the rows of the turns that were running are kept
KeepRows == row

\* interruptAbandonedAiChatRuns
AbandonedRows == [r \in Runs |-> IF row[r] = "running" THEN "interrupted" ELSE row[r]]

\* The board ends and starts again: its processes end with it (ai-turn-owner.mjs),
\* a remote app-server goes on.  Directories of the ended board are not tracked.
Restart ==
  /\ epoch < MaxEpochs
  /\ epoch' = epoch + 1
  /\ row' = AbandonedRows
  /\ active' = [r \in Runs |-> NoEntry]
  /\ call' = [q \in Calls |-> IF At(q, "free") THEN NoCall ELSE [NoCall EXCEPT !.step = "done"]]
  /\ files' = {}
  /\ stop' = [r \in Runs |-> "none"]
  /\ out' = <<>>
  /\ IF remote
       THEN left' = TRUE /\ UNCHANGED <<asked, interrupts, turn>>
       ELSE asked' = {} /\ interrupts' = {} /\ turn' = TurnsDone /\ UNCHANGED left
  /\ UNCHANGED <<deleted, remote>>

-----------------------------------------------------------------------------

Request ==
  \/ \E q \in Calls, kind \in Kinds, attach \in BOOLEAN : StartTurn(q, kind, attach)
  \/ \E r \in Runs : Interrupt(r)
  \/ DeleteThread

Continuation ==
  \E q \in Calls : \/ ContextLaunches(q) \/ ContextPrepares(q) \/ Prepared(q)
                   \/ ThreadAnswered(q) \/ CallFails(q) \/ TurnFails(q)

Stopping == \E r \in Runs : InterruptAnswered(r) \/ GraceEnds(r)

Killed == \E r \in Runs : stop[r] = "killed" /\ CliEnds(r)

Reading ==
  ReadAnswer \/ ReadStarted \/ \E kind \in {"completed", "failed", "interrupted"} : ReadEnd(kind)

Server ==
  \/ \E r \in Runs : HandlesStart(r)
  \/ \E k \in Turns : HandlesInterrupt(k) \/ TurnEnds(k)
  \/ ServerExits \/ BridgeBreaks

Next ==
  \/ Request \/ Continuation \/ Stopping \/ Reading \/ Server
  \/ \E r \in Runs : CliEnds(r)
  \/ Restart

Spec == Init /\ [][Next]_vars

\* Answers come or time out, the grace period of an interrupt ends, and a process
\* that was killed ends.
FairSpec == Spec /\ WF_vars(Stopping) /\ WF_vars(Killed)

-----------------------------------------------------------------------------
(* Properties *)

EntryType == [kind : {"none", "cli", "app-server"}, call : Calls \cup {0}, attach : BOOLEAN,
              turn : Turns \cup {0}, child : 0 .. MaxEpochs, interrupted : BOOLEAN]
CallType == [step : {"free", "context", "files", "thread", "turn", "done"}, kind : Kinds,
             attach : BOOLEAN, child : 0 .. MaxEpochs, run : Runs \cup {0}]
MessageType == [kind : {"answer", "started", "completed", "failed", "interrupted"},
                run : Runs \cup {0}, turn : Turns \cup {0}]

TypeOK ==
  /\ deleted \in BOOLEAN /\ remote \in BOOLEAN
  /\ row \in [Runs -> {"none", "running", "completed", "failed", "interrupted", "deleted"}]
  /\ active \in [Runs -> EntryType] /\ call \in [Calls -> CallType]
  /\ files \subseteq Calls
  /\ stop \in [Runs -> {"none", "asked", "grace", "killed"}]
  /\ epoch \in 1 .. MaxEpochs /\ asked \subseteq Runs /\ interrupts \subseteq Turns
  /\ turn \in [Turns -> [state : {"none", "busy", "done"}, run : Runs \cup {0}]]
  /\ out \in Seq(MessageType)
  /\ left \in BOOLEAN

\* A row that is shown as running is watched, by one entry only: whatever ends the
\* turn will end the row, and no entry keeps the conversation busy without a row.
RunningIsWatched ==
  /\ \A r \in Runs : row[r] = "running" <=> IsActive(r)
  /\ \A r, s \in Runs : IsActive(r) /\ IsActive(s) => r = s

\* Of the news of the end, the failed turn/start, the end of the app-server and the
\* interrupt only one decides what became of a run.
FinishedStays ==
  [][\A r \in Runs : row[r] \in {"completed", "failed", "interrupted"}
       => row'[r] \in {row[r], "deleted"}]_vars

\* The directory of the attachments of a turn exists as long as the turn needs it,
\* and not longer, on every way a turn can fail to start or end.
FilesAreInUse ==
  files = {q \in Calls : call[q].attach /\ call[q].step \in {"files", "thread"}}
            \cup {active[r].call : r \in {s \in Runs : active[s].attach}}

\* As long as no turn was left to itself, a turn that the app-server runs, or was
\* asked for, belongs to a run that still waits for it: the end of another turn
\* has not ended that run (the news names the thread and not the run).
TurnsMatchRuns ==
  ~left => /\ \A k \in Turns : turn[k].state = "busy" => IsActive(turn[k].run)
           /\ \A r \in asked : IsActive(r)

\* A run that is interrupted ends, also when its turn is not known yet, the
\* app-server does not answer or the process does not want to.
InterruptEnds ==
  \A r \in Runs : active[r].interrupted ~> row[r] # "running"
=============================================================================
