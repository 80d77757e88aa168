----------------------------- MODULE RunProviders -----------------------------
(***************************************************************************)
(* What the two run providers promise the run service: claude-bg.mjs types *)
(* into background sessions of Claude Code and polls their state,          *)
(* codex-app.mjs talks to one app-server process.  A call is answered by a *)
(* later action than the one that makes it; between the two the message    *)
(* may reach the session, the turn may end, and the call may be called off.*)
(***************************************************************************)
EXTENDS RunState

Claude == setup.provider = "claude"
Codex == setup.provider = "codex"

CallRun(c) == IF c[1] \in {"continue", "queue"} THEN c[2] ELSE fup[c[2]].run

\* The follow-up a call carries; 0 for the message of a `continue'.
CallFollowup(c) ==
  CASE c[1] = "continue" -> 0
    [] c[1] = "queue" -> First(finishing[c[2]])
    [] OTHER -> c[2]

CallsOf(r) == {c \in Calls : call[c] # "none" /\ CallRun(c) = r}

\* A fault: the time of the first attempt is not passed on
NeverLookedUp(c) == FALSE

\* queueSendOptions: a steer whose delivery was not confirmed may already be in
\* the transcript.  Claude is told since when to look for it; Codex ignores it.
AlreadyInTranscript(c) ==
  /\ Claude /\ c[1] \in {"queue", "resend"}
  /\ CallFollowup(c) # 0
  /\ fup[CallFollowup(c)].code = "NOT_DELIVERED"
  /\ hits[CallFollowup(c)] > 0

\* turn/start was sent for the run and is not answered: phase "turn-starting"
TurnStarting(r) == \E c \in CallsOf(r) : call[c] = "starting"

SessionIdle(s) ==
  \A r \in Runs : run[r].session = s => turn[r] # "busy" /\ ~TurnStarting(r)

\* How a call begins.  Codex refuses a message for a thread with a turn, starts
\* the turn at once in a held thread and resumes the thread first otherwise.
NewCall(kind, s) ==
  CASE Claude \/ kind = "steer" -> "open"
    [] Codex /\ kind # "steer" /\ (s = 0 \/ ~SessionIdle(s)) -> "aborted"
    [] OTHER -> IF s \in held THEN "starting" ELSE "open"

\* thread/resume is answered: the turn is started.
Resume(c) ==
  /\ Codex /\ c[1] # "steer" /\ call[c] = "open"
  /\ call' = [call EXCEPT ![c] = "starting"]
  /\ held' = held \cup {run[CallRun(c)].session}
  /\ UNCHANGED <<db, jobs, req, boot, turn, hits, muted>>

Hit(c) == IF CallFollowup(c) = 0 THEN hits
          ELSE [hits EXCEPT ![CallFollowup(c)] = IF @ = 0 THEN 1 ELSE 2]

\* The stops of a run that wait for the session lock or hold it
StopsOf(r) == {q \in Requests : req[q].pc = "stopping" /\ req[q].run = r}

\* Claude serves the deliveries and stops of a session in the order they came.  A stop
\* calls off what came before it and is not entered yet, so a message that is open while
\* its run is being stopped came later and waits for those stops; `behind' is such a
\* message that a further stop has called off.
BehindStop(c) ==
  call[c] = "behind" \/ (Claude /\ call[c] = "open" /\ StopsOf(CallRun(c)) # {})

\* The helper presses Enter in the Claude session.
Typed(c) ==
  /\ Claude /\ call[c] = "open" /\ ~BehindStop(c) /\ ~AlreadyInTranscript(c)
  /\ call' = [call EXCEPT ![c] = "reached"]
  /\ hits' = Hit(c)
  /\ UNCHANGED <<db, jobs, req, boot, held, turn, muted>>

\* turn/steer reaches the turn, or turn/start begins one (markRunning).
TurnTakes(c) ==
  LET r == CallRun(c) IN
  /\ Codex
  /\ \/ c[1] = "steer" /\ call[c] = "open" /\ turn[r] = "busy"
     \/ call[c] = "starting"
  /\ call' = [call EXCEPT ![c] = "reached"]
  /\ hits' = Hit(c)
  /\ turn' = [turn EXCEPT ![r] = "busy"]
  /\ run' = Running(run, r, FALSE)
  /\ UNCHANGED <<card, fup, jobs, req, boot, held, muted>>

\* What sendFollowup can answer.  A message is `delivered' only when it reached
\* the session, but one that reached it may stay unconfirmed.
Answers(c) ==
  {a \in {"delivered", "already", "waiting", "undelivered"} :
     /\ a = "delivered" => call[c] = "reached"
     /\ a \in {"already", "waiting"} => Claude /\ call[c] = "open" /\ ~BehindStop(c)
     /\ a = "already" => AlreadyInTranscript(c)
     /\ a = "waiting" /\ c[1] = "steer" => turn[CallRun(c)] \in {"busy", "waiting"}}

\* The updates Claude sends before it answers: a message that was delivered is a
\* turn that runs, a permission prompt a turn that waits.
AnsweredRun(R, c, a) ==
  CASE Claude /\ a = "delivered" /\ (c[1] # "steer" \/ turn[CallRun(c)] = "idle") ->
         Running(R, CallRun(c), FALSE)
    [] a = "waiting" -> Running(R, CallRun(c), TRUE)
    [] OTHER -> R

AnsweredTurn(c, a) ==
  CASE Claude /\ a = "delivered" -> [turn EXCEPT ![CallRun(c)] = "busy"]
    [] a = "waiting" -> [turn EXCEPT ![CallRun(c)] = "waiting"]
    [] OTHER -> turn

\* Claude follows a run from the moment its session got or showed something.
AnsweredHeld(c, a) ==
  IF Claude /\ a \in {"delivered", "waiting"} THEN held \cup {CallRun(c)} ELSE held

-----------------------------------------------------------------------------
(* Turns *)

\* Codex begins the first turn of a run, or the poller sees Claude at work.
TurnRuns(r) ==
  /\ \/ Codex /\ r \in launch /\ turn[r] = "none"
     \/ Claude /\ r \in held /\ turn[r] \in {"busy", "waiting"}
  /\ turn' = [turn EXCEPT ![r] = "busy"]
  /\ held' = IF Codex THEN held \cup {r} ELSE held
  /\ run' = Running(IF Codex THEN [run EXCEPT ![r].session = r] ELSE run, r, FALSE)
  /\ UNCHANGED <<card, fup, jobs, req, boot, call, hits, muted>>

\* The poller sees a permission prompt: a `running' update with an error.
TurnWaits(r) ==
  /\ Claude /\ r \in held /\ turn[r] = "busy"
  /\ turn' = [turn EXCEPT ![r] = "waiting"]
  /\ run' = Running(run, r, TRUE)
  /\ UNCHANGED <<card, fup, jobs, req, boot, call, held, hits, muted>>

Update(s, startup) == [status |-> s, recovery |-> startup]

\* A fault: the poller looks whatever else goes on in the session
Followed(r) == r \in held

\* The poller does not report a session that is being typed into, or whose flag
\* `stopping' is set: two stops of a run have one flag, which the first one to end clears.
Polled(r) ==
  /\ r \in held \ muted
  /\ \A c \in CallsOf(r) : BehindStop(c)

\* A terminal update joins the chain of its run.
TurnEnds(r, s) ==
  /\ turn[r] \in {"busy", "waiting"}
  /\ Claude => Polled(r) /\ s \in {"finished", "interrupted", "stopped"}
  /\ Codex => s \in {"finished", "failed", "stopped"}
  /\ turn' = [turn EXCEPT ![r] = "idle"]
  /\ chain' = [chain EXCEPT ![r] = Append(@, Update(s, FALSE))]
  /\ UNCHANGED <<db, launch, steer, finishing, req, boot, call, held, hits, muted>>

\* After a restart a session goes on unseen until recovery looks at it.
TurnEndsUnseen(r) ==
  /\ Claude /\ r \notin held /\ turn[r] \in {"busy", "waiting"}
  /\ turn' = [turn EXCEPT ![r] = "idle"]
  /\ UNCHANGED <<db, jobs, req, boot, call, held, hits, muted>>

\* The app-server process ends: every turn is interrupted, requests fail.
AppServerTerminates ==
  /\ Codex /\ \E r \in Runs : turn[r] # "none"
  /\ turn' = [r \in Runs |-> IF turn[r] = "busy" THEN "idle" ELSE turn[r]]
  /\ chain' = [r \in Runs |-> IF turn[r] = "busy"
                                THEN Append(chain[r], Update("interrupted", FALSE)) ELSE chain[r]]
  /\ call' = [c \in Calls |-> IF call[c] = "none" THEN "none" ELSE "aborted"]
  /\ held' = {}
  /\ UNCHANGED <<db, launch, steer, finishing, req, boot, hits, muted>>

-----------------------------------------------------------------------------
(* Stopping *)

\* provider.stop is called.  Claude: messages for the session that are not
\* entered yet never will be (stop epoch, gate abort).
CalledOff(r) ==
  [c \in Calls |->
     IF Claude /\ c \in CallsOf(r) /\ call[c] = "open"
       THEN IF StopsOf(r) = {} THEN "aborted" ELSE "behind"
       ELSE call[c]]

\* A stop answered without asking anyone: Claude knows of no session, Codex knows
\* the phase of the run.  A thread that is still being resumed counts as idle.
StopAtOnce(r) ==
  CASE Claude /\ run[r].session = 0 -> {TRUE}
    [] Codex /\ TurnStarting(r) -> {FALSE}
    [] Codex /\ ~TurnStarting(r) /\ turn[r] = "idle" -> {TRUE}
    [] OTHER -> {}

\* A fault: the interrupt has no timeout
StopWaits(r) == {ok \in {TRUE} : turn[r] = "idle"}

\* What a stop that asked answers.  Claude interrupts inside the session lock, after the
\* deliveries before it; Codex waits for the end of the turn, and just sends the
\* interrupt for a run of an earlier process of the board.
StopOutcomes(r) ==
  CASE Claude -> IF \E c \in CallsOf(r) : ~BehindStop(c) THEN {}
                 ELSE {TRUE} \cup {ok \in {FALSE} : setup.stopMayFail}
    [] Codex -> IF turn[r] = "none" THEN BOOLEAN
                ELSE {ok \in {TRUE} : turn[r] = "idle"}
                     \cup {ok \in {FALSE} : turn[r] = "busy" /\ setup.stopMayFail}
=============================================================================
