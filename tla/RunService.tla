------------------------------ MODULE RunService ------------------------------
(***************************************************************************)
(* The run service (server/runs/service.mjs) with the board routes that    *)
(* call it (server/app.mjs).  The server is one Node process: code is not  *)
(* interrupted between two awaits, so every action is one such segment of  *)
(* a request handler, of a background job or of an update's application.   *)
(***************************************************************************)
EXTENDS RunProviders

-----------------------------------------------------------------------------
(* Starting a run *)

NewRun(r, t, session) ==
  [run EXCEPT ![r] = [task |-> t, status |-> "starting", session |-> session, waiting |-> FALSE]]

\* startTask up to its answer.  What was queued before is already a comment of
\* the card, and so part of the new prompt.  createRun refuses a second active
\* run of the task (unique index task_runs_one_active).
StartTask(t) ==
  /\ ~card[t].archived /\ card[t].status = "todo"
  /\ NoActiveRun(t)
  /\ \E r \in Runs :
       /\ UnusedRun(r)
       /\ run' = NewRun(r, t, 0)
       /\ launch' = launch \cup {r}
  /\ card' = MoveTo(t, "in_progress")
  /\ fup' = Cancel(fup, t, {"queue", "steer"})
  /\ UNCHANGED <<steer, chain, finishing, req, boot, sessions>>

\* failRunLaunch
FailLaunch(F, r) ==
  IF Active(r)
    THEN /\ run' = [run EXCEPT ![r].status = "failed"]
         /\ fup' = Cancel(F, run[r].task, {"queue"})
         /\ card' = MoveFromInProgress(run[r].task, "blocked")
    ELSE fup' = F /\ UNCHANGED <<run, card>>

\* provider.start answers with the session's references; the poller of Claude
\* follows the run from here on, Codex may have run and ended the turn before.
LaunchOk(r) ==
  /\ r \in launch /\ (Codex => r \in held)
  /\ launch' = launch \ {r}
  /\ run' = [run EXCEPT ![r].session = r]
  /\ held' = held \cup {r}
  /\ turn' = IF Claude THEN [turn EXCEPT ![r] = "busy"] ELSE turn
  /\ UNCHANGED <<card, fup, steer, chain, finishing, req, boot, call, hits, muted>>

\* buildPrompt, startInput or provider.start throws; the provider forgets the run.
LaunchFails(r) ==
  /\ r \in launch
  /\ launch' = launch \ {r}
  /\ FailLaunch(fup, r)
  /\ turn' = [turn EXCEPT ![r] = "idle"]
  /\ UNCHANGED <<steer, chain, finishing, req, boot, call, held, hits, muted>>

-----------------------------------------------------------------------------
(* Continuing a task in the session of its latest run *)

NewFollowup(f, r, mode) ==
  [fup EXCEPT ![f] = [task |-> run[r].task, run |-> r, mode |-> mode,
                      status |-> "pending", code |-> "none"]]

\* continueTask up to its answer; deliverContinuation begins at once.
ContinueTask(t) ==
  /\ ~card[t].archived /\ card[t].status \in {"in_review", "blocked"}
  /\ NoActiveRun(t)
  /\ \E last \in OfTask(t), r \in Runs :
       /\ IsLatest(last, t) /\ run[last].session # 0
       /\ UnusedRun(r)
       /\ run' = NewRun(r, t, run[last].session)
       /\ turn' = [turn EXCEPT ![r] = "idle"]
       /\ call' = [call EXCEPT ![<<"continue", r>>] = NewCall("continue", run[last].session)]
  /\ card' = MoveTo(t, "in_progress")
  /\ UNCHANGED <<fup, jobs, req, boot, held, hits, muted>>

\* provider.sendFollowup answers deliverContinuation.  A run stopped meanwhile
\* keeps its status; a message that met a permission prompt waits in the queue.
ContinueAnswer(r, a) ==
  LET c == <<"continue", r>>
      halted == run[r].status \in {"stopping", "stopped"} IN
  /\ call[c] # "none" /\ a \in Answers(c)
  /\ call' = [call EXCEPT ![c] = "none"]
  /\ turn' = AnsweredTurn(c, a)
  /\ held' = AnsweredHeld(c, a)
  /\ \/ ~halted /\ a = "undelivered" /\ FailLaunch(fup, r)
     \/ /\ ~halted /\ a = "waiting" /\ Active(r)
        /\ run' = AnsweredRun(run, c, a)
        /\ \E f \in Followups : UnusedFollowup(f) /\ fup' = NewFollowup(f, r, "queue")
        /\ UNCHANGED card
     \/ /\ halted \/ a \in {"delivered", "already"} \/ (a = "waiting" /\ ~Active(r))
        /\ run' = AnsweredRun(run, c, a)
        /\ UNCHANGED <<card, fup>>
  /\ UNCHANGED <<jobs, req, boot, hits, muted>>

-----------------------------------------------------------------------------
(* Follow-ups and steers *)

\* sendFollowup: the row is saved and the request answered; a steer is
\* delivered by a background job.
SendFollowup(t, mode) ==
  /\ \E r \in OfTask(t), f \in Followups :
       /\ Active(r) /\ run[r].status # "stopping"
       /\ UnusedFollowup(f)
       /\ fup' = NewFollowup(f, r, mode)
       /\ steer' = IF mode = "steer" THEN [steer EXCEPT ![f] = "launch"] ELSE steer
  /\ UNCHANGED <<card, run, launch, chain, finishing, req, boot, sessions>>

\* deliverSteer, after waitForLaunch
SteerAfterLaunch(f) ==
  /\ steer[f] = "launch" /\ fup[f].run \notin launch
  /\ steer' = [steer EXCEPT ![f] = "delivery"]
  /\ UNCHANGED <<db, launch, chain, finishing, req, boot, sessions>>

\* sendQueuedAfterRunEnded: the ended run may be continued with the message.
CanContinueWith(t, ended) ==
  /\ ~card[t].archived /\ card[t].status = "in_review"
  /\ run[ended].status = "finished" /\ NoActiveRun(t) /\ IsLatest(ended, t)

\* A fault: the follow-up stays a steer
CodedOnly(f, code) == [fup EXCEPT ![f].code = code]

\* deliverSteer saves the steer as a queued follow-up with an error CODE.
Queued(f, code) == [fup EXCEPT ![f].mode = "queue", ![f].code = code]

\* A steer that was not delivered: the finished update of its run will send it;
\* when that has ended a new run is opened for it (sendQueuedAfterRunEnded), or
\* the follow-up fails.  R and T are the runs and turns the answer left; a run
\* that cannot be opened stands for the bound MaxRuns too.
ConvertSteer(f, code, R, T, K) ==
  LET r == fup[f].run
      t == fup[f].task
      continued == ~Active(r) /\ CanContinueWith(t, r) IN
  \/ \E n \in Runs :
       /\ continued /\ UnusedRun(n)
       /\ run' = NewRun(n, t, run[r].session)
       /\ card' = MoveTo(t, "in_progress")
       /\ fup' = [Queued(f, code) EXCEPT ![f].run = n]
       /\ steer' = [steer EXCEPT ![f] = "resend"]
       /\ call' = [K EXCEPT ![<<"resend", f>>] = NewCall("resend", run[r].session)]
       /\ turn' = [T EXCEPT ![n] = "idle"]
  \/ /\ ~(continued /\ \E n \in Runs : UnusedRun(n))
     /\ run' = R /\ turn' = T /\ call' = K
     /\ fup' = IF Active(r) THEN Queued(f, code)
               ELSE [Queued(f, code) EXCEPT ![f].status = "failed"]
     /\ steer' = [steer EXCEPT ![f] = "none"]
     /\ UNCHANGED card

\* deliverSteer, after waitForDelivery: a run that is stopping, has ended or
\* waits for a permission is not typed into.
SteerSend(f) ==
  LET r == fup[f].run
      ready == run[r].status \in {"starting", "running"} /\ ~run[r].waiting IN
  /\ steer[f] = "delivery" /\ call[<<"continue", r>>] = "none"
  /\ \/ /\ ready
        /\ steer' = [steer EXCEPT ![f] = "typing"]
        /\ call' = [call EXCEPT ![<<"steer", f>>] = "open"]
        /\ UNCHANGED <<db, turn>>
     \/ /\ ~ready /\ fup[f].status = "pending"
        /\ ConvertSteer(f, IF run[r].status \in {"starting", "running"}
                             THEN "WAITING_PERMISSION" ELSE "NOT_DELIVERED", run, turn, call)
     \/ /\ ~ready /\ fup[f].status # "pending"
        /\ steer' = [steer EXCEPT ![f] = "none"]
        /\ UNCHANGED <<db, call, turn>>
  /\ UNCHANGED <<launch, chain, finishing, req, boot, held, hits, muted>>

\* A fault: a message that could not be confirmed counts as delivered
NotRefused(a) == a # "waiting"

\* result.delivered
Delivered(a) == a \in {"delivered", "already"}

\* provider.sendFollowup answers deliverSteer.
SteerAnswer(f, a) ==
  LET c == <<"steer", f>>
      closed == [call EXCEPT ![c] = "none"] IN
  /\ call[c] # "none" /\ a \in Answers(c)
  /\ held' = AnsweredHeld(c, a)
  /\ IF fup[f].status = "pending" /\ ~Delivered(a)
       THEN ConvertSteer(f, IF a = "waiting" THEN "WAITING_PERMISSION" ELSE "NOT_DELIVERED",
                         AnsweredRun(run, c, a), AnsweredTurn(c, a), closed)
       ELSE /\ fup' = IF Delivered(a) THEN Settle(fup, f, "sent") ELSE fup
            /\ steer' = [steer EXCEPT ![f] = "none"]
            /\ call' = closed
            /\ run' = AnsweredRun(run, c, a)
            /\ turn' = AnsweredTurn(c, a)
            /\ UNCHANGED card
  /\ UNCHANGED <<launch, chain, finishing, req, boot, hits, muted>>

\* The end of sendQueuedAfterRunEnded: deliverContinuation's outcome is recorded
\* on the run it opened, then on the follow-up.
ResendAnswer(f, a) ==
  LET c == <<"resend", f>>
      r == fup[f].run
      halted == run[r].status \in {"stopping", "stopped"} IN
  /\ call[c] # "none" /\ a \in Answers(c)
  /\ call' = [call EXCEPT ![c] = "none"]
  /\ steer' = [steer EXCEPT ![f] = "none"]
  /\ turn' = AnsweredTurn(c, a)
  /\ held' = AnsweredHeld(c, a)
  /\ \/ /\ halted
        /\ fup' = Settle(fup, f, "canceled")
        /\ run' = AnsweredRun(run, c, a)
        /\ UNCHANGED card
     \/ /\ ~halted /\ a = "already"
        /\ fup' = Settle(fup, f, "sent")
        /\ \/ /\ Active(r)
              /\ run' = [run EXCEPT ![r].status = "finished"]
              /\ card' = MoveFromInProgress(run[r].task, "in_review")
           \/ ~Active(r) /\ UNCHANGED <<run, card>>
     \/ /\ ~halted /\ a = "delivered"
        /\ fup' = Settle(fup, f, "sent")
        /\ run' = AnsweredRun(run, c, a)
        /\ UNCHANGED card
     \/ /\ ~halted /\ a = "waiting"
        /\ run' = AnsweredRun(run, c, a)
        /\ UNCHANGED <<card, fup>>
     \/ /\ ~halted /\ a = "undelivered"
        /\ FailLaunch(Settle(fup, f, "failed"), r)
  /\ UNCHANGED <<launch, chain, finishing, req, boot, hits, muted>>

-----------------------------------------------------------------------------
(* Terminal updates (handleProviderUpdate): one at a time for each run *)

Applied(r) == chain' = [chain EXCEPT ![r] = Tail(@)]

\* A fault: the run is left as it is
ReviewOnly(R, r) ==
  /\ run' = R
  /\ card' = MoveFromInProgress(run[r].task, "in_review")

\* finishRun: the card is reviewed, unless it left in_progress meanwhile.
FinishRun(R, r) ==
  /\ run' = [R EXCEPT ![r].status = "finished"]
  /\ card' = MoveFromInProgress(run[r].task, "in_review")

\* applyTerminalUpdate on a run that has ended: nothing changes.
ApplyToEnded(r) ==
  /\ chain[r] # <<>> /\ finishing[r] = {} /\ ~Active(r)
  /\ Applied(r)
  /\ UNCHANGED <<db, launch, steer, finishing, req, boot, sessions>>

\* applyFinished without follow-ups to send, or on a run asked to stop
ApplyFinished(r) ==
  /\ chain[r] # <<>> /\ finishing[r] = {} /\ Active(r)
  /\ Head(chain[r]).status = "finished"
  /\ \/ /\ run[r].status = "stopping"
        /\ run' = Ended(r, "stopped")
        /\ UNCHANGED card
     \/ /\ run[r].status # "stopping" /\ PendingQueue(run[r].task) = {}
        /\ FinishRun(Ended(r, "finished"), r)
  /\ Applied(r)
  /\ UNCHANGED <<fup, launch, steer, finishing, req, boot, sessions>>

\* applyFinished with follow-ups: the run stays active and the first is sent.
ApplyFinishedSends(r) ==
  /\ chain[r] # <<>> /\ finishing[r] = {} /\ Active(r)
  /\ Head(chain[r]).status = "finished" /\ run[r].status # "stopping"
  /\ PendingQueue(run[r].task) # {}
  /\ run' = Ended(r, "running")
  /\ finishing' = [finishing EXCEPT ![r] = PendingQueue(run[r].task)]
  /\ call' = [call EXCEPT ![<<"queue", r>>] = NewCall("queue", run[r].session)]
  /\ UNCHANGED <<card, fup, launch, steer, chain, req, boot, held, turn, hits, muted>>

\* applyFinished reads the run and the follow-up again after the answer: a
\* stopped run or a canceled message is never recorded as sent.
QueueLive(r, f) == run[r].status = "running" /\ fup[f].status = "pending"

\* provider.sendFollowup answers applyFinished.
QueueAnswer(r, f, a) ==
  LET c == <<"queue", r>>
      live == QueueLive(r, f)
      rest == {g \in finishing[r] \ {f} : fup[g].status = "pending"}
      more == live /\ a = "already" /\ rest # {}
      settled(s) == [fup EXCEPT ![f].status = s, ![f].run = r] IN
  /\ call[c] # "none" /\ IsFirst(f, finishing[r]) /\ a \in Answers(c)
  /\ turn' = AnsweredTurn(c, a)
  /\ held' = AnsweredHeld(c, a)
  /\ IF more
       THEN /\ finishing' = [finishing EXCEPT ![r] = rest]
            /\ call' = [call EXCEPT ![c] = NewCall("queue", run[r].session)]
            /\ UNCHANGED chain
       ELSE /\ finishing' = [finishing EXCEPT ![r] = {}]
            /\ call' = [call EXCEPT ![c] = "none"]
            /\ Applied(r)
  /\ fup' = IF ~live THEN fup
            ELSE IF Delivered(a) THEN settled("sent")
            ELSE IF a = "undelivered" THEN settled("failed") ELSE fup
  /\ IF live /\ (a = "undelivered" \/ (a = "already" /\ rest = {}))
       THEN FinishRun(run, r)
       ELSE run' = AnsweredRun(run, c, a) /\ UNCHANGED card
  /\ UNCHANGED <<launch, steer, req, boot, hits, muted>>

\* applyTerminalUpdate, `stopped': the provider says the turn was stopped
ApplyStopped(r) ==
  /\ chain[r] # <<>> /\ finishing[r] = {} /\ Active(r)
  /\ Head(chain[r]).status = "stopped"
  /\ run' = Ended(r, "stopped")
  /\ fup' = Cancel(fup, run[r].task, {"queue"})
  /\ Applied(r)
  /\ UNCHANGED <<card, launch, steer, finishing, req, boot, sessions>>

\* applyFailure: a run that was asked to stop leaves the card where it is
ApplyFailure(r) ==
  /\ chain[r] # <<>> /\ finishing[r] = {} /\ Active(r)
  /\ Head(chain[r]).status \in {"failed", "interrupted"}
  /\ run' = [run EXCEPT ![r].status = Head(chain[r]).status]
  /\ fup' = Cancel(fup, run[r].task, {"queue"})
  /\ card' = IF run[r].status = "stopping" THEN card
             ELSE MoveFromInProgress(run[r].task, "blocked")
  /\ Applied(r)
  /\ UNCHANGED <<launch, steer, finishing, req, boot, sessions>>

-----------------------------------------------------------------------------
(* Stop, move and archive: requests that wait in the middle of a handler *)

Waiting(q, t, r, kind, dest) ==
  req' = [req EXCEPT ![q] = [IdleRequest EXCEPT !.pc = "launch", !.kind = kind,
                               !.task = t, !.run = r, !.dest = dest]]
\* Bound: another request may wait in its handler.
Room == Cardinality({q \in Requests : req[q].pc # "idle"}) < setup.requests

At(q, pc) == req' = [req EXCEPT ![q].pc = pc]
Reply(q) == req' = [req EXCEPT ![q] = IdleRequest]

\* stopTask, called by POST run/stop (kind "stop"), by a person dragging a card
\* out of in_progress (kind "move") or by an archive: stopActiveRun begins.
StopRequest(q, t, kind, dest) ==
  /\ req[q].pc = "idle" /\ Room
  /\ kind = "move" => ~card[t].archived /\ card[t].status = "in_progress"
  /\ kind = "archive" => ~card[t].archived
  /\ \E r \in OfTask(t) : Active(r) /\ Waiting(q, t, r, kind, dest)
  /\ UNCHANGED <<db, jobs, boot, sessions>>

\* stopTask with no active run only moves the card.
StopIdleTask(t, dest) ==
  /\ NoActiveRun(t) /\ dest # NoMove
  /\ card' = MoveTo(t, dest)
  /\ UNCHANGED <<run, fup, jobs, req, boot, sessions>>

\* A fault: a second stop goes back to what it found
StatusFound(r) == run[r].status

\* The status a run goes back to when its stop fails.
ResumeStatus(r) == IF run[r].status = "stopping" THEN "running" ELSE run[r].status

\* stopActiveRun, after waitForLaunch: the run is read again and provider.stop is
\* called, which may have its answer at once.
StopSignals(q) ==
  LET r == req[q].run
      asked == [req EXCEPT ![q].pc = "stopping", ![q].resume = ResumeStatus(r)] IN
  /\ req[q].pc = "launch" /\ r \notin launch
  /\ \/ /\ Active(r)
        /\ run' = [run EXCEPT ![r].status = "stopping"]
        /\ call' = CalledOff(r)
        /\ \/ /\ StopAtOnce(r) = {} /\ req' = asked
              /\ muted' = IF Claude THEN muted \cup {r} ELSE muted
           \/ /\ \E ok \in StopAtOnce(r) :
                   req' = [asked EXCEPT ![q].pc = "delivery", ![q].ok = ok]
              /\ UNCHANGED muted
     \/ ~Active(r) /\ At(q, "stopped") /\ UNCHANGED <<run, call, muted>>
  /\ UNCHANGED <<card, fup, jobs, boot, held, turn, hits>>

\* provider.stop answers.  It clears the flag of the run, also when other stops of the
\* run still wait for the session lock.
StopAnswer(q, ok) ==
  LET r == req[q].run IN
  /\ req[q].pc = "stopping" /\ ok \in StopOutcomes(r)
  /\ req' = [req EXCEPT ![q].pc = "delivery", ![q].ok = ok]
  /\ turn' = IF ok THEN [turn EXCEPT ![r] = "idle"] ELSE turn
  /\ muted' = muted \ {r}
  /\ UNCHANGED <<db, jobs, boot, call, held, hits>>

\* A fault: whatever the provider says counts as stopped
AnyAnswer(q) == TRUE

\* result.stopped of provider.stop
Confirmed(q) == req[q].ok

\* The run was ended by an update or by another stop meanwhile.
Over(q) == ~Active(req[q].run)

\* stopActiveRun, after waitForDelivery: the run may have ended by itself; a
\* stop that was not confirmed fails the request and the run goes on.
StopSettles(q) ==
  LET r == req[q].run IN
  /\ req[q].pc = "delivery" /\ call[<<"continue", r>>] = "none"
  /\ \/ Over(q) /\ At(q, "stopped") /\ UNCHANGED run
     \/ ~Over(q) /\ Confirmed(q) /\ run' = Ended(r, "stopped") /\ At(q, "stopped")
     \/ ~Over(q) /\ ~Confirmed(q)
        /\ run' = [run EXCEPT ![r].status = req[q].resume] /\ Reply(q)
  /\ UNCHANGED <<card, fup, jobs, boot, sessions>>

\* The rest of stopTask.  A stop request is answered; a move or an archive goes on.
StopReturns(q) ==
  LET t == req[q].task IN
  /\ req[q].pc = "stopped"
  /\ fup' = Cancel(fup, t, {"queue", "steer"})
  /\ IF req[q].kind = "stop"
       THEN /\ card' = IF req[q].dest = NoMove THEN card ELSE MoveTo(t, req[q].dest)
            /\ Reply(q)
       ELSE UNCHANGED card /\ At(q, IF req[q].kind = "move" THEN "apply" ELSE "closing")
  /\ UNCHANGED <<run, jobs, boot, sessions>>

\* archiveTask of a card that has runs, none of them active
ArchiveRequest(q, t) ==
  /\ req[q].pc = "idle" /\ Room /\ ~card[t].archived
  /\ NoActiveRun(t) /\ OfTask(t) # {}
  /\ fup' = Cancel(fup, t, {"queue", "steer"})
  /\ req' = [req EXCEPT ![q] = [IdleRequest EXCEPT !.pc = "closing", !.kind = "archive",
                                                   !.task = t]]
  /\ UNCHANGED <<card, run, jobs, boot, sessions>>

\* archiveTask: every session of the task is closed.
CloseSessions(q) ==
  /\ req[q].pc = "closing" /\ At(q, "apply")
  /\ turn' = [r \in Runs |-> IF r \in OfTask(req[q].task) /\ ~Active(r) /\ turn[r] # "none"
                               THEN "idle" ELSE turn[r]]
  /\ UNCHANGED <<db, jobs, boot, call, held, hits, muted>>

\* database.moveTask / archiveTask with the version the request came with: a
\* card that changed since is refused (VERSION_CONFLICT).
ApplyRequest(q) ==
  LET t == req[q].task IN
  /\ req[q].pc = "apply" /\ Reply(q)
  /\ card' = IF q \notin fresh THEN card
             ELSE IF req[q].kind = "move" THEN MoveTo(t, req[q].dest)
             ELSE [card EXCEPT ![t].archived = TRUE]
  /\ UNCHANGED <<run, fup, jobs, boot, sessions>>

\* A fault: the version the request came with is not compared
VersionIgnored == fresh' = Requests

\* The routes read the version of the card when the request arrives; every
\* write to the card makes it stale.
VersionCheck ==
  fresh' = {q \in Requests : \/ req[q].pc = "idle"
                             \/ q \in fresh /\ card'[req[q].task] = card[req[q].task]}

-----------------------------------------------------------------------------
(* Changes of a card that do not touch its runs *)

\* A plain PATCH or move (runTransitionForStatusChange answers null and
\* assertNoSilentContinue does not refuse).  Only an agent takes a card out of
\* in_progress while its run is active, and never to done.
HandMove(t, s) ==
  LET was == card[t].status IN
  /\ ~card[t].archived /\ s # was
  /\ ~(was = "todo" /\ s = "in_progress")
  /\ was = "in_progress" /\ ~NoActiveRun(t) => s \in {"in_review", "blocked"}
  /\ was \in {"in_review", "blocked"} /\ s = "in_progress"
       => ~NoActiveRun(t) \/ OfTask(t) = {}
  /\ card' = MoveTo(t, s)
  /\ UNCHANGED <<run, fup, jobs, req, boot, sessions>>

\* reworkTask
ReworkTask(t) ==
  /\ ~card[t].archived /\ NoActiveRun(t) /\ card[t].status # "todo"
  /\ card' = MoveTo(t, "todo")
  /\ UNCHANGED <<run, fup, jobs, req, boot, sessions>>

RestoreTask(t) ==
  /\ card[t].archived
  /\ card' = [card EXCEPT ![t].archived = FALSE]
  /\ UNCHANGED <<run, fup, jobs, req, boot, sessions>>

\* An archive of a card that never had a run asks nothing of the run service.
ArchiveUnstarted(t) ==
  /\ ~card[t].archived /\ OfTask(t) = {}
  /\ card' = [card EXCEPT ![t].archived = TRUE]
  /\ UNCHANGED <<run, fup, jobs, req, boot, sessions>>

-----------------------------------------------------------------------------
(* Restart of the board *)

\* A fault: recovery forgets the steers
KeptSteers == fup

\* recoverOnStartup first: steers caught in the middle by the restart.
InterruptedSteers ==
  [f \in Followups |->
     IF fup[f].status = "pending" /\ fup[f].mode = "steer"
       THEN [fup[f] EXCEPT !.status = "failed"] ELSE fup[f]]

\* The process ends between any two segments and starts again.  The memory is
\* lost; Claude sessions go on, a launch that was cut may have begun one, and the
\* turns of Codex end with its app-server.
\* recoverOnStartup first fails the steers caught in the middle, then recovers
\* the runs it read as active, one after the other, while requests are served.
Restart ==
  /\ restarts < setup.restarts
  /\ restarts' = restarts + 1
  /\ launch' = {}
  /\ steer' = [f \in Followups |-> "none"]
  /\ chain' = [r \in Runs |-> <<>>]
  /\ finishing' = [r \in Runs |-> {}]
  /\ call' = NoCalls
  /\ req' = [q \in Requests |-> IdleRequest]
  /\ recovery' = [todo |-> {r \in Runs : Active(r)},
                  stopping |-> {r \in Runs : run[r].status = "stopping"},
                  applying |-> FALSE]
  /\ fup' = InterruptedSteers
  /\ \E born \in SUBSET launch :
       turn' = [r \in Runs |-> IF Codex THEN "none" ELSE IF r \in born THEN "busy" ELSE turn[r]]
  /\ held' = {} /\ muted' = {}
  /\ UNCHANGED <<card, run, hits>>

\* Claude finds a session whose launch was cut short by the token in its name.
SessionOf(r) == IF run[r].session = 0 THEN r ELSE run[r].session

\* A stop that was in flight when the board exited is abandoned: the run that
\* was read as stopping is running again, whatever happened to it meanwhile.
Resumed(r) ==
  IF r \in recovery.stopping THEN [run EXCEPT ![r].status = "running"] ELSE run

\* A fault: the run stays on the list
Retry(r) == recovery

\* The next run of the list
Skip(r) == [recovery EXCEPT !.todo = @ \ {r}, !.applying = FALSE]

\* A fault: nothing keeps two runs of a task from being active
NeverRefused(r) == FALSE

\* The unique index refuses to resume a run whose task has another active run.
Refused(r) ==
  r \in recovery.stopping /\ \E o \in OfTask(run[r].task) \ {r} : Active(o)

\* provider.recover answers for the run R.  Codex always says interrupted, Claude
\* what its session shows, or interrupted when the session cannot be seen.
Recover(r, s) ==
  /\ IsFirst(r, recovery.todo) /\ ~recovery.applying
  /\ \/ /\ Refused(r)
        /\ recovery' = Skip(r)
        /\ UNCHANGED <<run, chain, held>>
     \/ /\ ~Refused(r) /\ s = "running"
        /\ Claude /\ turn[r] \in {"busy", "waiting"}
        /\ recovery' = Skip(r)
        /\ held' = held \cup {r}
        /\ run' = Running([Resumed(r) EXCEPT ![r].session = SessionOf(r)], r, FALSE)
        /\ UNCHANGED chain
     \/ /\ ~Refused(r) /\ s \in {"finished", "interrupted"}
        /\ s = "finished" => Claude /\ turn[r] = "idle"
        /\ run' = Resumed(r)
        /\ chain' = [chain EXCEPT ![r] = Append(@, Update(s, TRUE))]
        /\ recovery' = [recovery EXCEPT !.applying = TRUE]
        /\ UNCHANGED held
  /\ UNCHANGED <<card, fup, launch, steer, finishing, req, restarts, call, turn, hits, muted>>

\* recoverOnStartup awaits handleProviderUpdate before the next run.
Awaited(r) == \E i \in DOMAIN chain[r] : chain[r][i].recovery
RecoverNext(r) ==
  /\ IsFirst(r, recovery.todo) /\ recovery.applying /\ ~Awaited(r)
  /\ recovery' = Skip(r)
  /\ UNCHANGED <<db, jobs, req, restarts, sessions>>

-----------------------------------------------------------------------------
(* Scheduling of the Node process *)

\* A segment behind an await whose promise has resolved runs before the process
\* looks at the next request, answer or update.
SegmentReady ==
  \/ \E r \in Runs : chain[r] # <<>> /\ finishing[r] = {}
  \/ \E f \in Followups :
       \/ steer[f] = "launch" /\ fup[f].run \notin launch
       \/ steer[f] = "delivery" /\ call[<<"continue", fup[f].run>>] = "none"
  \/ \E q \in Requests :
       \/ req[q].pc \in {"stopped", "apply"}
       \/ req[q].pc = "launch" /\ req[q].run \notin launch
       \/ req[q].pc = "delivery" /\ call[<<"continue", req[q].run>>] = "none"
  \/ recovery.applying /\ \E r \in Runs : IsFirst(r, recovery.todo) /\ ~Awaited(r)

Segment ==
  \/ \E r \in Runs :
       \/ ApplyToEnded(r) \/ ApplyFinished(r) \/ ApplyFinishedSends(r)
       \/ ApplyStopped(r) \/ ApplyFailure(r) \/ RecoverNext(r)
  \/ \E f \in Followups : SteerAfterLaunch(f) \/ SteerSend(f)
  \/ \E q \in Requests :
       StopSignals(q) \/ StopSettles(q) \/ StopReturns(q) \/ ApplyRequest(q)

AnswerKinds == {"delivered", "already", "waiting", "undelivered"}

\* Answers to the calls the service makes of a provider
LaunchAnswer(r) == LaunchOk(r) \/ LaunchFails(r)
CallAnswer(c) ==
  \E a \in AnswerKinds :
    \/ c[1] = "continue" /\ ContinueAnswer(c[2], a)
    \/ c[1] = "queue" /\ \E f \in Followups : QueueAnswer(c[2], f, a)
    \/ c[1] = "steer" /\ SteerAnswer(c[2], a)
    \/ c[1] = "resend" /\ ResendAnswer(c[2], a)
RequestAnswer(q) == CloseSessions(q) \/ \E ok \in BOOLEAN : StopAnswer(q, ok)
RecoverAnswer(r) == \E s \in {"running", "finished", "interrupted"} : Recover(r, s)

\* What the sessions do by themselves, and the updates it causes
Session ==
  \/ \E c \in Calls : Resume(c) \/ Typed(c) \/ TurnTakes(c)
  \/ AppServerTerminates
  \/ \E r \in Runs :
       TurnRuns(r) \/ TurnWaits(r) \/ TurnEndsUnseen(r) \/ \E s \in EndedStatus : TurnEnds(r, s)

\* Requests to the board
Board ==
  \E t \in Tasks :
    /\ t \in setup.tasks
    /\ \/ StartTask(t) \/ ContinueTask(t)
       \/ \E mode \in {"queue", "steer"} : SendFollowup(t, mode)
       \/ \E dest \in Destinations : StopIdleTask(t, dest)
       \/ \E s \in HandMoves : HandMove(t, s)
       \/ ReworkTask(t) \/ RestoreTask(t) \/ ArchiveUnstarted(t)
       \/ \E q \in Requests :
            \/ \E dest \in Destinations : StopRequest(q, t, "stop", dest)
            \/ \E dest \in HandMoves \ {"in_progress"} : StopRequest(q, t, "move", dest)
            \/ StopRequest(q, t, "archive", NoMove)
            \/ ArchiveRequest(q, t)

Event ==
  \/ \E r \in Runs : LaunchAnswer(r) \/ RecoverAnswer(r)
  \/ \E c \in Calls : CallAnswer(c)
  \/ \E q \in Requests : RequestAnswer(q)
  \/ Session
  \/ Board

Next ==
  /\ \/ Segment
     \/ ~SegmentReady /\ Event
     \/ Restart
  /\ VersionCheck
  /\ UNCHANGED setup

Spec == Init /\ [][Next]_vars

-----------------------------------------------------------------------------
(* Fairness *)

Taken(A) == ~SegmentReady /\ A /\ VersionCheck /\ UNCHANGED setup

\* Node runs every segment that is ready.  Every call of a provider is answered:
\* the helper, the app-server requests and the CLI commands all have timeouts.
\* Deliveries and recovery are strongly fair because the segments and other events in
\* between only postpone their answers; weak fairness is enough for the other calls.
\* Nothing is promised of the AI or of the people.
Fairness ==
  /\ WF_vars(Segment /\ VersionCheck /\ UNCHANGED setup)
  /\ \A r \in Runs : WF_vars(Taken(LaunchAnswer(r)))
  /\ \A c \in Calls : SF_vars(Taken(CallAnswer(c)))
  /\ \A q \in Requests : WF_vars(Taken(RequestAnswer(q)))
  /\ SF_vars(Taken(\E r \in Runs : RecoverAnswer(r)))

FairSpec == Spec /\ Fairness
=============================================================================
