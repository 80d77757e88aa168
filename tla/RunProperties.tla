----------------------------- MODULE RunProperties -----------------------------
(***************************************************************************)
(* What the run service promises about cards, runs, follow-ups and the     *)
(* sessions of the AI.  A promise that rests on the session lock and the   *)
(* transcript of Claude, or that a restart of the board may break, says so.*)
(***************************************************************************)
EXTENDS RunService

\* Some code that is under way will still decide what becomes of run r.
JobOf(r) ==
  \/ r \in launch \/ call[<<"continue", r>>] # "none" \/ chain[r] # <<>>
  \/ \E f \in Followups : steer[f] = "resend" /\ fup[f].run = r
  \/ \E q \in Requests : req[q].pc # "idle" /\ req[q].run = r
  \/ r \in recovery.todo

-----------------------------------------------------------------------------
(* Runs and cards *)

\* A task never has two active runs, whoever starts, continues or resends at the
\* same time (task_runs_one_active, and the checks of startTask, continueTask and
\* sendQueuedAfterRunEnded before it).
OneActiveRun ==
  \A r, s \in Runs : Active(r) /\ Active(s) /\ run[r].task = run[s].task => r = s

\* A run that ended keeps its outcome: late updates, answers of calls made before
\* it ended and stops that come too late leave it alone.  Only recovery takes up a
\* run again, one it read as `stopping' (service.mjs recoverOnStartup).
SettledRunsStay ==
  [][\A r \in Runs : run[r].status \in EndedStatus /\ r \notin recovery.stopping
       => run'[r].status = run[r].status]_vars

\* No run of Claude is left active with nobody working on it: while no job, request or
\* update is about to change it, its AI works or waits for a permission.  A stop that
\* fails, or a second one that cancels what a finished update sends, may leave a run
\* without work.
LiveRunsWork ==
  Claude /\ restarts = 0 /\ setup.requests < 2 /\ ~setup.stopMayFail =>
    \A r \in Runs : Active(r) /\ ~JobOf(r) => turn[r] \in {"busy", "waiting"}

\* Once a stop is over the session of the run does nothing more for it, whatever
\* delivery was in flight when the stop came (stop epoch and pre-Enter gate).
StoppedIsQuiet ==
  \A r \in Runs : run[r].status = "stopped" /\ ~JobOf(r) => turn[r] \in {"none", "idle"}

\* An archived card has no active run, although the archive waits for a stop and
\* for the sessions to close while other requests are served.
ArchivedIsQuiet == \A t \in Tasks : card[t].archived => NoActiveRun(t)

\* While the board is up, a card that is archived, or that waits in todo for its next
\* start (Claude), is not being worked on, however its archive, moves and stops wait for
\* updates, answers and deliveries.  Two stops of one card, or a person who drags the
\* card of a run that is going on to todo, may leave it so.
ParkedIsIdle ==
  restarts = 0 =>
    /\ ArchivedIsQuiet
    /\ Claude /\ setup.requests < 2 /\ "todo" \notin HandMoves =>
         \A t \in Tasks : card[t].status = "todo" => NoActiveRun(t)

-----------------------------------------------------------------------------
(* Follow-ups *)

\* A follow-up shown as sent did reach its session.
SentWasDelivered == \A f \in Followups : fup[f].status = "sent" => hits[f] > 0

\* The outcome of a follow-up is final: a stop or a start that canceled it wins
\* over the answer of a delivery that was in flight, and the other way round.
SettledFollowupsStay ==
  [][\A f \in Followups : fup[f].status \in {"sent", "failed", "canceled"}
       => fup'[f] = fup[f]]_vars

\* A message is not put into a session of Claude twice, although a delivery that was not
\* confirmed is tried again (`since' and ALREADY_IN_TRANSCRIPT of claude-bg.mjs), until a
\* restart, or a stop that fails, loses the answer to its delivery.
AtMostOnce ==
  Claude /\ restarts = 0 /\ ~setup.stopMayFail => \A f \in Followups : hits[f] < 2

\* No stop fails while a second one of its run waits behind it.
NoStopFailsBeforeAnother == setup.requests < 2 \/ ~setup.stopMayFail

\* While the board is up, no message enters the session of a run of Claude that was
\* stopped: a delivery that was in flight when the stop came has ended or been called off
\* by then.  A stop that fails puts its run back to `running' although a second stop
\* waits: a message accepted now is delivered behind that stop, whatever it answers.
StoppedGetsNoMessage ==
  [][\A c \in Calls :
       /\ Claude /\ restarts = 0 /\ NoStopFailsBeforeAnother
       /\ call[c] \in {"open", "starting"} /\ run[CallRun(c)].status = "stopped"
       => call'[c] # "reached"]_vars

\* While the board is up, a run that failed, was interrupted or stopped leaves no
\* follow-up in the queue (cancelQueuedAfterRunEnded, the cancel at the end of a stop).
EndedRunKeepsNoQueue ==
  \A f \in Followups :
    /\ restarts = 0 /\ fup[f].status = "pending" /\ fup[f].mode = "queue"
    /\ run[fup[f].run].status \in {"failed", "interrupted", "stopped"}
    => JobOf(fup[f].run)

\* While the board is up, requests that stop, move and archive a card of Claude at the
\* same time leave no active run on an archived card and no queue on a run that ended,
\* whether or not their stops fail, and no session at work on a stopped run, unless a
\* stop failed while a second one waited.
QuietWhileUp ==
  Claude /\ restarts = 0 =>
    /\ ArchivedIsQuiet /\ EndedRunKeepsNoQueue
    /\ NoStopFailsBeforeAnother => StoppedIsQuiet

\* The message a finished update is sending was not queued on a run that failed,
\* was interrupted or stopped (comment at service.mjs:292).
LeftoverNotSent ==
  \A r \in Runs : finishing[r] # {} =>
    LET f == First(finishing[r]) IN
    fup[f].run = r \/ run[fup[f].run].status \notin {"failed", "interrupted", "stopped"}

\* A steer that is not settled has a job that will settle it.
PendingSteerHasJob ==
  \A f \in Followups :
    fup[f].status = "pending" /\ fup[f].mode = "steer" => steer[f] # "none"

-----------------------------------------------------------------------------
(* The ledger *)

GoingOn(t) == {r \in OfTask(t) : Active(r)}
Message(f) ==
  IF fup[f].status \in {"failed", "canceled"} THEN "dropped" ELSE fup[f].status

Ledger == INSTANCE RunLedger WITH
  used <- [t \in Tasks |-> OfTask(t)],
  current <- [t \in Tasks |-> GoingOn(t)],
  doubtful <- recovery.stopping \cap recovery.todo,
  message <- [f \in Followups |-> Message(f)],
  delivered <- {f \in Followups : hits[f] > 0}

\* The run service keeps its rows the way RunLedger says, whatever requests, updates,
\* answers and restarts interleave: one run at a time, ended runs and settled messages
\* stay, and what is shown as sent was delivered.
KeepsLedger == Ledger!Spec

-----------------------------------------------------------------------------
(* Progress *)

\* A steer does not stay `sending' for ever: it is sent, queued, failed or canceled.
SteersSettle ==
  \A f \in Followups : []<>~(fup[f].status = "pending" /\ fup[f].mode = "steer")

\* Whoever asks for a stop, a move or an archive gets an answer: the waits for the
\* launch, the session lock, the delivery and the update chain form no cycle.
RequestsAnswered == \A q \in Requests : []<>(req[q].pc = "idle")

\* Every update of a run is applied in the end, also behind one that is sending, and
\* startup recovery gets through its list although each run on it may have a queue.
UpdatesApplied == (\A r \in Runs : []<>(chain[r] = <<>>)) /\ []<>(recovery.todo = {})
=============================================================================
