--------------------------- MODULE RunClaudeProofs ---------------------------
(***************************************************************************)
(* Theorems about the runs of Claude, for any number of cards, runs,       *)
(* follow-ups and requests, proved from the invariants of RunServiceProofs *)
(* and from what the session lock, the update chain and the stop epoch keep*)
(* true of the calls in flight: unless a stop fails before another one, a  *)
(* stopped run gets no message and does nothing more, no message is typed  *)
(* twice, and while requests come one at a time every run that is going on *)
(* has somebody who works on it.                                           *)
(***************************************************************************)
EXTENDS RunServiceProofs, WellFoundedInduction, FiniteSetTheorems

-----------------------------------------------------------------------------
(* Calls in flight *)

\* A message is sent: a continuation of a new run, the queue of a run whose turn
\* finished, a steer into a run at work, or a steer again in a new run.
Opens(d) ==
  \/ \E r \in Runs :
       d = <<"continue", r>> /\ run[r].status = "none" /\ run'[r].status = "starting"
         /\ run'[r].session # 0
  \/ \E r \in Runs :
       /\ d = <<"queue", r>>
       /\ ApplyFinishedSends(r)
            \/ (call[d] # "none" /\ run[r].status = "running" /\ run'[r].status = "running")
  \/ \E f \in Followups :
       /\ d = <<"steer", f>> /\ SteerSend(f) /\ run[fup[f].run].status \in {"starting", "running"}
       /\ UNCHANGED <<run, fup>>
  \/ \E f \in Followups, n \in Runs :
       d = <<"resend", f>> /\ run[n].status = "none" /\ run'[n].status = "starting" /\ fup'[f].run = n

\* What becomes of a call
CallMoves(d) ==
  \/ call'[d] = call[d] \/ call'[d] = "none"
  \/ call[d] = "open" /\ call'[d] \in {"reached", "aborted"}
  \/ call[d] = "open" /\ call'[d] = "behind" /\ StopsOf(CallRun(d)) # {}
  \/ call'[d] = "open" /\ Opens(d)

\* Nothing else happens to a call of Claude.
LEMMA CallsChange ==
  ASSUME CoreType, Claude, Next, NEW d \in Calls PROVE CallMoves(d)
<1> USE DEF CoreType, SessionsType, CallStates, Calls, CallMoves
<1>1. CASE UNCHANGED call
  BY <1>1
<1>2. \A kind, s : NewCall(kind, s) = "open"
  BY DEF NewCall, Claude, Codex
<1>3. RowsType
  OBVIOUS
<1>4. ASSUME NEW r \in Runs, RunStep(r) PROVE CallMoves(d)
  <2>1. CASE ApplyFinishedSends(r)
    BY <1>2, <2>1 DEF ApplyFinishedSends, Opens
  <2>2. ASSUME NEW a \in AnswerKinds, ContinueAnswer(r, a) PROVE CallMoves(d)
    BY <2>2 DEF ContinueAnswer
  <2>3. ASSUME NEW a \in AnswerKinds, NEW f \in Followups, QueueAnswer(r, f, a) PROVE CallMoves(d)
    <3>1. CASE call' = [call EXCEPT ![<<"queue", r>>] = "none"]
      BY <3>1
    <3>2. CASE /\ call' = [call EXCEPT ![<<"queue", r>>] = NewCall("queue", run[r].session)]
               /\ QueueLive(r, f) /\ a = "already" /\ {g \in finishing[r] \ {f} : fup[g].status = "pending"} # {}
      <4>1. call[<<"queue", r>>] # "none" /\ run[r].status = "running"
        BY <2>3, <3>2 DEF QueueAnswer, QueueLive
      <4>2. run' = run
        BY <2>3, <3>2 DEF QueueAnswer, AnsweredRun
      <4> QED BY <1>2, <3>2, <4>1, <4>2 DEF Opens
    <3> QED BY <2>3, <3>1, <3>2 DEF QueueAnswer
  <2> QED
    BY <1>1, <1>4, <2>1, <2>2, <2>3
    DEF RunStep, LaunchOk, LaunchFails, TurnRuns, TurnWaits, TurnEndsUnseen, TurnEnds, Recover,
        RecoverNext, ApplyToEnded, ApplyFinished, ApplyStopped, ApplyFailure, sessions
<1>5. ASSUME NEW f \in Followups, SteerStep(f) PROVE CallMoves(d)
  <2>1. ASSUME NEW code, NEW R, NEW T, NEW K \in CallStates, ConvertSteer(f, code, R, T, K)
        PROVE  call'[d] = K[d] \/ (call'[d] = "open" /\ Opens(d))
    <3>1. CASE call' = K
      BY <3>1
    <3>2. ASSUME NEW n \in Runs, UnusedRun(n), run' = NewRun(n, fup[f].task, run[fup[f].run].session),
                 fup' = [Queued(f, code) EXCEPT ![f].run = n],
                 call' = [K EXCEPT ![<<"resend", f>>] = NewCall("resend", run[fup[f].run].session)]
          PROVE  call'[d] = K[d] \/ (call'[d] = "open" /\ Opens(d))
      <4>1. CASE d = <<"resend", f>>
        <5>1. run[n].status = "none" /\ run'[n].status = "starting"
          BY <3>2 DEF UnusedRun, NewRun, RowsType, RunRows
        <5>2. fup'[f].run = n
          BY <3>2 DEF RowsType, FollowupRows, Queued
        <5> QED BY <1>2, <3>2, <4>1, <5>1, <5>2 DEF Opens
      <4>2. CASE d # <<"resend", f>>
        BY <3>2, <4>2
      <4> QED BY <4>1, <4>2
    <3> QED BY <2>1, <3>1, <3>2 DEF ConvertSteer
  <2>2. CASE SteerAfterLaunch(f)
    BY <1>1, <2>2 DEF SteerAfterLaunch, sessions
  <2>3. CASE SteerSend(f)
    <3>1. CASE \E code : ConvertSteer(f, code, run, turn, call)
      BY <2>1, <3>1
    <3>2. CASE /\ run[fup[f].run].status \in {"starting", "running"} /\ UNCHANGED <<run, fup>>
               /\ call' = [call EXCEPT ![<<"steer", f>>] = "open"]
      BY <2>3, <3>2 DEF Opens
    <3> QED BY <1>1, <2>3, <3>1, <3>2 DEF SteerSend, db
  <2>4. ASSUME NEW a \in AnswerKinds, SteerAnswer(f, a) PROVE CallMoves(d)
    <3> DEFINE closed == [call EXCEPT ![<<"steer", f>>] = "none"]
    <3>1. closed \in CallStates /\ closed[d] \in {call[d], "none"}
      OBVIOUS
    <3>2. call' = closed \/ \E code, R, T : ConvertSteer(f, code, R, T, closed)
      BY <2>4 DEF SteerAnswer
    <3> HIDE DEF closed
    <3> QED BY <2>1, <3>1, <3>2
  <2>5. ASSUME NEW a \in AnswerKinds, ResendAnswer(f, a) PROVE CallMoves(d)
    BY <2>5 DEF ResendAnswer
  <2> QED BY <1>5, <2>2, <2>3, <2>4, <2>5 DEF SteerStep
<1>6. ASSUME NEW c \in Calls, CallStep(c) PROVE CallMoves(d)
  BY <1>6 DEF CallStep, Resume, Typed, TurnTakes, Claude, Codex
<1>7. CASE BoardStep
  <2>1. ASSUME NEW t \in Tasks, ContinueTask(t) PROVE CallMoves(d)
    <3>1. PICK last \in Runs, r \in Runs :
            /\ run[last].session # 0 /\ UnusedRun(r) /\ run' = NewRun(r, t, run[last].session)
            /\ call' = [call EXCEPT ![<<"continue", r>>] = NewCall("continue", run[last].session)]
      BY <2>1 DEF ContinueTask, OfTask
    <3>2. run[r].status = "none" /\ run'[r].status = "starting" /\ run'[r].session # 0
      BY <3>1 DEF UnusedRun, NewRun, RowsType, RunRows
    <3>3. CASE d = <<"continue", r>>
      BY <1>2, <3>1, <3>2, <3>3 DEF Opens
    <3>4. CASE d # <<"continue", r>>
      BY <3>1, <3>4
    <3> QED BY <3>3, <3>4
  <2>2. (\E t \in Tasks : ContinueTask(t)) \/ UNCHANGED call
    BY <1>7 DEF BoardStep, StartTask, SendFollowup, StopIdleTask, HandMove, ReworkTask,
       RestoreTask, ArchiveUnstarted, sessions
  <2> QED BY <1>1, <2>1, <2>2
<1>8. CASE RequestStep
  <2>1. UNCHANGED call \/ \E r : call' = CalledOff(r)
    BY <1>8 DEF RequestStep, StopRequest, ArchiveRequest, StopSignals, StopSettles, StopReturns,
       ApplyRequest, CloseSessions, StopAnswer, sessions
  <2> QED BY <1>1, <2>1 DEF CalledOff, CallsOf
<1>9. CASE Restart \/ AppServerTerminates
  BY <1>9 DEF Restart, NoCalls, AppServerTerminates, Claude, Codex
<1> QED BY <1>4, <1>5, <1>6, <1>7, <1>8, <1>9, Steps DEF ProviderStep

\* How a run comes to have a call it did not have: it is new, its queue or a steer is
\* sent, or it takes over a follow-up of its queue.
GetsCall(r) ==
  \/ run[r].status = "none" /\ run'[r].status = "starting"
  \/ ApplyFinishedSends(r)
  \/ \E f \in Followups :
       /\ SteerSend(f) /\ fup[f].run = r /\ run[r].status \in {"starting", "running"}
       /\ UNCHANGED run
  \/ /\ call[<<"queue", r>>] # "none" /\ run[r].status = "running"
     /\ run'[r].status \in {"running", "finished"}

\* A call of a run was one before, and is open only if it was, or the run gets it.
LEMMA CallsOfChange ==
  ASSUME CoreType, Owned, RowsLinked, Claude, Next, NEW d \in Calls, call'[d] # "none",
         NEW r \in Runs, CallRun(d)' = r
  PROVE  \/ d \in CallsOf(r) /\ (call'[d] = "open" => call[d] = "open")
         \/ GetsCall(r)
<1>1. CallMoves(d)
  BY CallsChange
<1>2. CASE d \in {"continue", "queue"} \X Runs
  <2>1. CallRun(d) = r /\ d[2] = r
    BY <1>2 DEF CallRun
  <2>2. ASSUME Opens(d) PROVE GetsCall(r) \/ call[d] = "open"
    <3>1. CASE d = <<"continue", r>>
      <4>1. run[r].status = "none" /\ run'[r].status = "starting"
        BY <2>2, <3>1 DEF Opens
      <4> QED BY <4>1 DEF GetsCall
    <3>2. CASE d = <<"queue", r>>
      BY <2>2, <3>2 DEF Opens, GetsCall
    <3> QED BY <1>2, <2>1, <3>1, <3>2
  <2> QED BY <1>1, <2>1, <2>2 DEF CallMoves, CallsOf
<1>3. CASE d \in {"steer", "resend"} \X Followups
  <2>1. PICK k \in {"steer", "resend"}, f \in Followups : d = <<k, f>>
    BY <1>3
  <2>2. CallRun(d) = fup[f].run /\ fup'[f].run = r
    BY <2>1 DEF CallRun
  <2>3. CASE Opens(d)
    <3>1. CASE k = "steer"
      <4>1. SteerSend(f) /\ run[fup[f].run].status \in {"starting", "running"} /\ UNCHANGED <<run, fup>>
        BY <2>1, <2>3, <3>1 DEF Opens
      <4> QED BY <2>2, <4>1 DEF GetsCall
    <3>2. CASE k = "resend"
      BY <2>1, <2>2, <2>3, <3>2 DEF Opens, GetsCall
    <3> QED BY <3>1, <3>2
  <2>4. CASE ~Opens(d)
    <3>1. call[d] # "none" /\ (call'[d] = "open" => call[d] = "open")
      BY <1>1, <2>4 DEF CallMoves
    <3>2. fup[f].status # "none"
      <4>1. fup[f].run \in Runs
        BY <3>1, <2>2, CallsHaveRuns
      <4> QED BY <4>1 DEF RowsLinked, Runs
    <3>3. CASE SameOwner(f)
      BY <2>2, <3>1, <3>3 DEF SameOwner, CallsOf
    <3>4. CASE SentBy(f)
      BY <2>2, <3>4 DEF SentBy, GetsCall
    <3>5. CASE Reopened(f)
      BY <2>2, <3>5 DEF Reopened, GetsCall
    <3> QED BY <3>2, <3>3, <3>4, <3>5, OwnersChange DEF OwnerChange, Saved
  <2> QED BY <2>3, <2>4
<1> QED BY <1>2, <1>3 DEF Calls

-----------------------------------------------------------------------------
(* Other parts of the state *)

\* What becomes of the updates of a run of Claude
UpdatesMove(r) ==
  \/ chain'[r] = chain[r] /\ (finishing[r] # {} => finishing'[r] # {})
  \/ Restart /\ chain'[r] = <<>>
  \/ /\ chain[r] # <<>> /\ chain'[r] = Tail(chain[r])
     /\ finishing[r] = {} \/ finishing'[r] = {}
  \/ ~SegmentReady /\ \E s \in EndedStatus :
       TurnEnds(r, s) /\ chain'[r] = Append(chain[r], Update(s, FALSE)) /\ UNCHANGED finishing
  \/ ~SegmentReady /\ \E s \in {"finished", "interrupted"} :
       /\ IsFirst(r, recovery.todo) /\ ~recovery.applying
       /\ recovery' = [recovery EXCEPT !.applying = TRUE]
       /\ chain'[r] = Append(chain[r], Update(s, TRUE)) /\ UNCHANGED finishing

\* Nothing else happens to them.
LEMMA ChainChange ==
  ASSUME CoreType, Sending, Claude, Next, NEW r \in Runs PROVE UpdatesMove(r)
<1> USE DEF CoreType, JobsType, UpdatesMove
<1>1. CASE chain'[r] = chain[r] /\ finishing'[r] = finishing[r]
  BY <1>1
<1>2. ASSUME NEW s \in Runs, RunSegment(s) PROVE UpdatesMove(r)
  <2>1. CASE ApplyFinishedSends(s)
    <3>1. UNCHANGED chain /\ finishing'[s] = PendingQueue(run[s].task) /\ finishing'[s] # {}
      BY <2>1 DEF ApplyFinishedSends
    <3>2. r # s => finishing'[r] = finishing[r]
      BY <2>1 DEF ApplyFinishedSends
    <3> QED BY <3>1, <3>2
  <2>2. CASE RecoverNext(s)
    BY <1>1, <2>2 DEF RecoverNext, jobs
  <2>3. CASE ApplyToEnded(s) \/ ApplyFinished(s) \/ ApplyStopped(s) \/ ApplyFailure(s)
    <3>1. chain[s] # <<>> /\ finishing[s] = {} /\ Applied(s) /\ UNCHANGED finishing
      BY <2>3 DEF ApplyToEnded, ApplyFinished, ApplyStopped, ApplyFailure
    <3> QED BY <1>1, <3>1 DEF Applied
  <2> QED BY <1>2, <2>1, <2>2, <2>3 DEF RunSegment
<1>3. ASSUME NEW s \in Runs, RunEvent(s), ~SegmentReady PROVE UpdatesMove(r)
  <2>1. ASSUME NEW e \in EndedStatus, TurnEnds(s, e) PROVE UpdatesMove(r)
    BY <1>1, <1>3, <2>1 DEF TurnEnds
  <2>2. ASSUME NEW e \in {"running", "finished", "interrupted"}, Recover(s, e) PROVE UpdatesMove(r)
    <3>1. CASE UNCHANGED chain
      BY <1>1, <2>2, <3>1 DEF Recover
    <3>2. CASE /\ chain' = [chain EXCEPT ![s] = Append(@, Update(e, TRUE))]
               /\ e \in {"finished", "interrupted"} /\ recovery' = [recovery EXCEPT !.applying = TRUE]
      BY <1>1, <1>3, <2>2, <3>2 DEF Recover
    <3> QED BY <2>2, <3>1, <3>2 DEF Recover
  <2>3. ASSUME NEW a \in AnswerKinds, NEW f \in Followups, QueueAnswer(s, f, a) PROVE UpdatesMove(r)
    <3>1. chain[s] # <<>>
      BY <2>3 DEF QueueAnswer, Sending
    <3>2. CASE /\ finishing' = [finishing EXCEPT ![s] = {g \in finishing[s] \ {f} : fup[g].status = "pending"}]
               /\ {g \in finishing[s] \ {f} : fup[g].status = "pending"} # {}
               /\ UNCHANGED chain
      BY <1>1, <3>2
    <3>3. CASE finishing' = [finishing EXCEPT ![s] = {}] /\ Applied(s)
      BY <1>1, <3>1, <3>3 DEF Applied
    <3> QED BY <2>3, <3>2, <3>3 DEF QueueAnswer
  <2>4. ASSUME NEW a \in AnswerKinds, ContinueAnswer(s, a) PROVE UpdatesMove(r)
    BY <1>1, <2>4 DEF ContinueAnswer, jobs
  <2> QED BY <1>1, <1>3, <2>1, <2>2, <2>3, <2>4
          DEF RunEvent, LaunchOk, LaunchFails, TurnRuns, TurnWaits, TurnEndsUnseen, jobs
<1>4. ASSUME NEW f \in Followups, SteerStep(f) PROVE UNCHANGED <<chain, finishing>>
  BY <1>4 DEF SteerStep, SteerAfterLaunch, SteerSend, SteerAnswer, ResendAnswer
<1>5. ASSUME NEW c \in Calls, CallStep(c) PROVE UNCHANGED <<chain, finishing>>
  BY <1>5 DEF CallStep, Resume, Typed, TurnTakes, jobs
<1>6. BoardStep => UNCHANGED <<chain, finishing>>
  BY DEF BoardStep, StartTask, ContinueTask, SendFollowup, StopIdleTask, HandMove, ReworkTask,
     RestoreTask, ArchiveUnstarted, jobs
<1>7. ASSUME NEW q \in Requests, RequestSegment(q) \/ RequestEvent(q) PROVE UNCHANGED <<chain, finishing>>
  BY <1>7 DEF RequestSegment, RequestEvent, StopRequest, ArchiveRequest, StopSignals, StopSettles,
     StopReturns, ApplyRequest, CloseSessions, StopAnswer, jobs
<1>8. Restart => chain'[r] = <<>>
  BY DEF Restart
<1>9. ~AppServerTerminates
  BY DEF AppServerTerminates, Claude, Codex
<1> QED BY <1>1, <1>2, <1>3, <1>4, <1>5, <1>6, <1>7, <1>8, <1>9, SegmentOrEvent
        DEF SegmentStep, EventStep, SteerStep, SteerEvent

\* What makes a run of Claude work that did not: its launch, the answer of a call, a
\* poll that finds it at work, or a launch cut by a restart that had begun it.
TurnMoves(r) ==
  \/ turn'[r] \in {turn[r], "idle"}
  \/ r \in launch /\ LaunchOk(r)
  \/ ~SegmentReady /\ CallsOf(r) # {}
  \/ r \in held /\ turn[r] \in {"busy", "waiting"} /\ turn'[r] \in {"busy", "waiting"}
  \/ Restart

\* Nothing else does.
LEMMA TurnChange ==
  ASSUME CoreType, Claude, Next, NEW r \in Runs PROVE TurnMoves(r)
<1> USE DEF CoreType, SessionsType, TurnStates, TurnMoves
<1>1. CASE UNCHANGED turn
  BY <1>1
<1>2. \A s : turn' = [turn EXCEPT ![s] = "idle"] => turn'[r] \in {turn[r], "idle"}
  OBVIOUS
<1>3. ASSUME NEW c \in Calls, call[c] # "none", ~SegmentReady, NEW a, NEW T,
             T = AnsweredTurn(c, a)
      PROVE  T[r] = turn[r] \/ CallsOf(r) # {}
  <2>1. CASE CallRun(c) = r
    BY <1>3, <2>1 DEF CallsOf
  <2>2. CASE CallRun(c) # r
    BY <1>3, <2>2 DEF AnsweredTurn
  <2> QED BY <2>1, <2>2
<1>4. ASSUME NEW s \in Runs, RunSegment(s) PROVE UNCHANGED turn
  BY <1>4 DEF RunSegment, ApplyToEnded, ApplyFinished, ApplyFinishedSends, ApplyStopped, ApplyFailure,
     RecoverNext, sessions
<1>5. ASSUME NEW s \in Runs, RunEvent(s), ~SegmentReady PROVE TurnMoves(r)
  <2>1. CASE LaunchOk(s)
    BY <2>1 DEF LaunchOk
  <2>2. CASE LaunchFails(s) \/ TurnEndsUnseen(s) \/ \E e \in EndedStatus : TurnEnds(s, e)
    BY <1>2, <2>2 DEF LaunchFails, TurnEndsUnseen, TurnEnds
  <2>3. CASE TurnRuns(s) \/ TurnWaits(s)
    BY <2>3 DEF TurnRuns, TurnWaits, Claude, Codex
  <2>4. ASSUME NEW a \in AnswerKinds, ContinueAnswer(s, a) PROVE TurnMoves(r)
    <3>1. call[<<"continue", s>>] # "none" /\ <<"continue", s>> \in Calls
            /\ turn' = AnsweredTurn(<<"continue", s>>, a)
      BY <2>4 DEF ContinueAnswer, Calls
    <3> QED BY <1>3, <1>5, <3>1
  <2>5. ASSUME NEW a \in AnswerKinds, NEW f \in Followups, QueueAnswer(s, f, a) PROVE TurnMoves(r)
    <3>1. call[<<"queue", s>>] # "none" /\ <<"queue", s>> \in Calls
            /\ turn' = AnsweredTurn(<<"queue", s>>, a)
      BY <2>5 DEF QueueAnswer, Calls
    <3> QED BY <1>3, <1>5, <3>1
  <2> QED BY <1>1, <1>5, <2>1, <2>2, <2>3, <2>4, <2>5 DEF RunEvent, Recover
<1>6. ASSUME NEW f, NEW code, NEW R, NEW T, NEW K, T \in TurnStates, ConvertSteer(f, code, R, T, K)
      PROVE  turn'[r] \in {T[r], "idle"}
  BY <1>6 DEF ConvertSteer
<1>7. ASSUME NEW f \in Followups, SteerAfterLaunch(f) \/ SteerSend(f) PROVE turn'[r] \in {turn[r], "idle"}
  <2>1. UNCHANGED turn \/ \E code : ConvertSteer(f, code, run, turn, call)
    BY <1>7 DEF SteerAfterLaunch, SteerSend, sessions
  <2> QED BY <1>1, <1>6, <2>1
<1>8. ASSUME NEW f \in Followups, SteerEvent(f), ~SegmentReady PROVE TurnMoves(r)
  <2>1. ASSUME NEW a \in AnswerKinds, SteerAnswer(f, a) PROVE TurnMoves(r)
    <3> DEFINE c == <<"steer", f>>
               T == AnsweredTurn(c, a)
    <3>1. call[c] # "none" /\ c \in Calls
      BY <2>1 DEF SteerAnswer, Calls
    <3>2. T[r] = turn[r] \/ CallsOf(r) # {}
      BY <1>3, <1>8, <3>1
    <3>3. T \in TurnStates
      BY DEF AnsweredTurn
    <3>4. turn' = T \/ \E code, R, K : ConvertSteer(f, code, R, T, K)
      BY <2>1 DEF SteerAnswer
    <3> HIDE DEF T
    <3> QED BY <1>6, <1>8, <3>2, <3>3, <3>4
  <2>2. ASSUME NEW a \in AnswerKinds, ResendAnswer(f, a) PROVE TurnMoves(r)
    <3>1. call[<<"resend", f>>] # "none" /\ <<"resend", f>> \in Calls
            /\ turn' = AnsweredTurn(<<"resend", f>>, a)
      BY <2>2 DEF ResendAnswer, Calls
    <3> QED BY <1>3, <1>8, <3>1
  <2> QED BY <1>8, <2>1, <2>2 DEF SteerEvent
<1>9. ASSUME NEW c \in Calls, CallStep(c) PROVE UNCHANGED turn
  BY <1>9 DEF CallStep, Resume, Typed, TurnTakes, Claude, Codex
<1>10. BoardStep => turn'[r] \in {turn[r], "idle"}
  BY <1>1, <1>2 DEF BoardStep, StartTask, ContinueTask, SendFollowup, StopIdleTask, HandMove, ReworkTask,
     RestoreTask, ArchiveUnstarted, sessions
<1>11. ASSUME NEW q \in Requests, RequestSegment(q) \/ RequestEvent(q) PROVE turn'[r] \in {turn[r], "idle"}
  BY <1>11 DEF RequestSegment, RequestEvent, StopRequest, ArchiveRequest, StopSignals, StopSettles,
     StopReturns, ApplyRequest, CloseSessions, StopAnswer, sessions
<1>12. ~AppServerTerminates
  BY DEF AppServerTerminates, Claude, Codex
<1> QED BY <1>1, <1>4, <1>5, <1>7, <1>8, <1>9, <1>10, <1>11, <1>12, SegmentOrEvent
        DEF SegmentStep, EventStep

\* A run of Claude is new.
IsNew(r) ==
  /\ run[r].status = "none" /\ run'[r].status = "starting"
  /\ \/ r \in launch'
     \/ \E o \in Runs : /\ run'[r].session = run[o].session
                        /\ run[o].session # 0 \/ run[o].status = "finished"

\* A run changes by the answer of its launch, of a call, of a poll or of recovery ...
AnswerMoves(r) ==
  \/ r \in launch /\ (LaunchOk(r) \/ LaunchFails(r))
  \/ /\ run'[r].session = run[r].session
     /\ CallsOf(r) # {} /\ run[r].status \in {"starting", "running"}
     /\ \/ run'[r].status = "running"
        \/ /\ run'[r].status \in {"finished", "failed"}
           /\ \E c \in CallsOf(r) : c[1] # "steer" /\ CallAnswer(c)
  \/ /\ run'[r].session = run[r].session
     /\ r \in held /\ run[r].status \in {"starting", "running"} /\ run'[r].status = "running"
  \/ /\ r \in recovery.todo /\ run'[r].session \in {run[r].session, r}
     /\ run'[r].status \in {run[r].status, "running"}

\* ... or when an update is applied or a stop goes on.
SegmentMoves(r) ==
  /\ run'[r].session = run[r].session /\ Active(r)
  /\ \/ ApplyFinished(r) \/ ApplyFinishedSends(r) \/ ApplyStopped(r) \/ ApplyFailure(r)
     \/ \E q \in Requests :
          /\ req[q].run = r
          /\ \/ StopSignals(q) /\ run'[r].status = "stopping"
             \/ StopSettles(q) /\ Confirmed(q) /\ run'[r].status = "stopped"
             \/ StopSettles(q) /\ ~Confirmed(q) /\ run'[r].status \in {"starting", "running"}

RunMoves(r) ==
  run'[r] = run[r] \/ IsNew(r) \/ (~SegmentReady /\ AnswerMoves(r)) \/ SegmentMoves(r)

\* An answer to a call changes the run of the call.
LEMMA AnsweredMoves ==
  ASSUME CoreType, NEW c \in Calls, call[c] # "none", NEW a, NEW r \in Runs, NEW R,
         R = AnsweredRun(run, c, a)
  PROVE  \/ R[r] = run[r]
         \/ /\ CallsOf(r) # {} /\ R[r].session = run[r].session
            /\ run[r].status \in {"starting", "running"} /\ R[r].status = "running"
<1> USE DEF CoreType, RowsType, RunRows
<1>1. CASE CallRun(c) = r
  BY <1>1 DEF CallsOf, AnsweredRun, Running
<1>2. CASE CallRun(c) # r
  BY <1>2 DEF AnsweredRun, Running
<1> QED BY <1>1, <1>2

\* Nothing else changes a run.
LEMMA RunsMove ==
  ASSUME CoreType, Claude, Next, NEW r \in Runs PROVE RunMoves(r)
<1> USE DEF CoreType, RowsType, RunRows, RunMoves
<1>1. CASE UNCHANGED run
  BY <1>1
<1>2. ASSUME NEW c \in Calls, call[c] # "none", NEW a, run' = AnsweredRun(run, c, a), ~SegmentReady
      PROVE  RunMoves(r)
  BY <1>2, AnsweredMoves DEF AnswerMoves
<1>3. ASSUME NEW c \in Calls, call[c] # "none", NEW F, FailLaunch(F, CallRun(c)), ~SegmentReady,
             run[CallRun(c)].status \notin {"stopping", "stopped"}, c[1] # "steer", CallAnswer(c)
      PROVE  RunMoves(r)
  <2>1. CASE CallRun(c) = r
    BY <1>1, <1>3, <2>1 DEF FailLaunch, AnswerMoves, CallsOf, Active, ActiveStatus
  <2>2. CASE CallRun(c) # r
    BY <1>1, <1>3, <2>2 DEF FailLaunch
  <2> QED BY <2>1, <2>2
<1>4. ASSUME NEW c \in Calls, call[c] # "none", ~SegmentReady,
             run[CallRun(c)].status \in {"starting", "running"},
             run' = [run EXCEPT ![CallRun(c)].status = "finished"], c[1] # "steer", CallAnswer(c)
      PROVE  RunMoves(r)
  <2>1. CASE CallRun(c) = r
    BY <1>4, <2>1 DEF AnswerMoves, CallsOf
  <2>2. CASE CallRun(c) # r
    BY <1>4, <2>2
  <2> QED BY <2>1, <2>2
<1>5. ASSUME NEW s \in Runs, RunSegment(s) PROVE RunMoves(r)
  <2>1. CASE r = s
    <3>1. \A e : Ended(r, e)[r].session = run[r].session
      BY DEF Ended
    <3>2. FinishRun(Ended(r, "finished"), r) => run'[r].session = run[r].session
      BY DEF FinishRun, Ended
    <3>3. ApplyFinished(r) \/ ApplyFinishedSends(r) => SegmentMoves(r)
      BY <3>1, <3>2 DEF ApplyFinished, ApplyFinishedSends, SegmentMoves
    <3>4. ApplyStopped(r) \/ ApplyFailure(r) => SegmentMoves(r)
      BY <3>1 DEF ApplyStopped, ApplyFailure, SegmentMoves
    <3> QED BY <1>1, <1>5, <2>1, <3>3, <3>4 DEF RunSegment, ApplyToEnded, RecoverNext, db
  <2>2. CASE r # s
    <3>1. ApplyFinished(s) \/ ApplyFinishedSends(s) => run'[r] = run[r]
      BY <2>2 DEF ApplyFinished, ApplyFinishedSends, Ended, FinishRun
    <3>2. ApplyStopped(s) \/ ApplyFailure(s) => run'[r] = run[r]
      BY <2>2 DEF ApplyStopped, ApplyFailure, Ended
    <3> QED BY <1>1, <1>5, <3>1, <3>2 DEF RunSegment, ApplyToEnded, RecoverNext, db
  <2> QED BY <2>1, <2>2
<1>6. ASSUME NEW s \in Runs, RunEvent(s), ~SegmentReady PROVE RunMoves(r)
  <2>1. CASE LaunchOk(s) \/ LaunchFails(s)
    BY <1>1, <1>6, <2>1 DEF LaunchOk, LaunchFails, FailLaunch, AnswerMoves
  <2>2. CASE TurnRuns(s) \/ TurnWaits(s)
    <3>1. s \in held /\ \E w : run' = Running(run, s, w)
      BY <2>2 DEF TurnRuns, TurnWaits, Claude, Codex
    <3> QED BY <1>6, <3>1 DEF Running, AnswerMoves
  <2>3. CASE TurnEndsUnseen(s) \/ \E e \in EndedStatus : TurnEnds(s, e)
    BY <1>1, <2>3 DEF TurnEndsUnseen, TurnEnds, db
  <2>4. ASSUME NEW e, Recover(s, e) PROVE RunMoves(r)
    <3> DEFINE R == Resumed(s)
    <3>1. /\ R \in RunRows /\ \A o \in Runs : R[o].session = run[o].session /\ (o # s => R[o] = run[o])
          /\ R[s].status \in {run[s].status, "running"}
      BY DEF Resumed, RunStatus, ActiveStatus
    <3>2. SessionOf(s) \in {run[s].session, s}
      BY DEF SessionOf
    <3>3. run' = run \/ run' = R \/ run' = Running([R EXCEPT ![s].session = SessionOf(s)], s, FALSE)
      BY <2>4 DEF Recover
    <3>4. s \in recovery.todo
      BY <2>4 DEF Recover, IsFirst
    <3> HIDE DEF R
    <3>5. /\ run'[s].session \in {run[s].session, s} /\ (r # s => run'[r] = run[r])
          /\ run'[s].status \in {run[s].status, "running"}
      BY <3>1, <3>2, <3>3 DEF Running
    <3> QED BY <1>6, <3>4, <3>5 DEF AnswerMoves
  <2>5. ASSUME NEW a \in AnswerKinds, ContinueAnswer(s, a) PROVE RunMoves(r)
    <3> DEFINE c == <<"continue", s>>
    <3>1. c \in Calls /\ CallRun(c) = s /\ call[c] # "none" /\ c[1] # "steer" /\ CallAnswer(c)
      BY <2>5 DEF ContinueAnswer, Calls, CallRun, CallAnswer
    <3>2. \/ run[s].status \notin {"stopping", "stopped"} /\ FailLaunch(fup, s)
          \/ run' = AnsweredRun(run, c, a)
      BY <2>5 DEF ContinueAnswer
    <3> HIDE DEF c
    <3> QED BY <1>2, <1>3, <1>6, <3>1, <3>2
  <2>6. ASSUME NEW a \in AnswerKinds, NEW f \in Followups, QueueAnswer(s, f, a) PROVE RunMoves(r)
    <3> DEFINE c == <<"queue", s>>
    <3>1. c \in Calls /\ CallRun(c) = s /\ call[c] # "none" /\ c[1] # "steer" /\ CallAnswer(c)
      BY <2>6 DEF QueueAnswer, Calls, CallRun, CallAnswer
    <3>2. \/ run[s].status = "running" /\ run' = [run EXCEPT ![s].status = "finished"]
          \/ run' = AnsweredRun(run, c, a)
      BY <2>6 DEF QueueAnswer, QueueLive, FinishRun
    <3> HIDE DEF c
    <3> QED BY <1>2, <1>4, <1>6, <3>1, <3>2
  <2> QED BY <1>6, <2>1, <2>2, <2>3, <2>4, <2>5, <2>6 DEF RunEvent
<1>7. ASSUME NEW f \in Followups, NEW code, NEW R, NEW T, NEW K, ConvertSteer(f, code, R, T, K)
      PROVE  run' = R \/ run'[r] = run[r] \/ IsNew(r)
  <2>1. ASSUME NEW n \in Runs, UnusedRun(n), CanContinueWith(fup[f].task, fup[f].run),
               run' = NewRun(n, fup[f].task, run[fup[f].run].session)
        PROVE  run'[r] = run[r] \/ IsNew(r)
    <3>1. CASE n = r
      <4>1. fup[f].run \in Runs /\ run[fup[f].run].status = "finished" /\ run[r].status = "none"
        BY <2>1, <3>1 DEF CanContinueWith, IsLatest, OfTask, UnusedRun
      <4>2. run'[r].status = "starting" /\ run'[r].session = run[fup[f].run].session
        BY <2>1, <3>1 DEF NewRun
      <4> QED BY <4>1, <4>2 DEF IsNew
    <3>2. CASE n # r
      BY <2>1, <3>2 DEF NewRun
    <3> QED BY <3>1, <3>2
  <2> QED BY <1>7, <2>1 DEF ConvertSteer
<1>8. ASSUME NEW f \in Followups, SteerAfterLaunch(f) \/ SteerSend(f) PROVE RunMoves(r)
  <2>1. UNCHANGED run \/ \E code : ConvertSteer(f, code, run, turn, call)
    BY <1>8 DEF SteerAfterLaunch, SteerSend, db
  <2> QED BY <1>1, <1>7, <2>1
<1>9. ASSUME NEW f \in Followups, SteerEvent(f), ~SegmentReady PROVE RunMoves(r)
  <2>1. ASSUME NEW a \in AnswerKinds, SteerAnswer(f, a) PROVE RunMoves(r)
    <3> DEFINE c == <<"steer", f>>
               R == AnsweredRun(run, c, a)
    <3>1. c \in Calls /\ call[c] # "none"
      BY <2>1 DEF SteerAnswer, Calls
    <3>2. run' = R \/ \E code, T, K : ConvertSteer(f, code, R, T, K)
      BY <2>1 DEF SteerAnswer
    <3>3. run' = R => RunMoves(r)
      BY <1>2, <1>9, <3>1
    <3> HIDE DEF R
    <3> QED BY <1>7, <3>2, <3>3
  <2>2. ASSUME NEW a \in AnswerKinds, ResendAnswer(f, a) PROVE RunMoves(r)
    <3> DEFINE c == <<"resend", f>>
    <3>1. c \in Calls /\ call[c] # "none" /\ CallRun(c) = fup[f].run /\ c[1] # "steer" /\ CallAnswer(c)
      BY <2>2 DEF ResendAnswer, Calls, CallRun, CallAnswer
    <3>2. \/ UNCHANGED run
          \/ run' = AnsweredRun(run, c, a)
          \/ /\ run[CallRun(c)].status \notin {"stopping", "stopped"}
             /\ \E F : FailLaunch(F, CallRun(c))
          \/ /\ run[CallRun(c)].status \in {"starting", "running"}
             /\ run' = [run EXCEPT ![CallRun(c)].status = "finished"]
      BY <2>2, <3>1 DEF ResendAnswer, Active, ActiveStatus
    <3> HIDE DEF c
    <3> QED BY <1>1, <1>2, <1>3, <1>4, <1>9, <3>1, <3>2
  <2> QED BY <1>9, <2>1, <2>2 DEF SteerEvent
<1>10. ASSUME NEW c \in Calls, CallStep(c) PROVE UNCHANGED run
  BY <1>10 DEF CallStep, Resume, Typed, TurnTakes, Claude, Codex, db
<1>11. CASE BoardStep
  <2>1. ASSUME NEW t \in Tasks, StartTask(t) PROVE RunMoves(r)
    <3>1. PICK n \in Runs : UnusedRun(n) /\ run' = NewRun(n, t, 0) /\ launch' = launch \cup {n}
      BY <2>1 DEF StartTask
    <3> QED BY <3>1 DEF UnusedRun, NewRun, IsNew
  <2>2. ASSUME NEW t \in Tasks, ContinueTask(t) PROVE RunMoves(r)
    <3>1. PICK last \in Runs, n \in Runs :
            UnusedRun(n) /\ run' = NewRun(n, t, run[last].session) /\ run[last].session # 0
      BY <2>2 DEF ContinueTask, OfTask
    <3>2. CASE n = r
      BY <3>1, <3>2 DEF UnusedRun, NewRun, IsNew
    <3>3. CASE n # r
      BY <3>1, <3>3 DEF NewRun
    <3> QED BY <3>2, <3>3
  <2>3. (\E t \in Tasks : StartTask(t) \/ ContinueTask(t)) \/ UNCHANGED run
    BY <1>11 DEF BoardStep, SendFollowup, StopIdleTask, HandMove, ReworkTask, RestoreTask, ArchiveUnstarted
  <2> QED BY <1>1, <2>1, <2>2, <2>3
<1>12. ASSUME NEW q \in Requests, RequestSegment(q) PROVE RunMoves(r)
  <2>1. CASE StopSignals(q)
    <3>1. CASE req[q].run = r
      <4>1. UNCHANGED run \/ (Active(r) /\ run' = [run EXCEPT ![r].status = "stopping"])
        BY <2>1, <3>1 DEF StopSignals
      <4>2. run' = [run EXCEPT ![r].status = "stopping"] =>
              run'[r].session = run[r].session /\ run'[r].status = "stopping"
        OBVIOUS
      <4> QED BY <1>1, <2>1, <3>1, <4>1, <4>2 DEF SegmentMoves
    <3>2. CASE req[q].run # r
      BY <2>1, <3>2 DEF StopSignals
    <3> QED BY <3>1, <3>2
  <2>2. CASE StopSettles(q)
    <3>1. CASE req[q].run = r
      <4>1. req[q].resume \in {"starting", "running"}
        BY DEF RequestsType, Handlers
      <4> QED BY <1>1, <2>2, <3>1, <4>1 DEF StopSettles, SegmentMoves, Over, Ended
    <3>2. CASE req[q].run # r
      BY <2>2, <3>2 DEF StopSettles, Ended
    <3> QED BY <3>1, <3>2
  <2> QED BY <1>1, <1>12, <2>1, <2>2 DEF RequestSegment, StopReturns, ApplyRequest
<1>13. ASSUME NEW q \in Requests, RequestEvent(q) PROVE UNCHANGED run
  BY <1>13 DEF RequestEvent, StopRequest, ArchiveRequest, CloseSessions, StopAnswer, db
<1>14. Restart => UNCHANGED run
  BY DEF Restart
<1>15. ~AppServerTerminates
  BY DEF AppServerTerminates, Claude, Codex
<1> QED BY <1>1, <1>5, <1>6, <1>8, <1>9, <1>10, <1>11, <1>12, <1>13, <1>14, <1>15, SegmentOrEvent
        DEF SegmentStep, EventStep

\* Which launches, polled runs and steer jobs there are after a step
JobMoves ==
  /\ \A r \in launch' :
       \/ r \in launch
       \/ /\ run[r].status = "none" /\ run'[r].status = "starting"
          /\ UNCHANGED <<call, steer, held, chain, req>> /\ \A f \in Followups : fup'[f].run = fup[f].run
  /\ \A r \in launch : r \in launch' \/ LaunchOk(r) \/ LaunchFails(r) \/ Restart
  /\ \A r \in held' : r \in held \/ r \in launch \ launch' \/ CallsOf(r) # {} \/ r \in recovery.todo
  /\ \A f \in Followups : steer'[f] \in {"launch", "delivery"} =>
       \/ steer'[f] = steer[f]
       \/ steer'[f] = "delivery" /\ steer[f] = "launch" /\ fup[f].run \notin launch /\ UNCHANGED fup
       \/ steer'[f] = "launch" /\ ~SegmentReady /\ fup[f].status = "none"

\* Only a start adds a launch, only an answer or a poll a run to follow, only a new
\* steer a job.
LEMMA JobsMove ==
  ASSUME CoreType, Claude, Next PROVE JobMoves
<1> USE DEF CoreType, JobsType, SessionsType, JobMoves
<1>1. CASE UNCHANGED <<launch, held, steer>>
  BY <1>1
<1>2. ASSUME NEW c \in Calls, call[c] # "none", NEW a, NEW r \in AnsweredHeld(c, a)
      PROVE  r \in held \/ CallsOf(r) # {}
  BY <1>2 DEF AnsweredHeld, CallsOf
<1>3. ASSUME NEW s \in Runs, RunSegment(s) PROVE JobMoves
  BY <1>1, <1>3 DEF RunSegment, ApplyToEnded, ApplyFinished, ApplyFinishedSends, ApplyStopped,
     ApplyFailure, RecoverNext, jobs, sessions
<1>4. ASSUME NEW s \in Runs, RunEvent(s) PROVE JobMoves
  <2>1. CASE LaunchOk(s)
    BY <2>1 DEF LaunchOk
  <2>2. CASE LaunchFails(s)
    BY <2>2 DEF LaunchFails
  <2>3. CASE TurnRuns(s) \/ TurnWaits(s) \/ TurnEndsUnseen(s) \/ \E e \in EndedStatus : TurnEnds(s, e)
    BY <1>1, <2>3 DEF TurnRuns, TurnWaits, TurnEndsUnseen, TurnEnds, jobs, Claude, Codex
  <2>4. ASSUME NEW e, Recover(s, e) PROVE JobMoves
    <3>1. s \in recovery.todo /\ held' \subseteq held \cup {s} /\ UNCHANGED <<launch, steer>>
      BY <2>4 DEF Recover, IsFirst
    <3> QED BY <3>1
  <2>5. ASSUME NEW a \in AnswerKinds, ContinueAnswer(s, a) PROVE JobMoves
    <3>1. /\ held' = AnsweredHeld(<<"continue", s>>, a) /\ UNCHANGED <<launch, steer>>
          /\ <<"continue", s>> \in Calls /\ call[<<"continue", s>>] # "none"
      BY <2>5 DEF ContinueAnswer, Calls, jobs
    <3> QED BY <1>2, <3>1
  <2>6. ASSUME NEW a \in AnswerKinds, NEW f \in Followups, QueueAnswer(s, f, a) PROVE JobMoves
    <3>1. /\ held' = AnsweredHeld(<<"queue", s>>, a) /\ UNCHANGED <<launch, steer>>
          /\ <<"queue", s>> \in Calls /\ call[<<"queue", s>>] # "none"
      BY <2>6 DEF QueueAnswer, Calls
    <3> QED BY <1>2, <3>1
  <2> QED BY <1>4, <2>1, <2>2, <2>3, <2>4, <2>5, <2>6 DEF RunEvent
<1>5. ASSUME NEW f \in Followups, SteerAfterLaunch(f) PROVE JobMoves
  BY <1>5 DEF SteerAfterLaunch, sessions, db
<1>6. ASSUME NEW f \in Followups, NEW code, NEW R, NEW T, NEW K, ConvertSteer(f, code, R, T, K)
      PROVE  \E s \in {"none", "resend"} : steer' = [steer EXCEPT ![f] = s]
  BY <1>6 DEF ConvertSteer
<1>7. ASSUME NEW f \in Followups, SteerSend(f) PROVE JobMoves
  <2>1. UNCHANGED <<launch, held>> /\ \E s \in {"none", "resend", "typing"} : steer' = [steer EXCEPT ![f] = s]
    BY <1>6, <1>7 DEF SteerSend
  <2> QED BY <2>1
<1>8. ASSUME NEW f \in Followups, SteerEvent(f) PROVE JobMoves
  <2>1. ASSUME NEW a \in AnswerKinds, SteerAnswer(f, a) PROVE JobMoves
    <3>1. /\ held' = AnsweredHeld(<<"steer", f>>, a) /\ UNCHANGED launch
          /\ <<"steer", f>> \in Calls /\ call[<<"steer", f>>] # "none"
      BY <2>1 DEF SteerAnswer, Calls
    <3>2. \E s \in {"none", "resend"} : steer' = [steer EXCEPT ![f] = s]
      BY <1>6, <2>1 DEF SteerAnswer
    <3> QED BY <1>2, <3>1, <3>2
  <2>2. ASSUME NEW a \in AnswerKinds, ResendAnswer(f, a) PROVE JobMoves
    <3>1. /\ held' = AnsweredHeld(<<"resend", f>>, a) /\ UNCHANGED launch
          /\ <<"resend", f>> \in Calls /\ call[<<"resend", f>>] # "none"
          /\ steer' = [steer EXCEPT ![f] = "none"]
      BY <2>2 DEF ResendAnswer, Calls
    <3> QED BY <1>2, <3>1
  <2> QED BY <1>8, <2>1, <2>2 DEF SteerEvent
<1>9. ASSUME NEW c \in Calls, CallStep(c) PROVE JobMoves
  BY <1>1, <1>9 DEF CallStep, Resume, Typed, TurnTakes, jobs, Claude, Codex
<1>10. CASE BoardStep /\ ~SegmentReady
  <2>1. ASSUME NEW t \in Tasks, StartTask(t) PROVE JobMoves
    <3>1. PICK n \in Runs :
            UnusedRun(n) /\ run' = NewRun(n, t, 0) /\ launch' = launch \cup {n}
      BY <2>1 DEF StartTask
    <3>2. run[n].status = "none" /\ run'[n].status = "starting"
      BY <3>1 DEF UnusedRun, NewRun, RowsType, RunRows
    <3>3. UNCHANGED <<call, steer, held, chain, req>>
      BY <2>1 DEF StartTask, sessions
    <3>4. \A f \in Followups : fup'[f].run = fup[f].run
      BY <2>1 DEF StartTask, Cancel, RowsType, FollowupRows
    <3> QED BY <3>1, <3>2, <3>3, <3>4
  <2>2. ASSUME NEW t \in Tasks, NEW mode \in {"queue", "steer"}, SendFollowup(t, mode) PROVE JobMoves
    <3>1. PICK f \in Followups : /\ fup[f].status = "none"
                                 /\ UNCHANGED steer \/ steer' = [steer EXCEPT ![f] = "launch"]
      BY <2>2 DEF SendFollowup, UnusedFollowup
    <3>2. UNCHANGED <<launch, held>>
      BY <2>2 DEF SendFollowup, sessions
    <3> QED BY <1>10, <3>1, <3>2
  <2>3. ASSUME NEW t \in Tasks, ContinueTask(t) PROVE JobMoves
    BY <1>1, <2>3 DEF ContinueTask, jobs
  <2>4. \/ \E t \in Tasks : StartTask(t) \/ ContinueTask(t)
        \/ \E t \in Tasks, mode \in {"queue", "steer"} : SendFollowup(t, mode)
        \/ UNCHANGED <<launch, held, steer>>
    BY <1>10 DEF BoardStep, StopIdleTask, HandMove, ReworkTask, RestoreTask, ArchiveUnstarted, jobs, sessions
  <2> QED BY <1>1, <2>1, <2>2, <2>3, <2>4
<1>11. ASSUME NEW q \in Requests, RequestSegment(q) \/ RequestEvent(q) PROVE JobMoves
  BY <1>1, <1>11 DEF RequestSegment, RequestEvent, StopRequest, ArchiveRequest, StopSignals, StopSettles,
     StopReturns, ApplyRequest, CloseSessions, StopAnswer, jobs, sessions
<1>12. CASE Restart
  BY <1>12 DEF Restart
<1>13. ~AppServerTerminates
  BY DEF AppServerTerminates, Claude, Codex
<1> QED BY <1>3, <1>4, <1>5, <1>7, <1>8, <1>9, <1>10, <1>11, <1>12, <1>13, SegmentOrEvent
        DEF SegmentStep, EventStep

-----------------------------------------------------------------------------
(* The parts of the invariant *)

\* What RunServiceProofs proves of the rows and the jobs
Rows == CoreType /\ Sending /\ Owned /\ RunsHaveTasks /\ RowsLinked

\* Nothing goes on for a run that was not created yet.
BlankRuns ==
  \A r \in Runs : run[r].status = "none" =>
    /\ r \notin launch /\ r \notin held /\ r \notin recovery.todo
    /\ chain[r] = <<>> /\ call[<<"continue", r>>] = "none"

\* A finished update that sends a queue has a call in flight.
SendingHasCall == \A r \in Runs : finishing[r] # {} => call[<<"queue", r>>] # "none"

\* A steer of run r is at one of the awaits W.
Steered(r, W) == \E f \in Followups : fup[f].run = r /\ steer[f] \in W

\* Nothing else happens to a run until its launch has an answer.
LaunchesAlone ==
  \A r \in launch :
    /\ run[r].status = "starting" /\ r \notin held /\ r \notin recovery.todo
    /\ chain[r] = <<>> /\ CallsOf(r) = {} /\ ~Steered(r, {"delivery"})
    /\ \A q \in Requests : req[q].run = r => req[q].pc \in {"idle", "launch"}

\* Nobody sends a message to run r, and nobody is about to.
Alone(r) == CallsOf(r) = {} /\ r \notin launch /\ ~Steered(r, {"launch", "delivery"})

\* The updates of a run: one of recovery comes last, and while one of the poller waits to
\* be applied, the turn is over and the session is left alone.
UpdatesInOrder ==
  \A r \in Runs :
    /\ \A i \in DOMAIN chain[r] :
         /\ chain[r][i].recovery =>
              IsFirst(r, recovery.todo) /\ recovery.applying /\ chain[r][i].status # "stopped"
         /\ i > 1 => chain[r][i].recovery
    /\ chain[r] # <<>> /\ ~chain[r][1].recovery /\ finishing[r] = {} => Alone(r) /\ turn[r] = "idle"

\* A stop the provider answered: nobody else is at the session, or there is none.
StopsAlone ==
  \A q \in Requests :
    LET r == req[q].run IN
    /\ req[q].pc = "stopping" => run[r].session # 0
    /\ req[q].pc = "delivery" =>
         \/ /\ Alone(r) /\ chain[r] = <<>> /\ run[r].session # 0
            /\ req[q].ok => turn[r] = "idle"
         \/ req[q].ok /\ run[r].session = 0 /\ run[r].status \in {"stopping"} \cup EndedStatus

\* A continuation has a session to go to.
ContinuesSession == \A r \in Runs : call[<<"continue", r>>] # "none" => run[r].session # 0

\* A message that is not entered yet never will be once its run is being stopped.
StopCallsOff ==
  \A c \in Calls :
    /\ call[c] # "starting"
    /\ call[c] = "open" => run[CallRun(c)].status \notin {"stopping", "stopped"}

\* A run has a session once its launch is over, unless it failed.
SessionKnown ==
  \A r \in Runs : run[r].session = 0 => run[r].status \in {"none", "failed"} \/ r \in launch

\* A stopped run rests.
StoppedRests ==
  \A r \in Runs : run[r].status = "stopped" => CallsOf(r) = {} /\ turn[r] \in {"none", "idle"}

\* The run of a stop that waits for the session ends or stays as the stop found it, no
\* message waits behind the stop, and the poller keeps silent or has nothing to report.
StopsFirst ==
  /\ \A c \in Calls : call[c] # "behind"
  /\ \A q \in Requests : req[q].pc = "stopping" =>
       LET r == req[q].run IN
       /\ run[r].status \in {"stopping"} \cup EndedStatus
       /\ \A c \in CallsOf(r) : call[c] # "open"
       /\ r \in muted \/ (CallsOf(r) = {} /\ turn[r] = "idle")

\* The interrupt of a stop is always confirmed.
StopsConfirmed == \A q \in Requests : req[q].pc = "delivery" => req[q].ok

\* One request waits in its handler.
OneRequest == \A p, q \in Requests : req[p].pc # "idle" /\ req[q].pc # "idle" => p = q

CallsInv ==
  /\ BlankRuns /\ SendingHasCall /\ LaunchesAlone /\ UpdatesInOrder /\ StopsAlone
  /\ ContinuesSession /\ StopCallsOff /\ SessionKnown /\ StoppedRests /\ StopsFirst
  /\ ~setup.stopMayFail => StopsConfirmed
  /\ setup.requests < 2 => OneRequest

-----------------------------------------------------------------------------
(* Every step keeps them *)

\* No call belongs to a run that was not created yet.
LEMMA NoCallsYet ==
  ASSUME Rows, BlankRuns, NEW r \in Runs, run[r].status = "none" PROVE CallsOf(r) = {}
<1> SUFFICES ASSUME NEW c \in Calls, call[c] # "none", CallRun(c) = r PROVE FALSE
  BY DEF CallsOf
<1>1. CASE c \in {"continue", "queue"} \X Runs
  <2>1. c = <<"continue", r>> \/ c = <<"queue", r>>
    BY <1>1 DEF CallRun
  <2>2. c # <<"continue", r>>
    BY DEF BlankRuns
  <2>3. PICK f \in Followups : f \in finishing[r]
    BY <2>1, <2>2 DEF Rows, Sending, CoreType, JobsType
  <2> QED BY <2>3 DEF Rows, RowsLinked, UsedBy
<1>2. CASE c \in {"steer", "resend"} \X Followups
  <2>1. PICK k \in {"steer", "resend"}, f \in Followups : c = <<k, f>>
    BY <1>2
  <2>2. fup[f].run = r
    BY <2>1 DEF CallRun
  <2> QED BY <2>2 DEF Rows, RowsLinked, UsedBy, Runs
<1> QED BY <1>1, <1>2 DEF Calls

\* No message waits behind a stop.
LEMMA NoneBehind == ASSUME StopsFirst, NEW c \in Calls PROVE ~BehindStop(c)
<1> SUFFICES ASSUME call[c] = "open", NEW q \in StopsOf(CallRun(c)) PROVE FALSE
  BY DEF BehindStop, StopsFirst
<1>1. c \in CallsOf(CallRun(c))
  BY DEF CallsOf
<1> QED BY <1>1 DEF StopsOf, StopsFirst

\* The poller reports a turn that nobody types into and nobody is stopping.
LEMMA PolledAlone ==
  ASSUME StopsFirst, Claude, NEW r \in Runs, NEW s, TurnEnds(r, s)
  PROVE  /\ r \in held /\ CallsOf(r) = {}
         /\ \A q \in Requests : req[q].pc = "stopping" => req[q].run # r
<1>1. Polled(r) /\ turn[r] # "idle"
  BY DEF TurnEnds
<1>2. CallsOf(r) = {}
  BY <1>1, NoneBehind DEF Polled, CallsOf
<1> QED BY <1>1, <1>2 DEF Polled, StopsFirst

\* A run that was not created yet has been left alone.
LEMMA BlankRunsStep ==
  ASSUME Rows, BlankRuns, Claude, Next PROVE BlankRuns'
<1> USE DEF Rows
<1> SUFFICES ASSUME NEW r \in Runs, run'[r].status = "none"
             PROVE  /\ r \notin launch' /\ r \notin held' /\ r \notin recovery'.todo
                    /\ chain'[r] = <<>> /\ call'[<<"continue", r>>] = "none"
  BY DEF BlankRuns
<1>1. run[r].status = "none"
  BY UsedRunsStay
<1>2. /\ r \notin launch /\ r \notin held /\ r \notin recovery.todo
      /\ chain[r] = <<>> /\ call[<<"continue", r>>] = "none" /\ CallsOf(r) = {}
  BY <1>1, NoCallsYet DEF BlankRuns
<1>3. r \notin launch' /\ r \notin held'
  BY <1>2, JobsMove DEF JobMoves
<1>4. r \notin recovery'.todo
  <2>1. CASE Restart
    BY <1>1, <2>1 DEF Restart, Active, ActiveStatus
  <2> QED BY <1>2, <2>1, RecoveryShrinks
<1>5. chain'[r] = <<>>
  BY <1>2, ChainChange DEF UpdatesMove, TurnEnds, Polled, IsFirst
<1>6. call'[<<"continue", r>>] = "none"
  <2>1. CallMoves(<<"continue", r>>)
    BY CallsChange DEF Calls
  <2>2. ~Opens(<<"continue", r>>)
    BY DEF Opens
  <2> QED BY <1>2, <2>1, <2>2 DEF CallMoves
<1> QED BY <1>3, <1>4, <1>5, <1>6

\* An update that sends a queue keeps its call.
LEMMA SendingHasCallStep ==
  ASSUME Rows, SendingHasCall, Claude, Next PROVE SendingHasCall'
<1> USE DEF Rows, CoreType, JobsType, SessionsType, CallStates, Calls
<1> SUFFICES ASSUME NEW r \in Runs, finishing'[r] # {} PROVE call'[<<"queue", r>>] # "none"
  BY DEF SendingHasCall
<1>1. \A kind, s : NewCall(kind, s) # "none"
  BY DEF NewCall
<1>2. ASSUME UNCHANGED finishing, \A s \in Runs : call'[<<"queue", s>>] = call[<<"queue", s>>]
      PROVE  call'[<<"queue", r>>] # "none"
  BY <1>2 DEF SendingHasCall
<1>3. ASSUME NEW s \in Runs, RunStep(s) PROVE call'[<<"queue", r>>] # "none"
  <2>1. CASE ApplyFinishedSends(s)
    <3>1. CASE r = s
      BY <1>1, <2>1, <3>1 DEF ApplyFinishedSends
    <3>2. CASE r # s
      BY <2>1, <3>2 DEF ApplyFinishedSends, SendingHasCall
    <3> QED BY <3>1, <3>2
  <2>2. ASSUME NEW a \in AnswerKinds, ContinueAnswer(s, a) PROVE call'[<<"queue", r>>] # "none"
    BY <1>2, <2>2 DEF ContinueAnswer, jobs
  <2>3. ASSUME NEW a \in AnswerKinds, NEW f \in Followups, QueueAnswer(s, f, a)
        PROVE  call'[<<"queue", r>>] # "none"
    <3>1. CASE r = s
      BY <1>1, <2>3, <3>1 DEF QueueAnswer
    <3>2. CASE r # s
      BY <2>3, <3>2 DEF QueueAnswer, SendingHasCall
    <3> QED BY <3>1, <3>2
  <2> QED
    BY <1>2, <1>3, <2>1, <2>2, <2>3
    DEF RunStep, LaunchOk, LaunchFails, TurnRuns, TurnWaits, TurnEndsUnseen, TurnEnds, Recover,
        RecoverNext, ApplyToEnded, ApplyFinished, ApplyStopped, ApplyFailure, sessions, jobs
<1>4. ASSUME NEW f \in Followups, SteerStep(f) PROVE call'[<<"queue", r>>] # "none"
  <2>1. UNCHANGED finishing
    BY <1>4 DEF SteerStep, SteerAfterLaunch, SteerSend, SteerAnswer, ResendAnswer
  <2>2. ASSUME NEW code, NEW R, NEW T, NEW K, ConvertSteer(f, code, R, T, K),
               K = call \/ K = [call EXCEPT ![<<"steer", f>>] = "none"]
        PROVE  \A s \in Runs : call'[<<"queue", s>>] = call[<<"queue", s>>]
    <3>1. K \in CallStates /\ \A s \in Runs : K[<<"queue", s>>] = call[<<"queue", s>>]
      BY <2>2
    <3>2. call' = K \/ \E n : call' = [K EXCEPT ![<<"resend", f>>] = n]
      BY <2>2 DEF ConvertSteer
    <3> QED BY <3>1, <3>2
  <2>3. \A s \in Runs : call'[<<"queue", s>>] = call[<<"queue", s>>]
    <3>1. SteerAfterLaunch(f) => UNCHANGED call
      BY DEF SteerAfterLaunch, sessions
    <3>2. SteerSend(f) => \/ call' = [call EXCEPT ![<<"steer", f>>] = "open"] \/ UNCHANGED call
                          \/ \E code : ConvertSteer(f, code, run, turn, call)
      BY DEF SteerSend
    <3>3. ASSUME NEW a \in AnswerKinds, SteerAnswer(f, a)
          PROVE  \/ call' = [call EXCEPT ![<<"steer", f>>] = "none"]
                 \/ \E code, R, T : ConvertSteer(f, code, R, T, [call EXCEPT ![<<"steer", f>>] = "none"])
      BY <3>3 DEF SteerAnswer
    <3>4. ASSUME NEW a \in AnswerKinds, ResendAnswer(f, a)
          PROVE  call' = [call EXCEPT ![<<"resend", f>>] = "none"]
      BY <3>4 DEF ResendAnswer
    <3> QED BY <1>4, <2>2, <3>1, <3>2, <3>3, <3>4 DEF SteerStep
  <2> QED BY <1>2, <2>1, <2>3
<1>5. ASSUME NEW c \in Calls, CallStep(c) PROVE call'[<<"queue", r>>] # "none"
  BY <1>5 DEF CallStep, Resume, Typed, TurnTakes, SendingHasCall, jobs, Claude, Codex
<1>6. CASE BoardStep
  <2>1. UNCHANGED finishing
    BY <1>6 DEF BoardStep, StartTask, ContinueTask, SendFollowup, StopIdleTask, HandMove, ReworkTask,
       RestoreTask, ArchiveUnstarted, jobs
  <2>2. UNCHANGED call \/ \E s, n : call' = [call EXCEPT ![<<"continue", s>>] = n]
    BY <1>6 DEF BoardStep, StartTask, ContinueTask, SendFollowup, StopIdleTask, HandMove, ReworkTask,
       RestoreTask, ArchiveUnstarted, sessions
  <2> QED BY <1>2, <2>1, <2>2
<1>7. CASE RequestStep
  <2>1. UNCHANGED finishing
    BY <1>7 DEF RequestStep, StopRequest, ArchiveRequest, StopSignals, StopSettles, StopReturns,
       ApplyRequest, CloseSessions, StopAnswer, jobs
  <2>2. UNCHANGED call \/ \E s : call' = CalledOff(s)
    BY <1>7 DEF RequestStep, StopRequest, ArchiveRequest, StopSignals, StopSettles, StopReturns,
       ApplyRequest, CloseSessions, StopAnswer, sessions
  <2> QED BY <2>1, <2>2 DEF CalledOff, SendingHasCall
<1>8. CASE Restart \/ AppServerTerminates
  BY <1>8 DEF Restart, AppServerTerminates, Claude, Codex
<1> QED BY <1>3, <1>4, <1>5, <1>6, <1>7, <1>8, Steps DEF ProviderStep

\* The calls that carry the name of their run belong to it.
LEMMA NamedCalls ==
  ASSUME NEW r \in Runs
  PROVE  /\ call[<<"continue", r>>] # "none" => <<"continue", r>> \in CallsOf(r)
         /\ call[<<"queue", r>>] # "none" => <<"queue", r>> \in CallsOf(r)
BY DEF CallsOf, Calls, CallRun

\* A step other than the sending of its queue leaves a run alone that was, while a
\* segment is ready.
LEMMA AloneStays ==
  ASSUME Rows, Claude, Next, ~Restart, SegmentReady, NEW r \in Runs, run[r].status # "none", Alone(r),
         ~ApplyFinishedSends(r)
  PROVE  Alone(r)'
<1> USE DEF Rows
<1>1. ~GetsCall(r)
  BY NamedCalls DEF GetsCall, Alone, Steered, SteerSend
<1>2. CallsOf(r)' = {}
  <2> SUFFICES ASSUME NEW c \in Calls, call'[c] # "none", CallRun(c)' = r PROVE FALSE
    BY DEF CallsOf
  <2> QED BY <1>1, CallsOfChange DEF Alone
<1>3. r \notin launch'
  BY JobsMove DEF JobMoves, Alone
<1>4. ASSUME NEW f \in Followups, fup'[f].run = r, steer'[f] \in {"launch", "delivery"}
      PROVE  FALSE
  <2>1. steer[f] \in {"launch", "delivery"}
    BY <1>4, JobsMove DEF JobMoves
  <2>2. fup[f].status # "none"
    <3>1. fup[f].run \in Runs
      BY <2>1 DEF Owned
    <3> QED BY <3>1 DEF RowsLinked, Runs
  <2>3. fup[f].run # r
    BY <2>1 DEF Alone, Steered
  <2>4. ~SameOwner(f)
    BY <1>4, <2>3 DEF SameOwner
  <2>5. ~SentBy(f)
    <3>1. fup'[f].run = r /\ call[<<"queue", r>>] = "none"
      BY <1>4, NamedCalls DEF Alone
    <3> QED BY <3>1 DEF SentBy
  <2> QED BY <1>4, <2>2, <2>4, <2>5, OwnersChange DEF OwnerChange, Saved, Reopened
<1> QED BY <1>2, <1>3, <1>4 DEF Alone, Steered

\* A turn that is over stays so for a run that is alone, while a segment is ready.
LEMMA TurnStaysOver ==
  ASSUME Rows, Claude, Next, ~Restart, SegmentReady, NEW r \in Runs, Alone(r), turn[r] = "idle"
  PROVE  turn'[r] = "idle"
BY TurnChange DEF Rows, TurnMoves, Alone

\* A segment is ready behind a stop that was answered.
LEMMA StopReady ==
  ASSUME Rows, StopsAlone, ContinuesSession, NEW q \in Requests, req[q].pc = "delivery"
  PROVE  SegmentReady
<1>1. req[q].run \in Runs
  BY DEF Rows, RowsLinked, UsedBy
<1>2. call[<<"continue", req[q].run>>] = "none"
  BY <1>1 DEF StopsAlone, ContinuesSession, Alone, CallsOf, Calls, CallRun
<1> QED BY <1>2 DEF SegmentReady

\* The first update of a run stays until it is applied; nothing joins the chain of a
\* run that is alone while a segment is ready.
LEMMA ChainStays ==
  ASSUME Rows, Claude, Next, SegmentReady, NEW r \in Runs, chain[r] = <<>>
  PROVE  chain'[r] = <<>>
BY ChainChange DEF Rows, UpdatesMove

\* A run that has a session keeps one.
LEMMA SessionStays ==
  ASSUME Rows, Claude, Next, NEW r \in Runs, run[r].status # "none", run[r].session # 0
  PROVE  run'[r].session # 0
<1>1. LaunchOk(r) \/ LaunchFails(r) => run'[r].session \in {run[r].session, r}
  BY DEF LaunchOk, LaunchFails, FailLaunch, Rows, CoreType, RowsType, RunRows
<1>2. run'[r].session \in {run[r].session, r}
  BY <1>1, RunsMove DEF Rows, RunMoves, IsNew, AnswerMoves, SegmentMoves
<1> QED BY <1>2 DEF Runs

\* While a run is launched, nothing else happens to it.
LEMMA LaunchesAloneStep ==
  ASSUME Rows, CoreType', BlankRuns, LaunchesAlone, Claude, Next PROVE LaunchesAlone'
<1> USE DEF Rows
<1> SUFFICES ASSUME NEW r \in launch'
             PROVE  /\ run'[r].status = "starting" /\ r \notin held' /\ r \notin recovery'.todo
                    /\ chain'[r] = <<>> /\ CallsOf(r)' = {} /\ ~Steered(r, {"delivery"})'
                    /\ \A q \in Requests : req'[q].run = r => req'[q].pc \in {"idle", "launch"}
  BY DEF LaunchesAlone
<1>1. ~Restart
  BY DEF Restart
<1>2. CASE r \notin launch
  <2>1. /\ run[r].status = "none" /\ run'[r].status = "starting"
        /\ UNCHANGED <<call, steer, held, chain, req>> /\ \A f \in Followups : fup'[f].run = fup[f].run
    BY <1>2, JobsMove DEF JobMoves
  <2>2. r \in Runs
    BY DEF CoreType, JobsType
  <2>3. /\ r \notin held /\ r \notin recovery.todo /\ chain[r] = <<>> /\ CallsOf(r) = {}
    BY <2>1, <2>2, NoCallsYet DEF BlankRuns
  <2>4. CallsOf(r)' = {}
    BY <2>1, <2>3 DEF CallsOf, CallRun, Calls
  <2>5. ~Steered(r, {"delivery"})'
    BY <2>1, <2>2 DEF Steered, RowsLinked, UsedBy, Runs
  <2>6. \A q \in Requests : req'[q].run = r => req'[q].pc \in {"idle", "launch"}
    BY <2>1, <2>2 DEF RowsLinked, UsedBy, Runs
  <2> QED BY <1>1, <2>1, <2>3, <2>4, <2>5, <2>6, RecoveryShrinks
<1>3. CASE r \in launch
  <2>1. /\ run[r].status = "starting" /\ r \notin held /\ r \notin recovery.todo /\ r \in Runs
        /\ chain[r] = <<>> /\ CallsOf(r) = {} /\ ~Steered(r, {"delivery"})
        /\ \A q \in Requests : req[q].run = r => req[q].pc \in {"idle", "launch"}
    BY <1>3 DEF LaunchesAlone, CoreType, JobsType
  <2>2. ~LaunchOk(r) /\ ~LaunchFails(r)
    BY DEF LaunchOk, LaunchFails
  <2>3. run'[r].status = "starting"
    <3>1. ~SegmentMoves(r)
      BY <1>3, <2>1 DEF SegmentMoves, ApplyFinished, ApplyFinishedSends, ApplyStopped, ApplyFailure,
         StopSignals, StopSettles
    <3> QED BY <2>1, <2>2, <3>1, RunsMove DEF RunMoves, IsNew, AnswerMoves
  <2>4. r \notin held'
    BY <2>1, JobsMove DEF JobMoves
  <2>5. r \notin recovery'.todo
    BY <1>1, <2>1, RecoveryShrinks
  <2>6. chain'[r] = <<>>
    BY <2>1, ChainChange DEF UpdatesMove, TurnEnds, Polled, IsFirst
  <2>7. ~GetsCall(r)
    BY <2>1, NamedCalls DEF GetsCall, Steered, SteerSend, ApplyFinishedSends
  <2>8. CallsOf(r)' = {}
    <3> SUFFICES ASSUME NEW c \in Calls, call'[c] # "none", CallRun(c)' = r PROVE FALSE
      BY DEF CallsOf
    <3> QED BY <2>1, <2>7, CallsOfChange
  <2>9. ASSUME NEW f \in Followups, fup'[f].run = r, steer'[f] = "delivery" PROVE FALSE
    <3>1. \/ steer[f] = "delivery"
          \/ steer[f] = "launch" /\ fup[f].run \notin launch /\ UNCHANGED fup
      BY <2>9, JobsMove DEF JobMoves
    <3>2. fup[f].run # r /\ steer[f] # "none"
      BY <1>3, <2>1, <2>9, <3>1 DEF Steered
    <3>3. fup[f].status # "none"
      <4>1. fup[f].run \in Runs
        BY <3>2 DEF Owned
      <4> QED BY <4>1 DEF RowsLinked, Runs
    <3>4. ~SameOwner(f)
      BY <2>9, <3>2 DEF SameOwner
    <3>5. ~SentBy(f)
      <4>1. fup'[f].run = r /\ call[<<"queue", r>>] = "none"
        BY <2>1, <2>9, NamedCalls
      <4> QED BY <4>1 DEF SentBy
    <3> QED BY <2>1, <2>9, <3>3, <3>4, <3>5, OwnersChange DEF OwnerChange, Saved, Reopened
  <2>10. ASSUME NEW q \in Requests, req'[q].run = r PROVE req'[q].pc \in {"idle", "launch"}
    <3>1. CASE StopSignals(q)
      BY <1>3, <2>10, <3>1 DEF StopSignals, At, CoreType, RequestsType, Handlers
    <3>2. CASE StopSettles(q) \/ StopReturns(q) \/ ApplyRequest(q)
      BY <2>1, <2>10, <3>2 DEF StopSettles, StopReturns, ApplyRequest, At, Reply, IdleRequest,
         CoreType, RequestsType, Handlers
    <3>3. CASE RequestEvent(q)
      <4>1. ASSUME NEW t, NEW kind, NEW dest, StopRequest(q, t, kind, dest) PROVE req'[q].pc = "launch"
        BY <4>1 DEF StopRequest, Waiting, CoreType, RequestsType
      <4>2. ASSUME NEW t, ArchiveRequest(q, t) PROVE req'[q].run = 0
        BY <4>2 DEF ArchiveRequest, IdleRequest, CoreType, RequestsType
      <4>3. ASSUME CloseSessions(q) \/ \E ok \in BOOLEAN : StopAnswer(q, ok)
            PROVE req'[q].run = req[q].run /\ req[q].pc \in {"closing", "stopping"}
        BY <4>3 DEF CloseSessions, StopAnswer, At, CoreType, RequestsType, Handlers
      <4> QED BY <2>1, <2>10, <3>3, <4>1, <4>2, <4>3 DEF RequestEvent, Runs
    <3> QED BY <1>1, <2>1, <2>10, <3>1, <3>2, <3>3, RequestsChange DEF RequestMoves
  <2> QED BY <2>3, <2>4, <2>5, <2>6, <2>8, <2>9, <2>10 DEF Steered
<1> QED BY <1>2, <1>3

\* Recovery waits for the update it added.
LEMMA RecoveryWaits ==
  ASSUME Rows, Next, ~Restart, NEW r \in Runs, IsFirst(r, recovery.todo), recovery.applying, Awaited(r)
  PROVE  recovery' = recovery
<1>1. ASSUME NEW s \in Runs, RecoverNext(s) PROVE FALSE
  <2>1. s \in recovery.todo /\ r <= s /\ s <= r /\ ~Awaited(s)
    BY <1>1 DEF RecoverNext, IsFirst
  <2>2. s = r
    BY <2>1 DEF Runs
  <2> QED BY <2>1, <2>2
<1>2. ASSUME NEW s \in Runs, RunStep(s) PROVE recovery' = recovery
  BY <1>1, <1>2 DEF RunStep, LaunchOk, LaunchFails, ContinueAnswer, QueueAnswer, TurnRuns, TurnWaits,
     TurnEndsUnseen, TurnEnds, Recover, ApplyToEnded, ApplyFinished, ApplyFinishedSends, ApplyStopped,
     ApplyFailure, boot
<1>3. ASSUME NEW f \in Followups, SteerStep(f) PROVE recovery' = recovery
  BY <1>3 DEF SteerStep, SteerAfterLaunch, SteerSend, SteerAnswer, ResendAnswer, boot
<1>4. ASSUME NEW c \in Calls, CallStep(c) PROVE recovery' = recovery
  BY <1>4 DEF CallStep, Resume, Typed, TurnTakes, boot
<1>5. BoardStep \/ AppServerTerminates => recovery' = recovery
  BY DEF BoardStep, StartTask, ContinueTask, SendFollowup, StopIdleTask, HandMove, ReworkTask,
     RestoreTask, ArchiveUnstarted, AppServerTerminates, boot
<1>6. RequestStep => recovery' = recovery
  BY DEF RequestStep, StopRequest, ArchiveRequest, StopSignals, StopSettles, StopReturns,
     ApplyRequest, CloseSessions, StopAnswer, boot
<1> QED BY <1>2, <1>3, <1>4, <1>5, <1>6, Steps DEF ProviderStep

\* What the first await of a steer, and of a delivery, says while no segment is ready
LEMMA NoSteerReady ==
  ASSUME Rows, ~SegmentReady, NEW r \in Runs, r \notin launch, CallsOf(r) = {}
  PROVE  Alone(r)
BY NamedCalls DEF SegmentReady, Alone, Steered

\* The updates of a run of Claude stay in order: the poller adds one only to an idle
\* chain, recovery one to a run nobody works on.
LEMMA UpdatesInOrderStep ==
  ASSUME Rows, CoreType', BlankRuns, SendingHasCall, LaunchesAlone, UpdatesInOrder, StopsFirst, Claude, Next
  PROVE  UpdatesInOrder'
<1> USE DEF Rows
<1> SUFFICES ASSUME NEW r \in Runs
             PROVE  /\ \A i \in DOMAIN chain'[r] :
                         /\ chain'[r][i].recovery =>
                              /\ IsFirst(r, recovery'.todo) /\ recovery'.applying
                              /\ chain'[r][i].status # "stopped"
                         /\ i > 1 => chain'[r][i].recovery
                    /\ chain'[r] # <<>> /\ ~chain'[r][1].recovery /\ finishing'[r] = {} =>
                         Alone(r)' /\ turn'[r] = "idle"
  BY DEF UpdatesInOrder
<1>1. chain[r] \in Seq(Updates)
  BY DEF CoreType, JobsType
<1>2. /\ \A i \in DOMAIN chain[r] :
           /\ chain[r][i].recovery =>
                IsFirst(r, recovery.todo) /\ recovery.applying /\ chain[r][i].status # "stopped"
           /\ i > 1 => chain[r][i].recovery
      /\ chain[r] # <<>> /\ ~chain[r][1].recovery /\ finishing[r] = {} => Alone(r) /\ turn[r] = "idle"
  BY DEF UpdatesInOrder
<1>3. ~SegmentReady /\ chain[r] # <<>> => finishing[r] # {}
  BY DEF SegmentReady
<1>4. ASSUME ~Restart, NEW i \in DOMAIN chain[r], chain[r][i].recovery PROVE recovery' = recovery
  BY <1>2, <1>4, RecoveryWaits DEF Awaited
<1>5. CASE chain'[r] = <<>>
  BY <1>5
<1>6. CASE chain'[r] = chain[r] /\ (finishing[r] # {} => finishing'[r] # {}) /\ chain[r] # <<>>
  <2>1. ~Restart
    BY <1>6 DEF Restart
  <2>2. ASSUME ~chain[r][1].recovery, finishing'[r] = {} PROVE Alone(r)' /\ turn'[r] = "idle"
    <3>1. Alone(r) /\ turn[r] = "idle" /\ SegmentReady
      BY <1>2, <1>3, <1>6, <2>2
    <3>2. ~ApplyFinishedSends(r)
      BY <2>2 DEF ApplyFinishedSends, CoreType, JobsType
    <3>3. run[r].status # "none"
      BY <1>6 DEF BlankRuns
    <3> QED BY <2>1, <3>1, <3>2, <3>3, AloneStays, TurnStaysOver
  <2> QED BY <1>2, <1>4, <1>6, <2>1, <2>2
<1>7. CASE chain[r] # <<>> /\ chain'[r] = Tail(chain[r]) /\ chain'[r] # <<>>
  <2>1. ~Restart
    BY <1>7 DEF Restart
  <2>2. \A i \in DOMAIN chain'[r] : i + 1 \in DOMAIN chain[r] /\ i + 1 > 1 /\ chain'[r][i] = chain[r][i + 1]
    BY <1>1, <1>7
  <2>3. 1 \in DOMAIN chain'[r]
    BY <1>1, <1>7
  <2> QED BY <1>2, <1>4, <2>1, <2>2, <2>3
<1>8. ASSUME ~SegmentReady, NEW s \in EndedStatus, TurnEnds(r, s),
             chain'[r] = Append(chain[r], Update(s, FALSE)), UNCHANGED finishing
      PROVE  /\ \A i \in DOMAIN chain'[r] :
                  /\ chain'[r][i].recovery =>
                       /\ IsFirst(r, recovery'.todo) /\ recovery'.applying
                       /\ chain'[r][i].status # "stopped"
                  /\ i > 1 => chain'[r][i].recovery
             /\ Alone(r)' /\ turn'[r] = "idle"
  <2>1. CallsOf(r) = {} /\ r \in held
    BY <1>8, PolledAlone
  <2>2. chain[r] = <<>>
    BY <1>3, <1>8, <2>1, NamedCalls DEF SendingHasCall
  <2>3. chain'[r] = <<Update(s, FALSE)>>
    BY <1>8, <2>2
  <2>4. r \notin launch
    BY <2>1 DEF LaunchesAlone
  <2>5. Alone(r)
    BY <1>8, <2>1, <2>4, NoSteerReady
  <2>6. UNCHANGED <<call, launch, steer, fup>> /\ turn'[r] = "idle"
    BY <1>8 DEF TurnEnds, db, CoreType, SessionsType, TurnStates
  <2>7. Alone(r)'
    BY <2>5, <2>6 DEF Alone, CallsOf, CallRun, Steered
  <2> QED BY <2>3, <2>6, <2>7 DEF Update
<1>9. ASSUME ~SegmentReady, NEW s \in {"finished", "interrupted"}, IsFirst(r, recovery.todo),
             ~recovery.applying, recovery' = [recovery EXCEPT !.applying = TRUE],
             chain'[r] = Append(chain[r], Update(s, TRUE)), UNCHANGED finishing
      PROVE  /\ \A i \in DOMAIN chain'[r] :
                  /\ chain'[r][i].recovery =>
                       /\ IsFirst(r, recovery'.todo) /\ recovery'.applying
                       /\ chain'[r][i].status # "stopped"
                  /\ i > 1 => chain'[r][i].recovery
             /\ chain'[r] # <<>> /\ ~chain'[r][1].recovery => finishing'[r] # {}
  <2>1. recovery'.todo = recovery.todo /\ recovery'.applying
    BY <1>9 DEF CoreType, BootType
  <2>2. ASSUME NEW i \in DOMAIN chain'[r]
        PROVE  (i \in DOMAIN chain[r] /\ chain'[r][i] = chain[r][i]) \/ chain'[r][i] = Update(s, TRUE)
    BY <1>1, <1>9, <2>2 DEF Update, Updates, EndedStatus
  <2>3. chain[r] = <<>> => chain'[r][1] = Update(s, TRUE)
    BY <1>1, <1>9
  <2>4. chain[r] # <<>> => chain'[r][1] = chain[r][1] /\ 1 \in DOMAIN chain[r]
    BY <1>1, <1>9 DEF Update, Updates, EndedStatus
  <2> QED BY <1>2, <1>3, <1>9, <2>1, <2>2, <2>3, <2>4 DEF Update
<1> QED BY <1>5, <1>6, <1>7, <1>8, <1>9, ChainChange DEF UpdatesMove

\* A stop that was answered finds the run as the answer left it.
LEMMA StopsAloneStep ==
  ASSUME Rows, CoreType', BlankRuns, SendingHasCall, LaunchesAlone, StopsAlone, ContinuesSession,
         StopsFirst, Claude, Next
  PROVE  StopsAlone'
<1> USE DEF Rows
<1> SUFFICES ASSUME NEW q \in Requests, NEW r, req'[q].run = r, req'[q].pc \in {"stopping", "delivery"}
             PROVE  /\ req'[q].pc = "stopping" => run'[r].session # 0
                    /\ req'[q].pc = "delivery" =>
                         \/ /\ Alone(r)' /\ chain'[r] = <<>> /\ run'[r].session # 0
                            /\ req'[q].ok => turn'[r] = "idle"
                         \/ /\ req'[q].ok /\ run'[r].session = 0
                            /\ run'[r].status \in {"stopping"} \cup EndedStatus
  BY DEF StopsAlone, Alone, CallsOf, Steered
<1>1. ~Restart
  BY DEF Restart, IdleRequest
<1>2. CASE req'[q] = req[q]
  <2>1. req[q].run = r /\ r \in Runs /\ run[r].status # "none"
    BY <1>2 DEF RowsLinked, UsedBy
  <2>2. CASE req[q].pc = "stopping"
    <3>1. run[r].session # 0
      BY <2>1, <2>2 DEF StopsAlone
    <3>2. run'[r].session # 0
      BY <2>1, <3>1, SessionStays
    <3> QED BY <1>2, <2>2, <3>2
  <2>3. CASE /\ req[q].pc = "delivery" /\ Alone(r) /\ chain[r] = <<>> /\ run[r].session # 0
             /\ req[q].ok => turn[r] = "idle"
    <3>1. SegmentReady
      BY <2>3, StopReady
    <3>2. ~ApplyFinishedSends(r)
      BY <2>3 DEF ApplyFinishedSends
    <3>3. Alone(r)' /\ chain'[r] = <<>> /\ run'[r].session # 0 /\ (req[q].ok => turn'[r] = "idle")
      BY <1>1, <2>1, <2>3, <3>1, <3>2, AloneStays, ChainStays, SessionStays, TurnStaysOver
    <3> QED BY <1>2, <2>3, <3>3
  <2>4. CASE /\ req[q].pc = "delivery" /\ req[q].ok /\ run[r].session = 0
             /\ run[r].status \in {"stopping"} \cup EndedStatus
    <3>1. SegmentReady
      BY <2>4, StopReady
    <3>2. ASSUME SegmentMoves(r)
          PROVE  run'[r].session = 0 /\ run'[r].status \in {"stopping"} \cup EndedStatus
      <4>1. run'[r].session = run[r].session /\ run[r].status = "stopping"
        BY <2>4, <3>2 DEF SegmentMoves, Active, ActiveStatus, EndedStatus
      <4>2. CASE ApplyFinished(r)
        <5>1. run' = Ended(r, "stopped")
          BY <4>1, <4>2 DEF ApplyFinished
        <5> QED BY <2>1, <2>4, <4>1, <5>1 DEF Ended, EndedStatus, CoreType, RowsType, RunRows
      <4>3. CASE ApplyStopped(r)
        <5>1. run' = Ended(r, "stopped")
          BY <4>3 DEF ApplyStopped
        <5> QED BY <2>1, <2>4, <4>1, <5>1 DEF Ended, EndedStatus, CoreType, RowsType, RunRows
      <4>4. CASE ApplyFailure(r)
        <5>1. run'[r].status = Head(chain[r]).status /\ Head(chain[r]).status \in {"failed", "interrupted"}
          BY <2>1, <4>4 DEF ApplyFailure, CoreType, RowsType, RunRows
        <5> QED BY <2>4, <4>1, <5>1 DEF EndedStatus
      <4>5. ~ApplyFinishedSends(r)
        BY <4>1 DEF ApplyFinishedSends
      <4>6. CASE \E p \in Requests :
                   req[p].run = r /\ run'[r].status \in {"stopping", "stopped"}
        BY <2>4, <4>1, <4>6 DEF EndedStatus
      <4>7. ASSUME NEW p \in Requests, req[p].run = r, StopSettles(p), ~Confirmed(p) PROVE FALSE
        BY <2>4, <4>7 DEF StopSettles, Confirmed, StopsAlone
      <4> QED BY <3>2, <4>2, <4>3, <4>4, <4>5, <4>6, <4>7 DEF SegmentMoves
    <3>3. ~IsNew(r)
      BY <2>4 DEF IsNew, EndedStatus
    <3>4. run'[r].session = 0 /\ run'[r].status \in {"stopping"} \cup EndedStatus
      BY <2>1, <2>4, <3>1, <3>2, <3>3, RunsMove DEF RunMoves
    <3> QED BY <1>2, <2>4, <3>4
  <2> QED BY <1>2, <2>1, <2>2, <2>3, <2>4 DEF StopsAlone
<1>3. ASSUME StopSignals(q)
      PROVE  /\ req'[q].pc = "stopping" => run'[r].session # 0
             /\ req'[q].pc = "delivery" =>
                  req'[q].ok /\ run'[r].session = 0 /\ run'[r].status = "stopping"
  <2>1. req[q].pc = "launch" /\ req[q].run \in Runs
    BY <1>3 DEF StopSignals, RowsLinked, UsedBy
  <2>2. ~At(q, "stopped")
    BY DEF At, CoreType, RequestsType, Handlers
  <2>3. run' = [run EXCEPT ![req[q].run].status = "stopping"]
    BY <1>3, <2>2 DEF StopSignals
  <2>4. \/ StopAtOnce(req[q].run) = {} /\ req' = [req EXCEPT ![q].pc = "stopping", ![q].resume = ResumeStatus(req[q].run)]
        \/ \E ok \in StopAtOnce(req[q].run) :
             req' = [[req EXCEPT ![q].pc = "stopping", ![q].resume = ResumeStatus(req[q].run)]
                       EXCEPT ![q].pc = "delivery", ![q].ok = ok]
    BY <1>3, <2>2 DEF StopSignals
  <2>9. Active(req[q].run)
    BY <1>3, <2>2 DEF StopSignals
  <2>5. StopAtOnce(req[q].run) = IF run[req[q].run].session = 0 THEN {TRUE} ELSE {}
    BY DEF StopAtOnce, Claude, Codex
  <2>6. /\ req'[q].run = req[q].run
        /\ \/ req'[q].pc = "stopping" /\ run[req[q].run].session # 0
           \/ req'[q].pc = "delivery" /\ req'[q].ok /\ run[req[q].run].session = 0
    <3> DEFINE s == ResumeStatus(req[q].run)
    <3>1. s \in {"starting", "running"}
      BY <2>1, <2>9 DEF ResumeStatus, Active, ActiveStatus
    <3> HIDE DEF s
    <3>2. ASSUME NEW R, R = [req EXCEPT ![q].pc = "stopping", ![q].resume = s]
          PROVE  R \in [Requests -> Handlers] /\ R[q].run = req[q].run /\ R[q].pc = "stopping"
      <4>1. req \in [Requests -> Handlers]
        BY DEF CoreType, RequestsType
      <4> DEFINE h == [req[q] EXCEPT !.pc = "stopping", !.resume = s]
      <4>2. h \in Handlers /\ h.run = req[q].run /\ h.pc = "stopping"
        BY <3>1, <4>1 DEF Handlers
      <4>3. R = [req EXCEPT ![q] = h]
        BY <3>2, <4>1 DEF Handlers
      <4> HIDE DEF h
      <4> QED BY <4>1, <4>2, <4>3
    <3>3. ASSUME NEW R \in [Requests -> Handlers], NEW ok \in BOOLEAN,
                 req' = [R EXCEPT ![q].pc = "delivery", ![q].ok = ok]
          PROVE  req'[q].run = R[q].run /\ req'[q].pc = "delivery" /\ req'[q].ok = ok
      BY <3>3 DEF Handlers
    <3>4. CASE StopAtOnce(req[q].run) = {} /\ req' = [req EXCEPT ![q].pc = "stopping", ![q].resume = s]
      BY <2>5, <3>2, <3>4
    <3>5. ASSUME NEW ok \in StopAtOnce(req[q].run),
                 req' = [[req EXCEPT ![q].pc = "stopping", ![q].resume = s]
                           EXCEPT ![q].pc = "delivery", ![q].ok = ok]
          PROVE  req'[q].run = req[q].run /\ req'[q].pc = "delivery" /\ req'[q].ok /\ run[req[q].run].session = 0
      <4>1. ok = TRUE /\ run[req[q].run].session = 0
        BY <2>5
      <4> QED BY <3>2, <3>3, <3>5, <4>1
    <3> QED BY <2>4, <3>4, <3>5 DEF s
  <2>7. req[q].run = r
    BY <2>6
  <2>8. run'[r].session = run[r].session /\ run'[r].status = "stopping"
    BY <2>1, <2>3, <2>7 DEF CoreType, RowsType, RunRows
  <2> QED BY <2>6, <2>7, <2>8
<1>4. ~StopSettles(q) /\ ~StopReturns(q) /\ ~ApplyRequest(q)
  BY DEF StopSettles, StopReturns, ApplyRequest, At, Reply, IdleRequest, CoreType, RequestsType, Handlers
<1>5. CASE ~SegmentReady /\ RequestEvent(q)
  <2>1. PICK ok \in BOOLEAN : StopAnswer(q, ok)
    <3>1. ASSUME NEW t, NEW kind, NEW dest, StopRequest(q, t, kind, dest) PROVE req'[q].pc = "launch"
      BY <3>1 DEF StopRequest, Waiting, CoreType, RequestsType
    <3>2. ASSUME NEW t, ArchiveRequest(q, t) PROVE req'[q].pc = "closing"
      BY <3>2 DEF ArchiveRequest, CoreType, RequestsType
    <3>3. ASSUME CloseSessions(q) PROVE req'[q].pc = "apply"
      BY <3>3 DEF CloseSessions, At, CoreType, RequestsType, Handlers
    <3> QED BY <1>5, <3>1, <3>2, <3>3 DEF RequestEvent
  <2>2. req' = [req EXCEPT ![q].pc = "delivery", ![q].ok = ok]
    BY <2>1 DEF StopAnswer
  <2>3. /\ req'[q].pc = "delivery" /\ req[q].run = r /\ req'[q].ok = ok
        /\ UNCHANGED <<run, fup, launch, steer, chain, call>>
    BY <2>1, <2>2 DEF StopAnswer, db, jobs, CoreType, RequestsType, Handlers
  <2>10. req[q].pc = "stopping" /\ CallsOf(r) = {}
    <3>1. req[q].pc = "stopping" /\ \A c \in CallsOf(r) : BehindStop(c)
      BY <2>1, <2>3 DEF StopAnswer, StopOutcomes, Claude, Codex
    <3> QED BY <3>1, NoneBehind DEF CallsOf
  <2>4. r \in Runs
    BY <2>3, <2>10 DEF RowsLinked, UsedBy
  <2>5. ok => turn'[r] = "idle"
    BY <2>1, <2>3, <2>4 DEF StopAnswer, CoreType, SessionsType, TurnStates
  <2>6. r \notin launch /\ run[r].session # 0
    BY <2>3, <2>10 DEF LaunchesAlone, StopsAlone
  <2>7. Alone(r)
    BY <1>5, <2>10, <2>4, <2>6, NoSteerReady
  <2>8. Alone(r)'
    BY <2>3, <2>7 DEF Alone, CallsOf, CallRun, Steered
  <2>9. chain[r] = <<>>
    BY <1>5, <2>10, <2>4, NamedCalls DEF SegmentReady, SendingHasCall
  <2> QED BY <2>3, <2>5, <2>6, <2>8, <2>9
<1> QED BY <1>1, <1>2, <1>3, <1>4, <1>5, RequestsChange DEF RequestMoves

\* A continuation keeps its session.
LEMMA ContinuesSessionStep ==
  ASSUME Rows, BlankRuns, ContinuesSession, Claude, Next PROVE ContinuesSession'
<1> USE DEF Rows
<1> SUFFICES ASSUME NEW r \in Runs, call'[<<"continue", r>>] # "none" PROVE run'[r].session # 0
  BY DEF ContinuesSession
<1>1. CallMoves(<<"continue", r>>)
  BY CallsChange DEF Calls
<1>2. CASE Opens(<<"continue", r>>)
  BY <1>2 DEF Opens
<1>3. CASE ~Opens(<<"continue", r>>)
  <2>1. call[<<"continue", r>>] # "none"
    BY <1>1, <1>3 DEF CallMoves
  <2> QED BY <2>1, SessionStays DEF ContinuesSession, BlankRuns
<1> QED BY <1>2, <1>3

\* A call in flight after a step belongs to a run.
LEMMA CallsHaveRunsAfter ==
  ASSUME Owned', NEW c \in Calls, call'[c] # "none" PROVE CallRun(c)' \in Runs
<1>1. CASE c \in {"continue", "queue"} \X Runs
  BY <1>1 DEF CallRun
<1>2. CASE c \in {"steer", "resend"} \X Followups
  <2>1. PICK k \in {"steer", "resend"}, f \in Followups : c = <<k, f>>
    BY <1>2
  <2>2. c = <<"steer", f>> \/ c = <<"resend", f>>
    BY <2>1
  <2>3. fup'[f].run \in Runs
    BY <2>2 DEF Owned
  <2> QED BY <2>1, <2>3 DEF CallRun
<1> QED BY <1>1, <1>2 DEF Calls

\* The first update of a run is one of the poller when it says the turn was stopped.
LEMMA StoppedUpdate ==
  ASSUME Rows, UpdatesInOrder, NEW r \in Runs, chain[r] # <<>>, finishing[r] = {},
         Head(chain[r]).status = "stopped" \/ ~Head(chain[r]).recovery
  PROVE  Alone(r) /\ turn[r] = "idle"
<1>1. chain[r] \in Seq(Updates)
  BY DEF Rows, CoreType, JobsType
<1>2. 1 \in DOMAIN chain[r] /\ Head(chain[r]) = chain[r][1]
  BY <1>1
<1> QED BY <1>2 DEF UpdatesInOrder

\* No message is open for a run that is being stopped.
LEMMA StopCallsOffStep ==
  ASSUME Rows, CoreType', Owned', UpdatesInOrder, LaunchesAlone, StopsAlone, StopCallsOff, Claude, Next
  PROVE  StopCallsOff'
<1> USE DEF Rows
<1>1. ASSUME NEW c \in Calls PROVE call'[c] # "starting"
  BY CallsChange DEF CallMoves, StopCallsOff
<1>2. ASSUME NEW c \in Calls, call'[c] = "open", NEW r \in Runs, r = CallRun(c)',
             run'[r].status \in {"stopping", "stopped"}
      PROVE  FALSE
  <2>1. ~GetsCall(r)
    <3>1. ~ApplyFinishedSends(r)
      BY <1>2 DEF ApplyFinishedSends, Ended, CoreType, RowsType, RunRows
    <3> QED BY <1>2, <3>1 DEF GetsCall
  <2>2. c \in CallsOf(r) /\ call[c] = "open"
    BY <1>2, <2>1, CallsOfChange
  <2>3. run[r].status \notin {"stopping", "stopped"}
    BY <2>2 DEF StopCallsOff, CallsOf
  <2>4. ~AnswerMoves(r)
    BY <1>2, <2>2, <2>3 DEF AnswerMoves, LaunchesAlone
  <2>5. SegmentMoves(r)
    BY <1>2, <2>3, <2>4, RunsMove DEF RunMoves, IsNew
  <2>6. ~ApplyFinished(r)
    BY <1>2, <2>3 DEF ApplyFinished, FinishRun, Ended, CoreType, RowsType, RunRows
  <2>7. ~ApplyFinishedSends(r)
    BY <1>2 DEF ApplyFinishedSends, Ended, CoreType, RowsType, RunRows
  <2>8. ~ApplyStopped(r)
    BY <2>2, StoppedUpdate DEF ApplyStopped, Alone
  <2>9. ~ApplyFailure(r)
    BY <1>2 DEF ApplyFailure, CoreType, RowsType, RunRows
  <2>10. ASSUME NEW q \in Requests, req[q].run = r, StopSignals(q), run'[r].status = "stopping" PROVE FALSE
    <3>1. call' = CalledOff(r)
      BY <2>3, <2>10 DEF StopSignals
    <3> QED BY <1>2, <2>2, <3>1 DEF CalledOff
  <2>11. ASSUME NEW q \in Requests, req[q].run = r, StopSettles(q), run'[r].status = "stopped" PROVE FALSE
    <3>1. req[q].pc = "delivery"
      BY <2>11 DEF StopSettles
    <3> QED BY <2>2, <2>3, <2>5, <2>11, <3>1 DEF StopsAlone, Alone, SegmentMoves, Active, ActiveStatus, EndedStatus
  <2>12. ASSUME run'[r].status \in {"starting", "running"} PROVE FALSE
    BY <1>2, <2>12
  <2> QED BY <2>5, <2>6, <2>7, <2>8, <2>9, <2>10, <2>11, <2>12 DEF SegmentMoves
<1>3. ASSUME NEW c \in Calls, call'[c] = "open" PROVE CallRun(c)' \in Runs
  BY <1>3, CallsHaveRunsAfter
<1> QED BY <1>1, <1>2, <1>3 DEF StopCallsOff

\* Until the first restart a run whose launch is over has a session, unless it failed.
LEMMA SessionKnownStep ==
  ASSUME Rows, LaunchesAlone, NotRecovering, restarts = 0, SessionKnown, Claude, Next, ~Restart
  PROVE  SessionKnown'
<1> USE DEF Rows
<1> SUFFICES ASSUME NEW r \in Runs, run'[r].session = 0, run'[r].status \notin {"none", "failed"}
             PROVE  r \in launch'
  BY DEF SessionKnown
<1>1. r \notin recovery.todo
  BY DEF NotRecovering
<1>2. CASE IsNew(r)
  BY <1>2 DEF IsNew, SessionKnown, LaunchesAlone
<1>3. CASE r \in launch
  <2>1. ~LaunchOk(r)
    <3>1. LaunchOk(r) => run'[r].session = r
      BY DEF LaunchOk, CoreType, RowsType, RunRows
    <3> QED BY <3>1 DEF Runs
  <2>2. ~LaunchFails(r)
    BY <1>3 DEF LaunchFails, FailLaunch, LaunchesAlone, Active, ActiveStatus, CoreType, RowsType, RunRows
  <2> QED BY <1>3, <2>1, <2>2, JobsMove DEF JobMoves
<1>4. CASE r \notin launch /\ ~IsNew(r)
  <2>1. run[r].session = 0
    BY <1>1, <1>4, RunsMove DEF RunMoves, AnswerMoves, SegmentMoves
  <2>2. run[r].status \in {"none", "failed"}
    BY <1>4, <2>1 DEF SessionKnown
  <2>3. run'[r] = run[r]
    BY <1>1, <1>4, <2>2, RunsMove DEF RunMoves, AnswerMoves, SegmentMoves, Active, ActiveStatus
  <2> QED BY <2>2, <2>3
<1> QED BY <1>2, <1>3, <1>4

\* Until the first restart a stopped run rests: nobody sends it a message, and its turn
\* is over.
LEMMA StoppedRestsStep ==
  ASSUME Rows, CoreType', Owned', UpdatesInOrder, LaunchesAlone, StopsAlone, NotRecovering, restarts = 0,
         SessionKnown, StoppedRests, Claude, Next, ~Restart
  PROVE  StoppedRests'
<1> USE DEF Rows
<1> SUFFICES ASSUME NEW r \in Runs, run'[r].status = "stopped"
             PROVE  CallsOf(r)' = {} /\ turn'[r] \in {"none", "idle"}
  BY DEF StoppedRests
<1>1. r \notin recovery.todo
  BY DEF NotRecovering
<1>2. ~ApplyFinishedSends(r)
  BY DEF ApplyFinishedSends, Ended, CoreType, RowsType, RunRows
<1>3. ~GetsCall(r)
  BY <1>2 DEF GetsCall
<1>4. CallsOf(r) = {} => CallsOf(r)' = {}
  <2> SUFFICES ASSUME CallsOf(r) = {}, NEW c \in Calls, call'[c] # "none", CallRun(c)' = r PROVE FALSE
    BY DEF CallsOf
  <2> QED BY <1>3, CallsOfChange
<1>5. CallsOf(r) = {} /\ r \notin launch /\ turn[r] \in {"none", "idle"} => turn'[r] \in {"none", "idle"}
  BY TurnChange DEF TurnMoves
<1>6. CASE run[r].status = "stopped"
  <2>1. r \notin launch
    BY <1>6 DEF LaunchesAlone
  <2> QED BY <1>4, <1>5, <1>6, <2>1 DEF StoppedRests
<1>7. CASE run[r].status # "stopped"
  <2>1. ~AnswerMoves(r)
    <3>1. r \in launch => ~LaunchOk(r) /\ ~LaunchFails(r)
      BY <1>7 DEF LaunchOk, LaunchFails, FailLaunch, CoreType, RowsType, RunRows
    <3> QED BY <1>1, <3>1 DEF AnswerMoves
  <2>2. SegmentMoves(r)
    BY <1>7, <2>1, RunsMove DEF RunMoves, IsNew
  <2>3. CASE ApplyFinished(r) \/ ApplyStopped(r) \/ ApplyFailure(r)
    <3>1. chain[r] # <<>> /\ finishing[r] = {}
      BY <2>3 DEF ApplyFinished, ApplyStopped, ApplyFailure
    <3>2. ~Head(chain[r]).recovery
      <4>1. chain[r] \in Seq(Updates)
        BY DEF CoreType, JobsType
      <4>2. 1 \in DOMAIN chain[r] /\ Head(chain[r]) = chain[r][1]
        BY <3>1, <4>1
      <4> QED BY <1>1, <4>2 DEF UpdatesInOrder, IsFirst
    <3>3. Alone(r) /\ turn[r] = "idle"
      BY <3>1, <3>2, StoppedUpdate
    <3> QED BY <1>4, <1>5, <3>3 DEF Alone
  <2>4. ASSUME NEW q \in Requests, req[q].run = r, StopSettles(q), Confirmed(q)
        PROVE  CallsOf(r) = {} /\ r \notin launch /\ turn[r] \in {"none", "idle"}
    <3>1. req[q].pc = "delivery" /\ req[q].ok /\ Active(r)
      BY <2>2, <2>4 DEF StopSettles, Confirmed, SegmentMoves
    <3>2. r \notin launch
      BY <2>4, <3>1 DEF LaunchesAlone
    <3>3. run[r].session # 0
      <4>1. ASSUME run[r].session = 0 PROVE run[r].status = "stopping"
        BY <2>4, <3>1, <4>1 DEF StopsAlone, Active, ActiveStatus, EndedStatus
      <4> QED BY <3>2, <4>1 DEF SessionKnown
    <3> QED BY <2>4, <3>1, <3>2, <3>3 DEF StopsAlone, Alone
  <2> QED BY <1>2, <1>4, <1>5, <2>2, <2>3, <2>4 DEF SegmentMoves
<1> QED BY <1>6, <1>7

\* A run that is being stopped, or has ended, gets no message.
LEMMA StoppedGetsNone ==
  ASSUME Rows, Claude, Next, NEW r \in Runs, run[r].status \in {"stopping"} \cup EndedStatus
  PROVE  /\ CallsOf(r) = {} => CallsOf(r)' = {}
         /\ \A c \in CallsOf(r)' : call'[c] = "open" => c \in CallsOf(r) /\ call[c] = "open"
<1> USE DEF Rows
<1>1. ~GetsCall(r)
  BY DEF GetsCall, ApplyFinishedSends, Active, ActiveStatus, EndedStatus
<1>2. ASSUME NEW c \in CallsOf(r)'
      PROVE  c \in CallsOf(r) /\ (call'[c] = "open" => call[c] = "open")
  <2>1. c \in Calls /\ call'[c] # "none" /\ CallRun(c)' = r
    BY DEF CallsOf
  <2> QED BY <1>1, <2>1, CallsOfChange
<1> QED BY <1>2

\* The poller speaks of a run again when a stop of it was answered.
LEMMA MutedStays ==
  ASSUME Claude, Next, ~Restart, NEW r \in muted
  PROVE  r \in muted' \/ \E q \in Requests, ok \in BOOLEAN : req[q].run = r /\ StopAnswer(q, ok)
<1>1. ASSUME NEW s \in Runs, RunStep(s) PROVE UNCHANGED muted
  BY <1>1 DEF RunStep, LaunchOk, LaunchFails, ContinueAnswer, QueueAnswer, TurnRuns, TurnWaits,
     TurnEndsUnseen, TurnEnds, Recover, RecoverNext, ApplyToEnded, ApplyFinished, ApplyFinishedSends,
     ApplyStopped, ApplyFailure, sessions
<1>2. ASSUME NEW f \in Followups, SteerStep(f) PROVE UNCHANGED muted
  BY <1>2 DEF SteerStep, SteerAfterLaunch, SteerSend, SteerAnswer, ResendAnswer, sessions
<1>3. ASSUME NEW c \in Calls, CallStep(c) PROVE UNCHANGED muted
  BY <1>3 DEF CallStep, Resume, Typed, TurnTakes
<1>4. BoardStep \/ AppServerTerminates => UNCHANGED muted
  BY DEF BoardStep, StartTask, ContinueTask, SendFollowup, StopIdleTask, HandMove, ReworkTask,
     RestoreTask, ArchiveUnstarted, AppServerTerminates, sessions
<1>5. RequestStep =>
        r \in muted' \/ \E q \in Requests, ok \in BOOLEAN : req[q].run = r /\ StopAnswer(q, ok)
  BY DEF RequestStep, StopRequest, ArchiveRequest, StopSignals, StopSettles, StopReturns, ApplyRequest,
     CloseSessions, StopAnswer, sessions
<1> QED BY <1>1, <1>2, <1>3, <1>4, <1>5, Steps DEF ProviderStep

\* A stop stays at the head of its run: the run is not resumed by a stop that failed, so
\* no message is accepted that would wait behind it.
LEMMA StopsFirstStep ==
  ASSUME Rows, CoreType', StopCallsOff', LaunchesAlone, NotRecovering, restarts = 0, StopsFirst,
         ~setup.stopMayFail => StopsConfirmed, setup.requests < 2 => OneRequest,
         NoStopFailsBeforeAnother, Claude, Next, ~Restart
  PROVE  StopsFirst'
<1> USE DEF Rows
<1>1. ASSUME NEW c \in Calls PROVE call'[c] # "behind"
  <2>1. StopsOf(CallRun(c)) = {} \/ call[c] # "open"
    BY NoneBehind DEF BehindStop
  <2> QED BY <2>1, CallsChange DEF CallMoves, StopsFirst
<1> SUFFICES ASSUME NEW q \in Requests, NEW r, r = req'[q].run, req'[q].pc = "stopping"
             PROVE  /\ run'[r].status \in {"stopping"} \cup EndedStatus
                    /\ \A c \in CallsOf(r)' : call'[c] # "open"
                    /\ r \in muted' \/ (CallsOf(r)' = {} /\ turn'[r] = "idle")
  BY <1>1 DEF StopsFirst, CallsOf
<1>2. CASE req'[q] = req[q]
  <2>1. r \in Runs /\ req[q].run = r /\ req[q].pc = "stopping" /\ r \notin launch /\ r \notin recovery.todo
    BY <1>2 DEF RowsLinked, UsedBy, LaunchesAlone, NotRecovering
  <2>2. /\ run[r].status \in {"stopping"} \cup EndedStatus
        /\ \A c \in CallsOf(r) : call[c] # "open"
        /\ r \in muted \/ (CallsOf(r) = {} /\ turn[r] = "idle")
    BY <2>1 DEF StopsFirst
  <2>3. ASSUME NEW p \in Requests, req[p].run = r, StopSettles(p), ~Confirmed(p) PROVE FALSE
    <3>1. req[p].pc = "delivery" /\ ~req[p].ok
      BY <2>3 DEF StopSettles, Confirmed
    <3>2. setup.requests < 2
      BY <3>1 DEF NoStopFailsBeforeAnother, StopsConfirmed
    <3> QED BY <2>1, <3>1, <3>2 DEF OneRequest
  <2>4. ASSUME SegmentMoves(r) PROVE run'[r].status \in {"stopping"} \cup EndedStatus
    <3>1. run[r].status = "stopping"
      BY <2>2, <2>4 DEF SegmentMoves, Active, ActiveStatus, EndedStatus
    <3>2. ASSUME ApplyFinished(r) \/ ApplyStopped(r) PROVE run'[r].status = "stopped"
      <4>1. run' = Ended(r, "stopped")
        BY <3>1, <3>2 DEF ApplyFinished, ApplyStopped
      <4> QED BY <2>1, <4>1 DEF Ended, CoreType, RowsType, RunRows
    <3>3. ASSUME ApplyFailure(r) PROVE run'[r].status \in {"failed", "interrupted"}
      BY <2>1, <3>3 DEF ApplyFailure, CoreType, RowsType, RunRows
    <3>4. ~ApplyFinishedSends(r)
      BY <3>1 DEF ApplyFinishedSends
    <3> QED BY <2>3, <2>4, <3>2, <3>3, <3>4 DEF SegmentMoves, EndedStatus
  <2>5. run'[r].status \in {"stopping"} \cup EndedStatus
    BY <2>1, <2>2, <2>4, RunsMove DEF RunMoves, IsNew, AnswerMoves, EndedStatus
  <2>6. \A c \in CallsOf(r)' : call'[c] # "open"
    BY <2>1, <2>2, StoppedGetsNone
  <2>7. CASE r \in muted /\ r \notin muted'
    <3>1. PICK p \in Requests, ok \in BOOLEAN : req[p].run = r /\ StopAnswer(p, ok)
      BY <2>7, MutedStays
    <3>2. req[p].pc = "stopping" /\ req'[p].pc = "delivery" /\ ok \in StopOutcomes(r)
      BY <3>1 DEF StopAnswer, CoreType, RequestsType, Handlers
    <3>3. ~setup.stopMayFail
      BY <1>2, <2>1, <3>2 DEF NoStopFailsBeforeAnother, OneRequest
    <3>4. ok /\ CallsOf(r) = {}
      BY <3>2, <3>3, NoneBehind DEF StopOutcomes, Claude, Codex, CallsOf
    <3>5. turn'[r] = "idle"
      BY <2>1, <3>1, <3>4 DEF StopAnswer, CoreType, SessionsType, TurnStates
    <3> QED BY <2>1, <2>2, <2>5, <2>6, <3>4, <3>5, StoppedGetsNone
  <2>8. CASE CallsOf(r) = {} /\ turn[r] = "idle"
    <3>1. turn'[r] = "idle"
      BY <2>1, <2>8, TurnChange DEF TurnMoves
    <3> QED BY <2>1, <2>2, <2>5, <2>6, <2>8, <3>1, StoppedGetsNone
  <2> QED BY <2>2, <2>5, <2>6, <2>7, <2>8
<1>3. CASE StopSignals(q)
  <2>1. req[q].pc = "launch" /\ req[q].run \in Runs
    BY <1>3 DEF StopSignals, RowsLinked, UsedBy
  <2>2. ~At(q, "stopped")
    BY DEF At, CoreType, RequestsType, Handlers
  <2>3. \A ok : req' # [[req EXCEPT ![q].pc = "stopping", ![q].resume = ResumeStatus(req[q].run)]
                          EXCEPT ![q].pc = "delivery", ![q].ok = ok]
    BY DEF CoreType, RequestsType, Handlers
  <2>4. /\ run' = [run EXCEPT ![req[q].run].status = "stopping"]
        /\ muted' = muted \cup {req[q].run}
        /\ req' = [req EXCEPT ![q].pc = "stopping", ![q].resume = ResumeStatus(req[q].run)]
    BY <1>3, <2>2, <2>3 DEF StopSignals
  <2>5. r = req[q].run
    BY <2>4 DEF CoreType, RequestsType, Handlers
  <2>6. run'[r].status = "stopping"
    BY <2>1, <2>4, <2>5 DEF CoreType, RowsType, RunRows
  <2>7. \A c \in CallsOf(r)' : call'[c] # "open"
    BY <2>6 DEF StopCallsOff, CallsOf
  <2> QED BY <2>4, <2>5, <2>6, <2>7
<1>4. ~StopSettles(q) /\ ~StopReturns(q) /\ ~ApplyRequest(q)
  BY DEF StopSettles, StopReturns, ApplyRequest, At, Reply, IdleRequest, CoreType, RequestsType, Handlers
<1>5. ~RequestEvent(q)
  <2>1. ASSUME NEW t, NEW kind, NEW dest, StopRequest(q, t, kind, dest) PROVE req'[q].pc = "launch"
    BY <2>1 DEF StopRequest, Waiting, CoreType, RequestsType
  <2>2. ASSUME NEW t, ArchiveRequest(q, t) PROVE req'[q].pc = "closing"
    BY <2>2 DEF ArchiveRequest, CoreType, RequestsType
  <2>3. ASSUME CloseSessions(q) PROVE req'[q].pc = "apply"
    BY <2>3 DEF CloseSessions, At, CoreType, RequestsType, Handlers
  <2>4. ASSUME NEW ok, StopAnswer(q, ok) PROVE req'[q].pc = "delivery"
    BY <2>4 DEF StopAnswer, CoreType, RequestsType, Handlers
  <2> QED BY <2>1, <2>2, <2>3, <2>4 DEF RequestEvent
<1> QED BY <1>2, <1>3, <1>4, <1>5, RequestsChange DEF RequestMoves

\* Unless an interrupt may stay unconfirmed, every stop is confirmed.
LEMMA StopsConfirmedStep ==
  ASSUME CoreType, StopsConfirmed, ~setup.stopMayFail, Claude, Next PROVE StopsConfirmed'
<1> USE DEF CoreType, RequestsType, Handlers
<1> SUFFICES ASSUME NEW q \in Requests, req'[q].pc = "delivery" PROVE req'[q].ok
  BY DEF StopsConfirmed
<1>1. CASE req'[q] = req[q]
  BY <1>1 DEF StopsConfirmed
<1>2. CASE Restart
  BY <1>2 DEF Restart, IdleRequest
<1>3. CASE StopSignals(q)
  <2>1. \A r : StopAtOnce(r) \in {{TRUE}, {}}
    BY DEF StopAtOnce, Claude, Codex
  <2>2. \/ req'[q].pc \in {"stopping", "stopped"}
        \/ \E ok \in StopAtOnce(req[q].run) : req'[q].ok = ok
    BY <1>3 DEF StopSignals, At
  <2>3. PICK ok \in StopAtOnce(req[q].run) : req'[q].ok = ok
    BY <2>2
  <2>4. ok = TRUE
    BY <2>1
  <2> QED BY <2>3, <2>4
<1>4. CASE StopSettles(q)
  BY <1>4 DEF StopSettles, At, Reply, IdleRequest
<1>5. CASE StopReturns(q)
  BY <1>5 DEF StopReturns, At, Reply, IdleRequest
<1>6. CASE ApplyRequest(q)
  BY <1>6 DEF ApplyRequest, Reply, IdleRequest
<1>7. ASSUME NEW t, NEW kind, NEW dest, StopRequest(q, t, kind, dest) PROVE FALSE
  BY <1>7 DEF StopRequest, Waiting, IdleRequest
<1>8. ASSUME NEW t, ArchiveRequest(q, t) PROVE FALSE
  BY <1>8 DEF ArchiveRequest, IdleRequest
<1>9. ASSUME NEW ok \in BOOLEAN, StopAnswer(q, ok) PROVE req'[q].ok
  <2>1. ok
    BY <1>9 DEF StopAnswer, StopOutcomes, Claude, Codex
  <2> QED BY <1>9, <2>1 DEF StopAnswer
<1>10. ~CloseSessions(q)
  BY DEF CloseSessions, At
<1> QED BY <1>1, <1>2, <1>3, <1>4, <1>5, <1>6, <1>7, <1>8, <1>9, <1>10, RequestsChange
        DEF RequestMoves, RequestEvent

\* A request is served when there is room for it, and moves no other.
LEMMA RequestOpens ==
  ASSUME CoreType, Next, NEW q \in Requests, req[q].pc = "idle", req'[q].pc # "idle"
  PROVE  Room /\ \A p \in Requests \ {q} : req'[p] = req[p]
<1>1. RequestMoves(q)
  BY RequestsChange
<1>2. CASE \E t \in Tasks, kind \in {"stop", "move", "archive"}, dest \in CardStatus \cup {NoMove} :
             StopRequest(q, t, kind, dest)
  BY <1>2 DEF StopRequest, Waiting, CoreType, RequestsType
<1>3. CASE \E t \in Tasks : ArchiveRequest(q, t)
  BY <1>3 DEF ArchiveRequest, CoreType, RequestsType
<1>4. CASE Restart
  BY <1>4 DEF Restart, IdleRequest
<1> QED
  BY <1>1, <1>2, <1>3, <1>4
     DEF RequestMoves, RequestEvent, StopSignals, StopSettles, StopReturns, ApplyRequest, CloseSessions,
         StopAnswer

\* Where there is room for one request, one that waits leaves none.
LEMMA FullRoom ==
  ASSUME OneRequest, setup.requests \in Nat, setup.requests < 2, NEW p \in Requests, req[p].pc # "idle"
  PROVE  ~Room
<1>1. {q \in Requests : req[q].pc # "idle"} = {p}
  BY DEF OneRequest
<1>2. Cardinality({q \in Requests : req[q].pc # "idle"}) = 1
  BY <1>1, FS_Singleton
<1> QED BY <1>2 DEF Room

\* There is one request at a time.
LEMMA OneRequestStep ==
  ASSUME CoreType, OneRequest, setup.requests \in Nat, setup.requests < 2, Next PROVE OneRequest'
<1> SUFFICES ASSUME NEW p \in Requests, NEW q \in Requests, req'[p].pc # "idle", req'[q].pc # "idle", p # q
             PROVE  FALSE
  BY DEF OneRequest
<1>1. CASE req[p].pc = "idle"
  BY <1>1, RequestOpens, FullRoom
<1>2. CASE req[q].pc = "idle"
  BY <1>2, RequestOpens, FullRoom
<1> QED BY <1>1, <1>2 DEF OneRequest

\* The bounds of the setup are numbers.
LEMMA RequestsBound == TypeOK => setup.requests \in Nat
BY SetupsAssumption DEF TypeOK

-----------------------------------------------------------------------------
(* The invariant, and what it shows *)

\* Until the board is restarted, and while no stop of a run of Claude fails before another
Calm == Claude /\ restarts = 0 /\ NoStopFailsBeforeAnother

ClaudeInv == RowsInv /\ (Calm => CallsInv)

\* The board starts with nothing under way.
LEMMA ClaudeInvInit == Init => ClaudeInv
<1> SUFFICES ASSUME Init PROVE ClaudeInv
  OBVIOUS
<1>1. \A r \in Runs : CallsOf(r) = {}
  BY DEF Init, NoCalls, CallsOf
<1>2. BlankRuns /\ SendingHasCall /\ ContinuesSession /\ StopCallsOff
  BY DEF Init, NoCalls, NoRecovery, BlankRuns, SendingHasCall, ContinuesSession, StopCallsOff, Calls
<1>3. LaunchesAlone /\ UpdatesInOrder /\ StopsAlone /\ SessionKnown /\ StoppedRests
  BY DEF Init, LaunchesAlone, UpdatesInOrder, StopsAlone, SessionKnown, StoppedRests, IdleRequest
<1>4. StopsFirst /\ StopsConfirmed /\ OneRequest
  BY DEF Init, NoCalls, IdleRequest, StopsFirst, StopsConfirmed, OneRequest
<1> QED BY <1>2, <1>3, <1>4, RowsInvInit DEF ClaudeInv, CallsInv

\* The setup never changes.
LEMMA SameSetup == [Next]_vars => setup' = setup
BY DEF Next, vars

\* What is kept until the board is restarted was kept before.
LEMMA CalmBefore ==
  ASSUME CoreType, Next, restarts' = 0 PROVE restarts = 0 /\ ~Restart
BY RestartsCount

\* Every step keeps the invariant.
LEMMA ClaudeInvStep == ClaudeInv /\ RowsInv' /\ [Next]_vars => ClaudeInv'
<1> SUFFICES ASSUME ClaudeInv, RowsInv', [Next]_vars, Calm' PROVE CallsInv'
  BY DEF ClaudeInv
<1>1. setup' = setup /\ Claude /\ NoStopFailsBeforeAnother
  BY SameSetup DEF Calm, Claude, NoStopFailsBeforeAnother
<1>2. CASE Next
  <2>1. Rows /\ CoreType' /\ Owned' /\ NotRecovering /\ setup.requests \in Nat
    BY TypeParts, RequestsBound DEF ClaudeInv, RowsInv, IInv, Rows, TypeOK, CoreType, RowsType, JobsType,
       RequestsType, BootType, SessionsType
  <2>2. restarts = 0 /\ ~Restart /\ CoreType
    BY <1>2, <2>1, CalmBefore DEF Calm, Rows
  <2>3. CallsInv
    BY <1>1, <2>2 DEF ClaudeInv, Calm
  <2>4. (BlankRuns /\ SendingHasCall /\ LaunchesAlone /\ UpdatesInOrder /\ StopsAlone /\ ContinuesSession
           /\ StopCallsOff)'
    BY <1>1, <1>2, <2>1, <2>3, BlankRunsStep, SendingHasCallStep, LaunchesAloneStep, UpdatesInOrderStep,
       StopsAloneStep, ContinuesSessionStep, StopCallsOffStep DEF CallsInv
  <2>5. (SessionKnown /\ StoppedRests)'
    BY <1>1, <1>2, <2>1, <2>2, <2>3, SessionKnownStep, StoppedRestsStep DEF CallsInv
  <2>6. StopsFirst'
    BY <1>1, <1>2, <2>1, <2>2, <2>3, <2>4, StopsFirstStep DEF CallsInv
  <2>7. ~setup.stopMayFail => StopsConfirmed'
    BY <1>1, <1>2, <2>2, <2>3, StopsConfirmedStep DEF CallsInv
  <2>8. setup.requests < 2 => OneRequest'
    BY <1>2, <2>1, <2>2, <2>3, OneRequestStep DEF CallsInv
  <2> QED BY <1>1, <2>4, <2>5, <2>6, <2>7, <2>8 DEF CallsInv
<1>3. CASE UNCHANGED vars
  <2>1. CallsInv /\ \A r : CallsOf(r)' = CallsOf(r)
    BY <1>1, <1>3 DEF ClaudeInv, Calm, CallsOf, CallRun, vars
  <2>2. (BlankRuns /\ SendingHasCall /\ LaunchesAlone /\ UpdatesInOrder /\ StopsAlone
           /\ ContinuesSession)'
    BY <1>3, <2>1 DEF CallsInv, BlankRuns, SendingHasCall, LaunchesAlone, UpdatesInOrder, StopsAlone,
       ContinuesSession, Alone, Steered, vars
  <2>3. (StopCallsOff /\ SessionKnown /\ StoppedRests)'
    BY <1>3, <2>1 DEF CallsInv, StopCallsOff, SessionKnown, StoppedRests, CallRun, vars
  <2>4. StopsFirst'
    BY <1>3, <2>1 DEF CallsInv, StopsFirst, vars
  <2>5. /\ ~setup.stopMayFail => StopsConfirmed'
        /\ setup.requests < 2 => OneRequest'
    BY <1>3, <2>1 DEF CallsInv, StopsConfirmed, OneRequest, vars
  <2> QED BY <1>1, <2>2, <2>3, <2>4, <2>5 DEF CallsInv
<1> QED BY <1>2, <1>3

\* It holds in every state of every behaviour.
LEMMA ClaudeInvariant == Spec => []ClaudeInv
BY ClaudeInvInit, ClaudeInvStep, RowsInvariant, PTL DEF Spec

\* While the board is up, no message enters the session of a stopped run of Claude, for
\* any number of runs, messages and requests: a delivery that was in flight when the stop
\* came was called off, or the stop waited for it (stop epoch, gate abort and session lock
\* of claude-bg.mjs).  A stop that fails before another one of its run is excluded: the
\* run is `running' again while the other still waits, and takes a message behind it.
THEOREM StoppedGetsNoMessageHolds == Spec => StoppedGetsNoMessage
<1>1. ClaudeInv /\ [Next]_vars =>
        [\A c \in Calls :
           /\ Claude /\ restarts = 0 /\ NoStopFailsBeforeAnother
           /\ call[c] \in {"open", "starting"} /\ run[CallRun(c)].status = "stopped"
           => call'[c] # "reached"]_vars
  BY DEF ClaudeInv, Calm, CallsInv, StopCallsOff
<1> QED BY <1>1, ClaudeInvariant, PTL DEF Spec, StoppedGetsNoMessage

\* While the board is up, requests that stop, move and archive a card of Claude at the
\* same time, with stops that fail and messages in flight, leave no active run on an
\* archived card and no queue on a run that ended, nor a session at work on a stopped
\* run, unless a stop failed before another one of its run.
THEOREM QuietWhileUpHolds == Spec => []QuietWhileUp
<1>1. ASSUME ClaudeInv, Calm PROVE StoppedIsQuiet
  BY <1>1 DEF ClaudeInv, CallsInv, StoppedRests, StoppedIsQuiet
<1>2. ClaudeInv => (Calm => StoppedIsQuiet)
  BY <1>1
<1>3. (Calm => StoppedIsQuiet) /\ (restarts = 0 => ArchivedIsQuiet) /\ EndedRunKeepsNoQueue
        => QuietWhileUp
  BY DEF QuietWhileUp, Calm
<1> QED BY <1>2, <1>3, ClaudeInvariant, ArchivedIsQuietHolds, EndedRunKeepsNoQueueHolds, PTL

-----------------------------------------------------------------------------
(***************************************************************************)
(* A message is typed once: which call carries a follow-up, and what is    *)
(* known of one that reached its session without being recorded.           *)
(***************************************************************************)

-----------------------------------------------------------------------------
(* The first of a queue *)

\* A queue that is not empty has a first follow-up.
LEMMA FirstOf ==
  ASSUME NEW S \in SUBSET Followups, S # {} PROVE IsFirst(First(S), S)
<1> DEFINE R == OpToRel(<, Nat)
<1>1. IsWellFoundedOn(R, Nat)
  BY NatLessThanWellFounded
<1>2. S \subseteq Nat
  BY BoundsAssumption DEF Followups
<1>3. \A x, y \in Nat : y < x => <<y, x>> \in R
  BY DEF OpToRel
<1> HIDE DEF R
<1>4. PICK x \in S : \A y \in S : ~(<<y, x>> \in R)
  BY <1>1, <1>2, WFMin
<1>5. \A y \in S : x <= y
  <2> TAKE y \in S
  <2>1. x \in Nat /\ y \in Nat /\ ~(<<y, x>> \in R)
    BY <1>2, <1>4
  <2>2. ~(y < x)
    BY <1>3, <2>1
  <2> QED BY <2>1, <2>2
<1> QED BY <1>4, <1>5 DEF First, IsFirst

-----------------------------------------------------------------------------
(* The steps that deliver messages *)

\* A step on a delivery: of a new run, of a queue, of a steer, in a session, or a stop
\* that calls it off
DeliveryStep ==
  \/ \E c \in Calls : Typed(c)
  \/ \E q \in Requests : StopSignals(q)
  \/ \E t \in Tasks : ContinueTask(t) \/ SendFollowup(t, "steer")
  \/ \E r \in Runs :
       \/ ApplyFinishedSends(r) \/ \E a \in AnswerKinds : ContinueAnswer(r, a)
       \/ \E a \in AnswerKinds, f \in Followups : QueueAnswer(r, f, a)
  \/ \E f \in Followups :
       \/ SteerAfterLaunch(f) \/ SteerSend(f)
       \/ \E a \in AnswerKinds : SteerAnswer(f, a) \/ ResendAnswer(f, a)

\* Every other step leaves the deliveries alone.
LEMMA DeliverySteps ==
  ASSUME Claude, Next, ~Restart PROVE DeliveryStep \/ UNCHANGED <<call, hits, steer, finishing>>
<1>1. ASSUME NEW r \in Runs, RunStep(r)
      PROVE  DeliveryStep \/ UNCHANGED <<call, hits, steer, finishing>>
  BY <1>1 DEF RunStep, DeliveryStep, LaunchOk, LaunchFails, ApplyToEnded, ApplyFinished, ApplyStopped,
     ApplyFailure, RecoverNext, TurnRuns, TurnWaits, TurnEndsUnseen, TurnEnds, Recover, jobs, sessions
<1>2. ASSUME NEW c \in Calls, CallStep(c) PROVE Typed(c)
  BY <1>2 DEF CallStep, Resume, TurnTakes, Claude, Codex
<1>3. ASSUME NEW t \in Tasks, SendFollowup(t, "queue")
      PROVE  UNCHANGED <<call, hits, steer, finishing>>
  BY <1>3 DEF SendFollowup, sessions
<1>4. CASE BoardStep
  BY <1>3, <1>4 DEF BoardStep, DeliveryStep, StartTask, StopIdleTask, HandMove, ReworkTask, RestoreTask,
     ArchiveUnstarted, jobs, sessions
<1>5. CASE RequestStep
  <2>1. ASSUME NEW q \in Requests, StopSettles(q) \/ StopReturns(q) \/ ApplyRequest(q) \/ CloseSessions(q)
        PROVE  UNCHANGED <<call, hits, steer, finishing>>
    BY <2>1 DEF StopSettles, StopReturns, ApplyRequest, CloseSessions, jobs, sessions
  <2>2. ASSUME NEW q \in Requests, NEW ok, StopAnswer(q, ok) PROVE UNCHANGED <<call, hits, steer, finishing>>
    BY <2>2 DEF StopAnswer, jobs
  <2>3. ASSUME NEW q \in Requests, NEW t, NEW kind, NEW dest, StopRequest(q, t, kind, dest) \/ ArchiveRequest(q, t)
        PROVE  UNCHANGED <<call, hits, steer, finishing>>
    BY <2>3 DEF StopRequest, ArchiveRequest, jobs, sessions
  <2> QED BY <1>5, <2>1, <2>2, <2>3 DEF RequestStep, DeliveryStep
<1>6. ~AppServerTerminates
  BY DEF AppServerTerminates, Claude, Codex
<1>7. (\E f \in Followups : SteerStep(f)) => DeliveryStep
  BY DEF SteerStep, DeliveryStep
<1>8. (\E c \in Calls : CallStep(c)) => DeliveryStep
  BY <1>2 DEF DeliveryStep
<1> QED BY <1>1, <1>4, <1>5, <1>6, <1>7, <1>8, Steps DEF ProviderStep

\* A message enters a session when it is typed.
LEMMA HitsMove ==
  ASSUME Claude, Next, ~Restart
  PROVE  \/ UNCHANGED hits
         \/ \E c \in Calls :
              /\ call[c] = "open" /\ ~AlreadyInTranscript(c)
              /\ call' = [call EXCEPT ![c] = "reached"] /\ hits' = Hit(c)
              /\ UNCHANGED <<card, run, fup, launch, steer, chain, finishing, req, recovery>>
<1>1. (\E c \in Calls : Typed(c)) \/ UNCHANGED hits
  <2>1. /\ \A q \in Requests : StopSignals(q) => UNCHANGED hits
        /\ \A t \in Tasks : ContinueTask(t) \/ SendFollowup(t, "steer") => UNCHANGED hits
    BY DEF StopSignals, ContinueTask, SendFollowup, sessions
  <2>2. /\ \A r \in Runs : ApplyFinishedSends(r) => UNCHANGED hits
        /\ \A r \in Runs, a \in AnswerKinds : ContinueAnswer(r, a) => UNCHANGED hits
        /\ \A r \in Runs, a \in AnswerKinds, f \in Followups : QueueAnswer(r, f, a) => UNCHANGED hits
    BY DEF ApplyFinishedSends, ContinueAnswer, QueueAnswer
  <2>3. /\ \A f \in Followups : SteerAfterLaunch(f) \/ SteerSend(f) => UNCHANGED hits
        /\ \A f \in Followups, a \in AnswerKinds : SteerAnswer(f, a) \/ ResendAnswer(f, a) => UNCHANGED hits
    BY DEF SteerAfterLaunch, SteerSend, SteerAnswer, ResendAnswer, sessions
  <2> QED BY <2>1, <2>2, <2>3, DeliverySteps DEF DeliveryStep
<1> QED BY <1>1 DEF Typed, db, jobs, boot

\* Follow-up f keeps its card, its mode and its code, and stays what it was while it is pending.
KeepsMode(f) ==
  /\ fup'[f].task = fup[f].task /\ fup'[f].mode = fup[f].mode /\ fup'[f].code = fup[f].code
  /\ fup'[f].status = "pending" => fup'[f] = fup[f]

\* A follow-up does so unless it is saved or its steer may be converted.
LEMMA ModeStays ==
  ASSUME CoreType, Next, NEW f \in Followups
  PROVE  \/ KeepsMode(f)
         \/ fup[f].status = "none" /\ UNCHANGED <<hits, finishing>>
         \/ SteerSend(f) \/ \E a \in AnswerKinds : SteerAnswer(f, a)
<1> DEFINE P == KeepsMode(f)
           Q == fup[f].status = "none" /\ UNCHANGED <<hits, finishing>>
<1> USE DEF CoreType, RowsType, FollowupRows, KeepsMode
<1>1. UNCHANGED fup => P
  OBVIOUS
<1>2. \A t, modes : fup' = Cancel(fup, t, modes) => P
  BY DEF Cancel
<1>3. \A g \in Followups, s \in Settled : fup' = Settle(fup, g, s) => P
  BY DEF Settle, Settled
<1>4. \A r : FailLaunch(fup, r) => P
  BY <1>2 DEF FailLaunch
<1>5. \A g \in Followups, s \in Settled : \A r : FailLaunch(Settle(fup, g, s), r) => P
  BY DEF FailLaunch, Settle, Cancel, Settled
<1>6. \A g \in Followups : \A r, mode : UnusedFollowup(g) /\ fup' = NewFollowup(g, r, mode) => P \/ fup[f].status = "none"
  BY DEF UnusedFollowup, NewFollowup
<1>7. \A g \in Followups \ {f} : \A code, R, T, K : ConvertSteer(g, code, R, T, K) => P
  BY DEF ConvertSteer, Queued
<1>8. ASSUME NEW r \in Runs, RunStep(r) PROVE P \/ Q
  <2>1. ASSUME NEW a \in AnswerKinds, ContinueAnswer(r, a) PROVE P \/ Q
    BY <1>1, <1>4, <1>6, <2>1 DEF ContinueAnswer, jobs
  <2>2. ASSUME NEW a \in AnswerKinds, NEW g \in Followups, QueueAnswer(r, g, a) PROVE P
    BY <2>2 DEF QueueAnswer
  <2> QED BY <1>1, <1>2, <1>4, <1>8, <2>1, <2>2
          DEF RunStep, LaunchOk, LaunchFails, ApplyToEnded, ApplyFinished, ApplyFinishedSends, ApplyStopped,
              ApplyFailure, RecoverNext, TurnRuns, TurnWaits, TurnEndsUnseen, TurnEnds, Recover, db
<1>9. ASSUME NEW g \in Followups, SteerStep(g)
      PROVE  P \/ SteerSend(f) \/ \E a \in AnswerKinds : SteerAnswer(f, a)
  <2>1. CASE SteerAfterLaunch(g)
    BY <1>1, <2>1 DEF SteerAfterLaunch, db
  <2>2. CASE SteerSend(g) /\ g # f
    BY <1>1, <1>7, <2>2 DEF SteerSend, db
  <2>3. ASSUME NEW a \in AnswerKinds, SteerAnswer(g, a), g # f PROVE P
    BY <1>1, <1>3, <1>7, <2>3 DEF SteerAnswer, Settled
  <2>4. ASSUME NEW a \in AnswerKinds, ResendAnswer(g, a) PROVE P
    BY <1>1, <1>3, <1>5, <2>4 DEF ResendAnswer, Settled
  <2> QED BY <1>9, <2>1, <2>2, <2>3, <2>4 DEF SteerStep
<1>10. ASSUME NEW c \in Calls, CallStep(c) PROVE P
  BY <1>1, <1>10 DEF CallStep, Resume, Typed, TurnTakes, db
<1>11. CASE BoardStep
  <2>1. ASSUME NEW t \in Tasks, NEW mode, SendFollowup(t, mode) PROVE P \/ Q
    BY <1>6, <2>1 DEF SendFollowup, sessions
  <2> QED BY <1>1, <1>2, <1>11, <2>1 DEF BoardStep, StartTask, ContinueTask, StopIdleTask, HandMove, ReworkTask,
             RestoreTask, ArchiveUnstarted, db
<1>12. CASE RequestStep
  <2>1. ASSUME NEW q \in Requests, StopSignals(q) \/ StopSettles(q) \/ ApplyRequest(q) \/ CloseSessions(q)
        PROVE  P
    BY <1>1, <2>1 DEF StopSignals, StopSettles, ApplyRequest, CloseSessions, db
  <2>2. ASSUME NEW q \in Requests, NEW ok, StopAnswer(q, ok) PROVE P
    BY <1>1, <2>2 DEF StopAnswer, db
  <2>3. ASSUME NEW q \in Requests, StopReturns(q) PROVE P
    BY <1>2, <2>3 DEF StopReturns
  <2>4. ASSUME NEW q \in Requests, NEW t, NEW kind, NEW dest, StopRequest(q, t, kind, dest) \/ ArchiveRequest(q, t)
        PROVE  P
    BY <1>1, <1>2, <2>4 DEF StopRequest, ArchiveRequest, db
  <2> QED BY <1>12, <2>1, <2>2, <2>3, <2>4 DEF RequestStep
<1>13. CASE Restart
  BY <1>13 DEF Restart, InterruptedSteers
<1>14. AppServerTerminates => P
  BY DEF AppServerTerminates, db
<1> QED
  BY <1>8, <1>9, <1>10, <1>11, <1>12, <1>13, <1>14, Steps DEF ProviderStep

-----------------------------------------------------------------------------
(* The parts of the invariant *)

\* The calls of a steer are those its job waits for.
SteerCalls ==
  \A f \in Followups :
    /\ call[<<"steer", f>>] # "none" => steer[f] = "typing"
    /\ call[<<"resend", f>>] # "none" => steer[f] = "resend"

\* The job of a steer is a steer until it is converted.
SteerModes == \A f \in Followups : steer[f] \in {"launch", "delivery", "typing"} => fup[f].mode = "steer"

\* A message that was not saved, or not typed yet, has not reached a session.
NewMessages ==
  \A f \in Followups :
    /\ fup[f].status = "none" \/ steer[f] \in {"launch", "delivery"} => hits[f] = 0
    /\ call[<<"steer", f>>] = "open" => hits[f] = 0

\* The first message of a run: a continuation, or a steer that is sent again.
Opening(c) == c[1] \in {"continue", "resend"} /\ call[c] # "none"

\* A run that waits for its first message is active, has no update, and waits for one.
Openings ==
  \A c \in Calls : Opening(c) =>
    /\ Active(CallRun(c)) /\ chain[CallRun(c)] = <<>>
    /\ \A d \in CallsOf(CallRun(c)) : Opening(d) => d = c

\* A finished update that sends a queue is the only one of its run, the run is going
\* on, and nobody else sends what is on its list.
Sends ==
  \A r \in Runs : finishing[r] # {} =>
    /\ run[r].status \in {"running", "stopping"} /\ Len(chain[r]) = 1
    /\ \A f \in finishing[r] :
         /\ fup[f].mode = "queue" /\ call[<<"resend", f>>] = "none"
         /\ \A s \in Runs \ {r} : f \notin finishing[s]

\* Runs are created in the order of their numbers, so an active run is the latest of its card.
RunsInRow == \A r, s \in Runs : s < r /\ run[r].status # "none" => run[s].status # "none"
ActiveIsLatest == \A r \in Runs : Active(r) => IsLatest(r, run[r].task)

\* A call of follow-up f that was typed, or called off, has not been answered.
Carries(f) ==
  \/ \E r \in Runs : /\ finishing[r] # {} /\ f = First(finishing[r])
                     /\ call[<<"queue", r>>] \in {"reached", "aborted"}
  \/ call[<<"resend", f>>] \in {"reached", "aborted"}

\* A stop of the active run of card t goes on to cancel the queue of the card.
Halting(t) ==
  \/ \E r \in OfTask(t) : run[r].status = "stopping" /\ chain[r] = <<>>
  \/ \E q \in Requests :
       /\ req[q].pc = "stopped" /\ req[q].task = t /\ NoActiveRun(t)
       /\ req[q].run \in Runs /\ run[req[q].run].status = "stopped" /\ IsLatest(req[q].run, t)

\* Follow-up f did not reach its session, or is looked for there before it is typed again.
Looked(f) == hits[f] = 0 \/ fup[f].code = "NOT_DELIVERED"

\* The code that has to record that a queued message reached its session is under way:
\* the answer to its call, or the stop that made that answer void.
ReachedIsKnown ==
  \A f \in Followups : Queue(f) /\ ~Looked(f) => Carries(f) \/ Halting(fup[f].task)

\* What is about to be typed has not reached its session, or is looked for first.
TypesOnce ==
  \A c \in Calls : call[c] = "open" /\ CallFollowup(c) # 0 => Looked(CallFollowup(c))

-----------------------------------------------------------------------------
(* Calls, jobs and modes *)

\* A call in flight is kept, typed, called off or answered: nothing takes its place.
LEMMA CallKept ==
  ASSUME CoreType, Sending, BlankRuns, StopsFirst, SteerCalls, Claude, Next, ~Restart, NEW d \in Calls,
         call[d] # "none"
  PROVE  \/ call'[d] = call[d]
         \/ call[d] = "open" /\ call'[d] \in {"reached", "aborted"}
         \/ CallAnswer(d)
<1> DEFINE P == call'[d] = call[d] \/ (call[d] = "open" /\ call'[d] \in {"reached", "aborted"})
           A == CallAnswer(d)
<1> USE DEF CoreType, SessionsType, CallStates
<1>1. ASSUME NEW c \in Calls, Typed(c) PROVE P
  BY <1>1 DEF Typed
<1>2. ASSUME NEW q \in Requests, StopSignals(q) PROVE P
  <2>1. ASSUME call[d] = "open", d \in CallsOf(req[q].run) PROVE StopsOf(req[q].run) = {}
    BY <2>1, NoneBehind DEF BehindStop, CallsOf
  <2> QED BY <1>2, <2>1 DEF StopSignals, CalledOff
<1>3. ASSUME NEW t \in Tasks, ContinueTask(t) PROVE P
  <2>1. PICK r \in Runs : run[r].status = "none" /\ (d # <<"continue", r>> => call'[d] = call[d])
    BY <1>3 DEF ContinueTask, UnusedRun
  <2> QED BY <2>1 DEF BlankRuns
<1>4. ASSUME NEW t \in Tasks, SendFollowup(t, "steer") PROVE P
  BY <1>4 DEF SendFollowup, sessions
<1>5. ASSUME NEW r \in Runs, ApplyFinishedSends(r) PROVE P
  BY <1>5 DEF ApplyFinishedSends, Sending
<1>6. ASSUME NEW r \in Runs, NEW a \in AnswerKinds, ContinueAnswer(r, a) PROVE P \/ A
  <2>1. CASE d = <<"continue", r>>
    BY <1>6, <2>1 DEF CallAnswer
  <2>2. CASE d # <<"continue", r>>
    BY <1>6, <2>2 DEF ContinueAnswer
  <2> QED BY <2>1, <2>2
<1>7. ASSUME NEW r \in Runs, NEW a \in AnswerKinds, NEW f \in Followups, QueueAnswer(r, f, a) PROVE P \/ A
  <2>1. CASE d = <<"queue", r>>
    BY <1>7, <2>1 DEF CallAnswer
  <2>2. CASE d # <<"queue", r>>
    BY <1>7, <2>2 DEF QueueAnswer
  <2> QED BY <2>1, <2>2
<1>8. ASSUME NEW f \in Followups, NEW code, NEW R, NEW T, NEW K \in CallStates,
             ConvertSteer(f, code, R, T, K), steer[f] # "resend"
      PROVE  call'[d] = K[d]
  <2>1. d # <<"resend", f>>
    BY <1>8 DEF SteerCalls
  <2> QED BY <1>8, <2>1 DEF ConvertSteer
<1>9. ASSUME NEW f \in Followups, SteerAfterLaunch(f) \/ SteerSend(f) PROVE P
  <2>1. CASE UNCHANGED call
    BY <2>1
  <2>2. CASE call' = [call EXCEPT ![<<"steer", f>>] = "open"] /\ steer[f] = "delivery"
    BY <2>2 DEF SteerCalls
  <2>3. CASE steer[f] = "delivery" /\ \E code : ConvertSteer(f, code, run, turn, call)
    BY <1>8, <2>3
  <2> QED BY <1>9, <2>1, <2>2, <2>3 DEF SteerAfterLaunch, SteerSend, sessions
<1>10. ASSUME NEW f \in Followups, NEW a \in AnswerKinds, SteerAnswer(f, a) PROVE P \/ A
  <2> DEFINE K == [call EXCEPT ![<<"steer", f>>] = "none"]
  <2>1. CASE d = <<"steer", f>>
    BY <1>10, <2>1 DEF CallAnswer
  <2>2. CASE d # <<"steer", f>>
    <3>1. steer[f] = "typing" /\ (call' = K \/ \E code, R, T : ConvertSteer(f, code, R, T, K))
      BY <1>10 DEF SteerAnswer, SteerCalls
    <3>2. K[d] = call[d] /\ K \in CallStates
      BY <2>2
    <3> HIDE DEF K
    <3> QED BY <1>8, <3>1, <3>2
  <2> QED BY <2>1, <2>2
<1>11. ASSUME NEW f \in Followups, NEW a \in AnswerKinds, ResendAnswer(f, a) PROVE P \/ A
  <2>1. CASE d = <<"resend", f>>
    BY <1>11, <2>1 DEF CallAnswer
  <2>2. CASE d # <<"resend", f>>
    BY <1>11, <2>2 DEF ResendAnswer
  <2> QED BY <2>1, <2>2
<1> HIDE DEF A
<1> QED BY <1>1, <1>2, <1>3, <1>4, <1>5, <1>6, <1>7, <1>9, <1>10, <1>11, DeliverySteps DEF DeliveryStep, A

\* An answer ends its call, unless it is that of a queue.
LEMMA AnswerEnds ==
  ASSUME CoreType, NEW c \in Calls, CallAnswer(c), c[1] # "queue" PROVE call'[c] = "none"
<1> USE DEF CoreType, SessionsType, CallStates, Calls
<1>1. ASSUME NEW r \in Runs, NEW a, ContinueAnswer(r, a) PROVE call'[<<"continue", r>>] = "none"
  BY <1>1 DEF ContinueAnswer
<1>2. ASSUME NEW f \in Followups, NEW a, ResendAnswer(f, a) PROVE call'[<<"resend", f>>] = "none"
  BY <1>2 DEF ResendAnswer
<1>3. ASSUME NEW f \in Followups, NEW a, SteerAnswer(f, a) PROVE call'[<<"steer", f>>] = "none"
  BY <1>3 DEF SteerAnswer, ConvertSteer
<1>4. \/ \E r \in Runs : c = <<"continue", r>> \/ c = <<"queue", r>>
      \/ \E f \in Followups : c = <<"steer", f>> \/ c = <<"resend", f>>
  OBVIOUS
<1> QED BY <1>1, <1>2, <1>3, <1>4 DEF CallAnswer

\* A follow-up that was not saved has no job and no call.
LEMMA UnsavedRests ==
  ASSUME Rows, NEW f \in Followups, fup[f].status = "none"
  PROVE  steer[f] = "none" /\ call[<<"steer", f>>] = "none" /\ call[<<"resend", f>>] = "none"
BY BoundsAssumption DEF Rows, RowsLinked, Owned, Runs

\* A steer that is converted is sent again by its job, or has no job any more.
LEMMA ConvertedJob ==
  ASSUME CoreType, NEW f \in Followups, NEW code, NEW R, NEW T, NEW K \in CallStates,
         ConvertSteer(f, code, R, T, K)
  PROVE  /\ \A g \in Followups \ {f} : steer'[g] = steer[g]
         /\ \A d \in Calls : d # <<"resend", f>> => call'[d] = K[d]
         /\ steer'[f] = "resend" \/ (steer'[f] = "none" /\ call' = K)
         /\ fup'[f].mode = "queue" /\ fup'[f].code = code
         /\ \A g \in Followups \ {f} : fup'[g] = fup[g]
         /\ fup'[f].task = fup[f].task
BY DEF ConvertSteer, Queued, CoreType, RowsType, FollowupRows, JobsType, CallStates

\* The jobs of steers and their calls stay together.
LEMMA SteerCallsStep ==
  ASSUME Rows, SteerCalls, Claude, Next, ~Restart PROVE SteerCalls'
<1> DEFINE S(f) == <<"steer", f>>
           R(f) == <<"resend", f>>
           OK(f) == /\ call'[S(f)] # "none" => steer'[f] = "typing"
                    /\ call'[R(f)] # "none" => steer'[f] = "resend"
<1> SUFFICES ASSUME NEW f \in Followups PROVE OK(f)
  BY DEF SteerCalls
<1> USE DEF CoreType, JobsType, SessionsType, CallStates, Calls
<1>1. CoreType /\ SteerCalls
  BY DEF Rows
<1>2. ASSUME call'[S(f)] = call[S(f)] \/ call[S(f)] # "none", call'[R(f)] = call[R(f)] \/ call[R(f)] # "none",
             steer'[f] = steer[f]
      PROVE  OK(f)
  BY <1>2 DEF SteerCalls
<1>3. ASSUME NEW c \in Calls, Typed(c) PROVE OK(f)
  <2>1. call' = [call EXCEPT ![c] = "reached"] /\ call[c] = "open" /\ UNCHANGED steer
    BY <1>3 DEF Typed, jobs
  <2> QED BY <1>1, <1>2, <2>1
<1>4. ASSUME NEW q \in Requests, StopSignals(q) PROVE OK(f)
  <2>1. UNCHANGED steer
    BY <1>4 DEF StopSignals, jobs
  <2>2. \A d \in Calls : call'[d] = call[d] \/ call[d] # "none"
    BY <1>1, <1>4 DEF StopSignals, CalledOff
  <2> QED BY <1>2, <2>1, <2>2
<1>5. ASSUME NEW t \in Tasks, ContinueTask(t) PROVE OK(f)
  <2>1. UNCHANGED steer /\ call'[S(f)] = call[S(f)] /\ call'[R(f)] = call[R(f)]
    BY <1>1, <1>5 DEF ContinueTask, jobs
  <2> QED BY <1>2, <2>1
<1>6. ASSUME NEW t \in Tasks, SendFollowup(t, "steer") PROVE OK(f)
  <2>1. PICK g \in Followups : fup[g].status = "none" /\ steer' = [steer EXCEPT ![g] = "launch"]
    BY <1>6 DEF SendFollowup, UnusedFollowup
  <2>2. UNCHANGED call
    BY <1>6 DEF SendFollowup, sessions
  <2>3. CASE g = f
    BY <2>1, <2>2, <2>3, UnsavedRests
  <2>4. CASE g # f
    BY <1>1, <1>2, <2>1, <2>2, <2>4
  <2> QED BY <2>3, <2>4
<1>7. ASSUME NEW r \in Runs, ApplyFinishedSends(r) PROVE OK(f)
  <2>1. UNCHANGED steer /\ call'[S(f)] = call[S(f)] /\ call'[R(f)] = call[R(f)]
    BY <1>1, <1>7 DEF ApplyFinishedSends
  <2> QED BY <1>2, <2>1
<1>8. ASSUME NEW r \in Runs, NEW a, ContinueAnswer(r, a) \/ \E g \in Followups : QueueAnswer(r, g, a) PROVE OK(f)
  <2>1. UNCHANGED steer
    BY <1>8 DEF ContinueAnswer, QueueAnswer, jobs
  <2>2. call'[S(f)] = call[S(f)] /\ call'[R(f)] = call[R(f)]
    BY <1>1, <1>8 DEF ContinueAnswer, QueueAnswer
  <2> QED BY <1>2, <2>1, <2>2
<1>9. ASSUME NEW g \in Followups, SteerAfterLaunch(g) PROVE OK(f)
  <2>1. steer' = [steer EXCEPT ![g] = "delivery"] /\ steer[g] = "launch" /\ UNCHANGED call
    BY <1>9 DEF SteerAfterLaunch, sessions
  <2> QED BY <1>1, <2>1 DEF SteerCalls
<1>10. ASSUME NEW g \in Followups, NEW K \in CallStates, NEW code, NEW T, NEW U, ConvertSteer(g, code, T, U, K),
              \A d \in Calls : K[d] = call[d] \/ K[d] = "none", K[S(g)] = "none", K[R(g)] = "none"
       PROVE  OK(f)
  <2> HIDE DEF CallStates
  <2>1. CASE f = g
    BY <1>1, <1>10, <2>1, ConvertedJob
  <2>2. CASE f # g
    <3>1. steer'[f] = steer[f] /\ call'[S(f)] = K[S(f)] /\ call'[R(f)] = K[R(f)]
      BY <1>1, <1>10, <2>2, ConvertedJob
    <3> QED BY <1>1, <1>10, <3>1 DEF SteerCalls
  <2> QED BY <2>1, <2>2
<1>11. ASSUME NEW g \in Followups, SteerSend(g) PROVE OK(f)
  <2>1. steer[g] = "delivery" /\ call[S(g)] = "none" /\ call[R(g)] = "none"
    BY <1>1, <1>11 DEF SteerSend, SteerCalls
  <2>2. CASE steer' = [steer EXCEPT ![g] = "typing"] /\ call' = [call EXCEPT ![S(g)] = "open"]
    BY <1>1, <2>1, <2>2 DEF SteerCalls
  <2>3. CASE steer' = [steer EXCEPT ![g] = "none"] /\ UNCHANGED call
    BY <1>1, <2>1, <2>3 DEF SteerCalls
  <2>4. CASE \E code : ConvertSteer(g, code, run, turn, call)
    BY <1>1, <1>10, <2>1, <2>4
  <2> QED BY <1>11, <2>2, <2>3, <2>4 DEF SteerSend
<1>12. ASSUME NEW g \in Followups, NEW a, SteerAnswer(g, a) PROVE OK(f)
  <2> DEFINE K == [call EXCEPT ![S(g)] = "none"]
  <2>1. steer[g] = "typing" /\ call[R(g)] = "none"
    BY <1>1, <1>12 DEF SteerAnswer, SteerCalls
  <2>2. K \in CallStates /\ (\A d \in Calls : K[d] = call[d] \/ K[d] = "none") /\ K[S(g)] = "none" /\ K[R(g)] = "none"
    BY <1>1, <2>1
  <2>3. CASE steer' = [steer EXCEPT ![g] = "none"] /\ call' = K
    BY <1>1, <2>1, <2>3 DEF SteerCalls
  <2>4. CASE \E code, T, U : ConvertSteer(g, code, T, U, K)
    <3> HIDE DEF K
    <3> QED BY <1>10, <2>2, <2>4
  <2> QED BY <1>12, <2>3, <2>4 DEF SteerAnswer
<1>13. ASSUME NEW g \in Followups, NEW a, ResendAnswer(g, a) PROVE OK(f)
  <2>1. steer' = [steer EXCEPT ![g] = "none"] /\ call' = [call EXCEPT ![R(g)] = "none"] /\ call[R(g)] # "none"
    BY <1>13 DEF ResendAnswer
  <2> QED BY <1>1, <2>1 DEF SteerCalls
<1>14. CASE UNCHANGED <<call, hits, steer, finishing>>
  BY <1>2, <1>14
<1> HIDE DEF OK
<1> QED BY <1>3, <1>4, <1>5, <1>6, <1>7, <1>8, <1>9, <1>11, <1>12, <1>13, <1>14, DeliverySteps DEF DeliveryStep

\* The job of a steer goes on at its next await, or begins with the steer.
LEMMA SteerGoesOn ==
  ASSUME Rows, SteerCalls, Claude, Next, ~Restart, NEW f \in Followups,
         steer'[f] \in {"launch", "delivery", "typing"}
  PROVE  \/ /\ fup[f].status = "none" /\ steer'[f] = "launch" /\ fup'[f].mode = "steer"
            /\ UNCHANGED <<call, hits, finishing>>
         \/ /\ steer[f] \in {"launch", "delivery", "typing"} /\ fup[f].status # "none"
            /\ fup'[f].mode = fup[f].mode
            /\ steer'[f] = steer[f]
                 \/ (steer'[f] = "delivery" /\ steer[f] = "launch" /\ UNCHANGED <<call, hits, finishing>>)
                 \/ (steer'[f] = "typing" /\ steer[f] = "delivery" /\ UNCHANGED <<hits, finishing>>)
<1> DEFINE W == {"launch", "delivery", "typing"}
           New == /\ fup[f].status = "none" /\ steer'[f] = "launch" /\ fup'[f].mode = "steer"
                  /\ UNCHANGED <<call, hits, finishing>>
           Old == /\ steer'[f] = steer[f]
                       \/ (steer'[f] = "delivery" /\ steer[f] = "launch" /\ UNCHANGED <<call, hits, finishing>>)
                       \/ (steer'[f] = "typing" /\ steer[f] = "delivery" /\ UNCHANGED <<hits, finishing>>)
                  /\ fup'[f].mode = fup[f].mode
<1> USE DEF CoreType, JobsType, RowsType, FollowupRows
<1>1. CoreType
  BY DEF Rows
<1>2. ASSUME SteerSend(f) PROVE Old
  <2>1. steer[f] = "delivery"
    BY <1>2 DEF SteerSend
  <2>2. steer' = [steer EXCEPT ![f] = "typing"] /\ UNCHANGED <<db, hits, finishing>>
    BY <1>1, <1>2 DEF SteerSend, ConvertSteer
  <2> QED BY <1>1, <2>1, <2>2, UnsavedRests DEF db
<1>3. ASSUME NEW a, SteerAnswer(f, a) PROVE FALSE
  BY <1>1, <1>3 DEF SteerAnswer, ConvertSteer
<1>4. ASSUME NEW t \in Tasks, SendFollowup(t, "steer") PROVE New \/ Old
  <2>1. PICK g \in Followups, r \in Runs :
          /\ fup[g].status = "none" /\ steer' = [steer EXCEPT ![g] = "launch"] /\ fup' = NewFollowup(g, r, "steer")
    BY <1>4 DEF SendFollowup, UnusedFollowup, OfTask
  <2>2. UNCHANGED <<call, hits, finishing>>
    BY <1>4 DEF SendFollowup, sessions
  <2> QED BY <1>1, <2>1, <2>2 DEF NewFollowup
<1>5. ASSUME NEW g \in Followups, SteerAfterLaunch(g) PROVE Old
  BY <1>1, <1>5 DEF SteerAfterLaunch, sessions, db
<1>6. ASSUME UNCHANGED steer PROVE Old \/ \E a \in AnswerKinds : SteerAnswer(f, a)
  <2>1. fup[f].status # "none"
    BY <1>6, UnsavedRests
  <2> QED BY <1>1, <1>2, <1>6, <2>1, ModeStays DEF KeepsMode
<1>7. ASSUME NEW g \in Followups, NEW a \in AnswerKinds, SteerSend(g) \/ SteerAnswer(g, a) \/ ResendAnswer(g, a), g # f
      PROVE  Old
  <2>1. steer'[f] = steer[f]
    BY <1>1, <1>7 DEF SteerSend, SteerAnswer, ResendAnswer, ConvertSteer
  <2>2. fup[f].status # "none"
    BY <2>1, UnsavedRests
  <2> QED BY <1>1, <1>2, <1>3, <2>1, <2>2, ModeStays DEF KeepsMode
<1>8. ASSUME NEW a, ResendAnswer(f, a) PROVE FALSE
  BY <1>1, <1>8 DEF ResendAnswer
<1>9. Old => steer[f] \in W /\ fup[f].status # "none"
  BY UnsavedRests
<1>10. \/ UNCHANGED steer
       \/ \E t \in Tasks : SendFollowup(t, "steer")
       \/ \E g \in Followups : \/ SteerAfterLaunch(g) \/ SteerSend(g)
                               \/ \E a \in AnswerKinds : SteerAnswer(g, a) \/ ResendAnswer(g, a)
  <2>1. /\ \A c \in Calls : Typed(c) => UNCHANGED steer
        /\ \A q \in Requests : StopSignals(q) => UNCHANGED steer
        /\ \A t \in Tasks : ContinueTask(t) => UNCHANGED steer
    BY DEF Typed, StopSignals, ContinueTask, jobs
  <2>2. /\ \A r \in Runs : ApplyFinishedSends(r) => UNCHANGED steer
        /\ \A r \in Runs, a \in AnswerKinds : ContinueAnswer(r, a) => UNCHANGED steer
        /\ \A r \in Runs, a \in AnswerKinds, g \in Followups : QueueAnswer(r, g, a) => UNCHANGED steer
    BY DEF ApplyFinishedSends, ContinueAnswer, QueueAnswer, jobs
  <2> QED BY <2>1, <2>2, DeliverySteps DEF DeliveryStep
<1>11. New \/ Old
  <2> HIDE DEF New, Old
  <2>1. CASE UNCHANGED steer
    BY <1>3, <1>6, <2>1
  <2>2. ASSUME NEW g \in Followups, NEW a \in AnswerKinds, SteerSend(g) \/ SteerAnswer(g, a) \/ ResendAnswer(g, a)
        PROVE  Old
    BY <1>2, <1>3, <1>7, <1>8, <2>2
  <2>3. AnswerKinds # {}
    BY DEF AnswerKinds
  <2> QED BY <1>4, <1>5, <1>10, <2>1, <2>2, <2>3
<1> QED BY <1>9, <1>11

\* A steer stays one while its job has not converted it.
LEMMA SteerModesStep ==
  ASSUME Rows, SteerCalls, SteerModes, Claude, Next, ~Restart PROVE SteerModes'
BY SteerGoesOn DEF SteerModes

-----------------------------------------------------------------------------
(* What calls carry *)

\* A call carries the first of a queue, or the steer that is named in it.
LEMMA CarriedBy ==
  ASSUME CoreType, Sending, NEW c \in Calls, call[c] # "none", CallFollowup(c) # 0
  PROVE  /\ CallFollowup(c) \in Followups
         /\ \/ \E r \in Runs : /\ c = <<"queue", r>> /\ finishing[r] # {}
                               /\ CallFollowup(c) = First(finishing[r]) /\ CallFollowup(c) \in finishing[r]
            \/ c = <<"steer", CallFollowup(c)>> \/ c = <<"resend", CallFollowup(c)>>
<1>1. CASE c \in {"continue", "queue"} \X Runs
  <2>1. PICK r \in Runs : c = <<"continue", r>> \/ c = <<"queue", r>>
    BY <1>1
  <2>2. c = <<"queue", r>> /\ CallFollowup(c) = First(finishing[r])
    BY <2>1 DEF CallFollowup
  <2>3. finishing[r] # {} /\ finishing[r] \in SUBSET Followups
    BY <2>2 DEF Sending, CoreType, JobsType
  <2>4. First(finishing[r]) \in finishing[r]
    BY <2>3, FirstOf DEF IsFirst
  <2> QED BY <2>2, <2>3, <2>4
<1>2. CASE c \in {"steer", "resend"} \X Followups
  <2>1. PICK f \in Followups : c = <<"steer", f>> \/ c = <<"resend", f>>
    BY <1>2
  <2> QED BY <2>1 DEF CallFollowup
<1> QED BY <1>1, <1>2 DEF Calls

\* A follow-up reaches a session when a call that carries it is typed.
LEMMA HitsOf ==
  ASSUME Rows, Claude, Next, ~Restart, NEW f \in Followups
  PROVE  \/ hits'[f] = hits[f]
         \/ \E c \in Calls :
              /\ CallFollowup(c) = f /\ call[c] = "open" /\ ~AlreadyInTranscript(c)
              /\ call' = [call EXCEPT ![c] = "reached"] /\ hits'[f] = (IF hits[f] = 0 THEN 1 ELSE 2)
              /\ UNCHANGED <<card, run, fup, launch, steer, chain, finishing, req, recovery>>
<1>1. hits \in [Followups -> 0 .. 2]
  BY DEF Rows, CoreType, SessionsType
<1>2. ASSUME NEW c \in Calls, hits' = Hit(c), hits'[f] # hits[f]
      PROVE  CallFollowup(c) = f /\ hits'[f] = (IF hits[f] = 0 THEN 1 ELSE 2)
  BY <1>1, <1>2 DEF Hit
<1> QED BY <1>2, HitsMove

\* What a call carries is a queued follow-up, or the steer it is named for.
LEMMA CarriedOnce ==
  ASSUME Rows, SteerCalls, SteerModes, Sends, NEW f \in Followups, NEW c \in Calls, call[c] # "none",
         CallFollowup(c) = f
  PROVE  /\ fup[f].status # "none"
         /\ steer[f] \notin {"launch", "delivery"}
         /\ steer[f] = "typing" => c = <<"steer", f>>
         /\ c[1] # "steer" => fup[f].mode = "queue" \/ c = <<"resend", f>>
         /\ \A d \in Calls : call[d] # "none" /\ CallFollowup(d) = f => d = c
<1>1. ASSUME NEW d \in Calls, call[d] # "none", CallFollowup(d) = f
      PROVE  \/ \E r \in Runs : d = <<"queue", r>> /\ f \in finishing[r] /\ fup[f].mode = "queue"
                                /\ call[<<"resend", f>>] = "none" /\ \A s \in Runs \ {r} : f \notin finishing[s]
             \/ d = <<"steer", f>> /\ steer[f] = "typing" /\ fup[f].mode = "steer"
             \/ d = <<"resend", f>> /\ steer[f] = "resend"
  <2>1. CoreType /\ Sending /\ CallFollowup(d) # 0
    BY <1>1, BoundsAssumption DEF Rows, Followups
  <2>2. \/ \E r \in Runs : d = <<"queue", r>> /\ finishing[r] # {} /\ f \in finishing[r]
        \/ d = <<"steer", f>> \/ d = <<"resend", f>>
    BY <1>1, <2>1, CarriedBy
  <2>3. ASSUME NEW r \in Runs, f \in finishing[r]
        PROVE  fup[f].mode = "queue" /\ call[<<"resend", f>>] = "none" /\ \A s \in Runs \ {r} : f \notin finishing[s]
    BY <2>3 DEF Sends
  <2> QED BY <1>1, <2>2, <2>3 DEF SteerCalls, SteerModes
<1>2. fup[f].status # "none"
  BY <1>1, UnsavedRests DEF Rows, RowsLinked
<1>3. \A d \in Calls : call[d] # "none" /\ CallFollowup(d) = f => d = c
  BY <1>1
<1>4. \/ fup[f].mode = "queue" /\ c[1] = "queue"
      \/ c = <<"steer", f>> /\ steer[f] = "typing"
      \/ c = <<"resend", f>> /\ steer[f] = "resend"
  BY <1>1
<1>5. steer[f] \in {"launch", "delivery", "typing"} => fup[f].mode = "steer"
  BY DEF SteerModes
<1> QED BY <1>2, <1>3, <1>4, <1>5

\* A message that was not typed yet has not reached a session.
LEMMA NewMessagesStep ==
  ASSUME Rows, SteerCalls, SteerModes, Sends, NewMessages, Claude, Next, ~Restart PROVE NewMessages'
<1> SUFFICES ASSUME NEW f \in Followups
             PROVE  /\ fup'[f].status = "none" \/ steer'[f] \in {"launch", "delivery"} => hits'[f] = 0
                    /\ call'[<<"steer", f>>] = "open" => hits'[f] = 0
  BY DEF NewMessages
<1>1. CoreType /\ <<"steer", f>> \in Calls
  BY DEF Rows, Calls
<1>2. ASSUME hits'[f] # hits[f]
      PROVE  fup'[f].status # "none" /\ steer'[f] \notin {"launch", "delivery"} /\ call'[<<"steer", f>>] # "open"
  <2>1. PICK c \in Calls : /\ CallFollowup(c) = f /\ call[c] = "open" /\ call' = [call EXCEPT ![c] = "reached"]
                           /\ UNCHANGED <<fup, steer>>
    BY <1>2, HitsOf
  <2>2. fup[f].status # "none" /\ steer[f] \notin {"launch", "delivery"}
    BY <2>1, CarriedOnce
  <2>3. c # <<"steer", f>> => call[<<"steer", f>>] = "none"
    BY <2>1, CarriedOnce DEF CallFollowup, Calls
  <2> QED BY <1>1, <2>1, <2>2, <2>3 DEF CoreType, SessionsType, CallStates
<1>3. fup'[f].status = "none" => fup[f].status = "none"
  BY <1>1, OwnersChange DEF OwnerChange, SameOwner, Saved, SentBy, Reopened
<1>4. steer'[f] \in {"launch", "delivery"} => fup[f].status = "none" \/ steer[f] \in {"launch", "delivery"}
  BY SteerGoesOn
<1>5. call'[<<"steer", f>>] = "open" => call[<<"steer", f>>] = "open" \/ steer[f] = "delivery"
  <2>1. Opens(<<"steer", f>>) => steer[f] = "delivery"
    BY DEF Opens, SteerSend
  <2> QED BY <1>1, <2>1, CallsChange DEF CallMoves
<1> QED BY <1>2, <1>3, <1>4, <1>5 DEF NewMessages

-----------------------------------------------------------------------------
(* The order of the runs *)

\* Runs are created one after the other.
LEMMA RunsInRowStep ==
  ASSUME Rows, RunsInRow, Next PROVE RunsInRow'
<1> USE DEF CoreType, RowsType, RunRows
<1>1. CoreType /\ \A r \in recovery.stopping : run[r].status # "none"
  BY DEF Rows, RunsHaveTasks
<1>2. CASE KeepsEnded(run')
  <2>1. \A r \in Runs : run'[r].status = "none" <=> run[r].status = "none"
    BY <1>1, <1>2 DEF KeepsEnded, Active, ActiveStatus
  <2> QED BY <2>1 DEF RunsInRow
<1>3. CASE CreatesRun
  <2>1. PICK n \in Runs : /\ run[n].status = "none" /\ \A s \in Runs : s < n => run[s].status # "none"
                          /\ run'[n].status = "starting" /\ \A s \in Runs \ {n} : run'[s] = run[s]
    BY <1>3 DEF CreatesRun
  <2>2. \A r \in Runs : run'[r].status # "none" => run[r].status # "none" \/ r = n
    BY <2>1
  <2>3. \A s \in Runs : run[s].status # "none" => run'[s].status # "none"
    BY <2>1
  <2> QED BY <2>1, <2>2, <2>3 DEF RunsInRow
<1>4. CASE ResumesRun
  <2>1. \A r \in Runs : run'[r].status = "none" <=> run[r].status = "none"
    BY <1>1, <1>4 DEF ResumesRun
  <2> QED BY <2>1 DEF RunsInRow
<1> QED BY <1>1, <1>2, <1>3, <1>4, RunsChange DEF RunChange

\* An active run stays the latest of its card, and a new one becomes the latest.
LEMMA ActiveIsLatestStep ==
  ASSUME Rows, NotRecovering, restarts = 0, RunsInRow, ActiveIsLatest, Next PROVE ActiveIsLatest'
<1> USE DEF CoreType, RowsType, RunRows
<1>1. CoreType /\ RunsHaveTasks
  BY DEF Rows
<1>2. CASE KeepsEnded(run')
  <2>1. \A r \in Runs : run'[r].task = run[r].task /\ (Active(r)' => Active(r))
    BY <1>2 DEF KeepsEnded, Active
  <2> QED BY <2>1 DEF ActiveIsLatest, IsLatest, OfTask
<1>3. CASE CreatesRun
  <2>1. PICK n \in Runs : /\ run[n].status = "none" /\ NoActiveRun(run'[n].task)
                          /\ \A s \in Runs \ {n} : run'[s] = run[s]
                          /\ run'[n].task \in Tasks
                               \/ \E o \in Runs : run[o].status # "none" /\ run[o].task = run'[n].task
    BY <1>3 DEF CreatesRun
  <2>2. run'[n].task \in Tasks
    BY <1>1, <2>1 DEF RunsHaveTasks
  <2>3. \A s \in Runs : run'[s].task = run'[n].task => s <= n
    <3> TAKE s \in Runs
    <3>1. s \in Nat /\ n \in Nat
      BY BoundsAssumption DEF Runs
    <3>2. CASE s # n /\ run'[s].task = run'[n].task
      <4>1. run[s].status # "none"
        BY <1>1, <2>1, <2>2, <3>2, TasksAssumption DEF RunsHaveTasks
      <4>2. ~(n < s)
        BY <2>1, <4>1 DEF RunsInRow
      <4> QED BY <3>1, <4>2
    <3> QED BY <3>1, <3>2
  <2>4. \A r \in Runs \ {n} : Active(r)' => Active(r) /\ run[r].task # run'[n].task
    BY <2>1 DEF Active, NoActiveRun, OfTask
  <2> QED BY <2>1, <2>3, <2>4 DEF ActiveIsLatest, IsLatest, OfTask
<1>4. ~ResumesRun
  BY DEF ResumesRun, NotRecovering
<1> QED BY <1>1, <1>2, <1>3, <1>4, RunsChange DEF RunChange

-----------------------------------------------------------------------------
(* The first message of a run *)

\* A steer that is sent again stays with the run that was opened for it.
LEMMA ResendKeepsRun ==
  ASSUME Rows, Openings, Sends, Claude, Next, NEW f \in Followups, call[<<"resend", f>>] # "none"
  PROVE  fup[f].status # "none" /\ fup'[f].run = fup[f].run /\ fup'[f].task = fup[f].task
<1>1. fup[f].status # "none"
  BY UnsavedRests
<1>2. \A r \in Runs : f \notin finishing[r]
  BY DEF Sends
<1>3. Active(fup[f].run)
  BY DEF Openings, Opening, CallRun, Calls
<1>4. CoreType
  BY DEF Rows
<1> QED BY <1>1, <1>2, <1>3, <1>4, OwnersChange
        DEF OwnerChange, SameOwner, Saved, SentBy, Reopened, Active, ActiveStatus

\* The message that opens a run goes to a new run.
LEMMA OpeningStarts ==
  ASSUME Rows, Claude, Next, NEW c \in Calls, ~Opening(c), Opening(c)'
  PROVE  CallRun(c)' \in Runs /\ run[CallRun(c)'].status = "none" /\ run'[CallRun(c)'].status = "starting"
<1>1. CallMoves(c)
  BY CallsChange DEF Rows
<1>2. Opens(c)
  BY <1>1 DEF CallMoves, Opening
<1>3. CASE \E r \in Runs : c = <<"continue", r>> /\ run[r].status = "none" /\ run'[r].status = "starting"
  BY <1>3 DEF CallRun
<1>4. ASSUME NEW f \in Followups, NEW n \in Runs, c = <<"resend", f>>, run[n].status = "none",
             run'[n].status = "starting", fup'[f].run = n
      PROVE  CallRun(c)' = n
  BY <1>4 DEF CallRun
<1> QED BY <1>2, <1>3, <1>4 DEF Opens, Opening

\* A step opens one run at most.
LEMMA OneOpens ==
  ASSUME CoreType, Claude, Next, ~Restart,
         NEW c \in Calls, ~Opening(c), Opening(c)', NEW d \in Calls, ~Opening(d), Opening(d)'
  PROVE  c = d
<1> DEFINE One(e) == \A x \in Calls : Opening(x)' /\ ~Opening(x) => x = e
<1> USE DEF CoreType, SessionsType, CallStates
<1>1. UNCHANGED call => One(c)
  BY DEF Opening
<1>2. ASSUME NEW e \in Calls, Typed(e) PROVE One(c)
  BY <1>2 DEF Typed, Opening
<1>3. ASSUME NEW q \in Requests, StopSignals(q) PROVE One(c)
  BY <1>3 DEF StopSignals, CalledOff, Opening
<1>4. ASSUME NEW t \in Tasks, ContinueTask(t) PROVE \E e \in Calls : One(e)
  <2>1. PICK r \in Runs : \E n : call' = [call EXCEPT ![<<"continue", r>>] = n]
    BY <1>4 DEF ContinueTask
  <2>2. One(<<"continue", r>>)
    BY <2>1 DEF Opening
  <2> QED BY <2>2 DEF Calls
<1>5. ASSUME NEW t \in Tasks, SendFollowup(t, "steer") PROVE One(c)
  BY <1>1, <1>5 DEF SendFollowup, sessions
<1>6. ASSUME NEW r \in Runs, ApplyFinishedSends(r) PROVE One(c)
  BY <1>6 DEF ApplyFinishedSends, Opening
<1>7. ASSUME NEW r \in Runs, NEW a, ContinueAnswer(r, a) PROVE One(c)
  BY <1>7 DEF ContinueAnswer, Opening
<1>8. ASSUME NEW r \in Runs, NEW a, NEW f, QueueAnswer(r, f, a) PROVE One(c)
  BY <1>8 DEF QueueAnswer, Opening
<1>9. ASSUME NEW f \in Followups, NEW K \in CallStates, NEW code, NEW R, NEW T, ConvertSteer(f, code, R, T, K),
             \A x \in Calls : K[x] = call[x] \/ K[x] = "none"
      PROVE  One(<<"resend", f>>)
  <2> HIDE DEF CallStates
  <2> QED BY <1>9, ConvertedJob DEF Opening
<1>10. ASSUME NEW f \in Followups, SteerAfterLaunch(f) \/ SteerSend(f) PROVE \E e \in Calls : One(e)
  <2>1. CASE UNCHANGED call
    BY <1>1, <2>1
  <2>2. CASE call' = [call EXCEPT ![<<"steer", f>>] = "open"]
    BY <2>2 DEF Opening
  <2>3. CASE \E code : ConvertSteer(f, code, run, turn, call)
    <3>1. One(<<"resend", f>>)
      BY <1>9, <2>3
    <3>2. <<"resend", f>> \in Calls
      BY DEF Calls
    <3> QED BY <3>1, <3>2
  <2> QED BY <1>10, <2>1, <2>2, <2>3 DEF SteerAfterLaunch, SteerSend, sessions
<1>11. ASSUME NEW f \in Followups, NEW a, SteerAnswer(f, a) PROVE \E e \in Calls : One(e)
  <2> DEFINE K == [call EXCEPT ![<<"steer", f>>] = "none"]
  <2>1. K \in CallStates /\ \A x \in Calls : K[x] = call[x] \/ K[x] = "none"
    OBVIOUS
  <2>2. CASE call' = K
    BY <2>2 DEF Opening
  <2>3. CASE \E code, R, T : ConvertSteer(f, code, R, T, K)
    <3> HIDE DEF K
    <3>1. One(<<"resend", f>>)
      BY <1>9, <2>1, <2>3
    <3>2. <<"resend", f>> \in Calls
      BY DEF Calls
    <3> QED BY <3>1, <3>2
  <2> QED BY <1>11, <2>2, <2>3 DEF SteerAnswer
<1>12. ASSUME NEW f \in Followups, NEW a, ResendAnswer(f, a) PROVE One(c)
  BY <1>12 DEF ResendAnswer, Opening
<1>13. \E e \in Calls : One(e)
  <2> HIDE DEF One
  <2> QED BY <1>1, <1>2, <1>3, <1>4, <1>5, <1>6, <1>7, <1>8, <1>10, <1>11, <1>12, DeliverySteps DEF DeliveryStep
<1> QED BY <1>13

\* The board of Claude, not restarted yet, with what is proved of it so far
Up ==
  /\ Rows /\ CallsInv /\ OneActiveRun /\ NotRecovering /\ StopHasRequest
  /\ restarts = 0 /\ Claude /\ NoStopFailsBeforeAnother

\* While a message goes to an active run its stop is not settled, its poller says
\* nothing, and it is not being launched.
LEMMA CallHolds ==
  ASSUME Up, NEW r \in Runs, Active(r), CallsOf(r) # {}
  PROVE  /\ \A q \in Requests : StopSettles(q) => req[q].run # r
         /\ \A s : ~TurnEnds(r, s)
         /\ r \notin launch
<1>1. r \notin launch
  BY DEF Up, CallsInv, LaunchesAlone
<1>2. \A s : ~TurnEnds(r, s)
  BY PolledAlone DEF Up, CallsInv
<1>3. run[r].session # 0
  BY <1>1 DEF Up, CallsInv, SessionKnown, Active, ActiveStatus
<1>4. ASSUME NEW q \in Requests, StopSettles(q), req[q].run = r PROVE FALSE
  <2>1. req[q].pc = "delivery"
    BY <1>4 DEF StopSettles
  <2>2. Alone(r)
    BY <1>3, <1>4, <2>1 DEF Up, CallsInv, StopsAlone
  <2> QED BY <2>2 DEF Alone
<1> QED BY <1>1, <1>2, <1>4

\* A run that waits for its first message keeps waiting until it is answered.
LEMMA OpeningsStep ==
  ASSUME Up, Openings, Sends, Next, ~Restart PROVE Openings'
<1>0. CoreType /\ Rows /\ Claude
  BY DEF Up, Rows
<1>1. ASSUME NEW d \in Calls, Opening(d), Opening(d)' PROVE CallRun(d)' = CallRun(d)
  <2>1. CASE d[1] = "continue"
    BY <2>1 DEF CallRun
  <2>2. CASE d[1] = "resend"
    <3>1. PICK f \in Followups : d = <<"resend", f>>
      BY <2>2 DEF Calls
    <3> QED BY <1>0, <1>1, <3>1, ResendKeepsRun DEF CallRun, Opening
  <2> QED BY <1>1, <2>1, <2>2 DEF Opening
<1>2. \A d \in Calls : Opening(d)' /\ ~Opening(d) =>
        CallRun(d)' \in Runs /\ run[CallRun(d)'].status = "none" /\ run'[CallRun(d)'].status = "starting"
  BY <1>0, OpeningStarts
<1>3. \A d \in Calls : Opening(d) => CallRun(d) \in Runs /\ Active(CallRun(d)) /\ chain[CallRun(d)] = <<>>
  BY <1>0, CallsHaveRuns DEF Openings, Opening, Rows
<1> SUFFICES ASSUME NEW c \in Calls, Opening(c)', NEW r, r = CallRun(c)'
             PROVE  /\ run'[r].status \in ActiveStatus /\ chain'[r] = <<>>
                    /\ \A d \in Calls : Opening(d)' /\ CallRun(d)' = r => d = c
  BY DEF Openings, Active, CallsOf
<1>4. r \in Runs /\ run[r].status \in (IF Opening(c) THEN ActiveStatus ELSE {"none"})
  BY <1>1, <1>2, <1>3 DEF Active
<1>5. ASSUME NEW d \in Calls, Opening(d)', CallRun(d)' = r PROVE d = c
  <2>1. CASE Opening(c) /\ Opening(d)
    <3>1. d \in CallsOf(CallRun(c))
      BY <1>1, <1>5, <2>1 DEF CallsOf, Opening
    <3> QED BY <2>1, <3>1 DEF Openings
  <2>2. CASE ~Opening(c) /\ ~Opening(d)
    BY <1>0, <1>5, <2>2, OneOpens
  <2>3. CASE Opening(c) /\ ~Opening(d)
    BY <1>2, <1>4, <1>5, <2>3 DEF ActiveStatus
  <2>4. CASE ~Opening(c) /\ Opening(d)
    BY <1>1, <1>3, <1>4, <1>5, <2>4 DEF Active, ActiveStatus
  <2> QED BY <2>1, <2>2, <2>3, <2>4
<1>6. UpdatesMove(r)
  BY <1>0, <1>4, ChainChange DEF Rows
<1>7. CASE ~Opening(c)
  <2>1. run[r].status = "none" /\ run'[r].status = "starting"
    BY <1>2, <1>7
  <2>2. chain[r] = <<>> /\ r \notin held /\ r \notin recovery.todo
    BY <1>4, <2>1 DEF Up, CallsInv, BlankRuns
  <2>3. chain'[r] = <<>>
    BY <1>0, <1>6, <2>2 DEF UpdatesMove, TurnEnds, Polled, IsFirst
  <2> QED BY <1>5, <2>1, <2>3 DEF ActiveStatus
<1>8. CASE Opening(c)
  <2>1. CallRun(c) = r /\ Active(r) /\ chain[r] = <<>> /\ c \in CallsOf(r)
    BY <1>1, <1>3, <1>8 DEF CallsOf, Opening
  <2>2. /\ \A q \in Requests : StopSettles(q) => req[q].run # r
        /\ \A s : ~TurnEnds(r, s)
        /\ r \notin launch
    BY <1>4, <2>1, CallHolds
  <2>3. recovery.todo = {}
    BY DEF Up, NotRecovering
  <2>4. chain'[r] = <<>>
    BY <1>6, <2>1, <2>2, <2>3 DEF UpdatesMove, IsFirst
  <2>5. ASSUME NEW e \in CallsOf(r), e[1] # "steer", CallAnswer(e) PROVE FALSE
    <3>1. CASE e[1] = "queue"
      <4>1. e = <<"queue", r>>
        BY <2>5, <3>1 DEF CallsOf, CallRun, Calls
      <4> QED BY <1>4, <2>1, <2>5, <4>1 DEF CallsOf, Up, Rows, Sending
    <3>2. CASE e[1] # "queue"
      <4>1. e[1] \in {"continue", "resend"}
        BY <2>5, <3>2 DEF CallsOf, Calls
      <4>2. e = c
        BY <1>8, <2>1, <2>5, <4>1 DEF Openings, Opening, CallsOf
      <4> QED BY <1>0, <2>5, <3>2, <4>2, AnswerEnds DEF Opening
    <3> QED BY <3>1, <3>2
  <2>6. RunMoves(r)
    BY <1>0, <1>4, RunsMove
  <2>7. AnswerMoves(r) => run'[r].status = "running"
    BY <2>2, <2>3, <2>5 DEF AnswerMoves
  <2>8. SegmentMoves(r) => run'[r].status = "stopping"
    BY <2>1, <2>2 DEF SegmentMoves, ApplyFinished, ApplyFinishedSends, ApplyStopped, ApplyFailure
  <2>9. run'[r].status \in ActiveStatus
    BY <2>1, <2>6, <2>7, <2>8 DEF RunMoves, IsNew, Active, ActiveStatus
  <2> QED BY <1>5, <2>4, <2>9
<1> QED BY <1>7, <1>8

-----------------------------------------------------------------------------
(* The queue a finished update sends *)

\* Only the job of a steer sends it again.
LEMMA ResendStarts ==
  ASSUME Rows, SteerCalls, SteerModes, Claude, Next, ~Restart, NEW f \in Followups,
         call[<<"resend", f>>] = "none", call'[<<"resend", f>>] # "none"
  PROVE  fup[f].mode = "steer" /\ UNCHANGED finishing
<1> DEFINE R(g) == <<"resend", g>>
<1> USE DEF CoreType, SessionsType, CallStates
<1>1. CoreType /\ R(f) \in Calls
  BY DEF Rows, Calls
<1>2. ASSUME NEW g \in Followups, SteerSend(g) PROVE g = f /\ steer[g] = "delivery" /\ UNCHANGED finishing
  <2>1. call' = call \/ call' = [call EXCEPT ![<<"steer", g>>] = "open"] \/ \E code : ConvertSteer(g, code, run, turn, call)
    BY <1>2 DEF SteerSend
  <2> QED BY <1>1, <1>2, <2>1, ConvertedJob DEF SteerSend
<1>3. ASSUME NEW g \in Followups, NEW a, SteerAnswer(g, a) PROVE g = f /\ steer[g] = "typing" /\ UNCHANGED finishing
  <2> DEFINE K == [call EXCEPT ![<<"steer", g>>] = "none"]
  <2>1. K \in CallStates /\ K[R(f)] = "none"
    BY <1>1
  <2>2. call' = K \/ \E code, S, T : ConvertSteer(g, code, S, T, K)
    BY <1>3 DEF SteerAnswer
  <2>3. UNCHANGED finishing /\ steer[g] = "typing"
    BY <1>3 DEF SteerAnswer, SteerCalls
  <2> HIDE DEF K, CallStates
  <2> QED BY <1>1, <2>1, <2>2, <2>3, ConvertedJob
<1>4. ASSUME NEW c \in Calls, Typed(c) PROVE FALSE
  BY <1>1, <1>4 DEF Typed
<1>5. ASSUME NEW q \in Requests, StopSignals(q) PROVE FALSE
  BY <1>1, <1>5 DEF StopSignals, CalledOff
<1>6. ASSUME NEW t \in Tasks, ContinueTask(t) \/ SendFollowup(t, "steer") PROVE FALSE
  BY <1>1, <1>6 DEF ContinueTask, SendFollowup, sessions
<1>7. ASSUME NEW r \in Runs, NEW a, ApplyFinishedSends(r) \/ ContinueAnswer(r, a) PROVE FALSE
  BY <1>1, <1>7 DEF ApplyFinishedSends, ContinueAnswer
<1>8. ASSUME NEW r \in Runs, NEW a, NEW g, QueueAnswer(r, g, a) PROVE FALSE
  BY <1>1, <1>8 DEF QueueAnswer
<1>9. ASSUME NEW g \in Followups, NEW a, ResendAnswer(g, a) PROVE FALSE
  BY <1>1, <1>9 DEF ResendAnswer
<1>10. ASSUME NEW g \in Followups, SteerAfterLaunch(g) PROVE FALSE
  BY <1>1, <1>10 DEF SteerAfterLaunch, sessions
<1>11. PICK g \in Followups : SteerSend(g) \/ \E a \in AnswerKinds : SteerAnswer(g, a)
  BY <1>4, <1>5, <1>6, <1>7, <1>8, <1>9, <1>10, DeliverySteps DEF DeliveryStep, AnswerKinds
<1> QED BY <1>2, <1>3, <1>11 DEF SteerModes

\* A run that sends its queue goes on with it until its answer comes.
LEMMA QueueMoves ==
  ASSUME Up, Openings, Sends, Next, ~Restart, NEW r \in Runs, finishing[r] # {}
  PROVE  \/ \E a \in AnswerKinds, f \in Followups : QueueAnswer(r, f, a)
         \/ /\ finishing'[r] = finishing[r] /\ chain'[r] = chain[r]
            /\ run'[r].status \in {"running", "stopping"}
<1>1. CoreType /\ Claude /\ Rows /\ Sending
  BY DEF Up, Rows
<1>2. /\ run[r].status \in {"running", "stopping"} /\ Active(r) /\ Len(chain[r]) = 1
      /\ <<"queue", r>> \in CallsOf(r)
  BY NamedCalls DEF Sends, Up, CallsInv, SendingHasCall, Active, ActiveStatus
<1>3. /\ \A q \in Requests : StopSettles(q) => req[q].run # r
      /\ \A s : ~TurnEnds(r, s)
      /\ r \notin launch /\ recovery.todo = {}
  BY <1>2, CallHolds DEF Up, NotRecovering
<1> SUFFICES ASSUME \A a \in AnswerKinds, f \in Followups : ~QueueAnswer(r, f, a)
             PROVE  /\ finishing'[r] = finishing[r] /\ chain'[r] = chain[r]
                    /\ run'[r].status \in {"running", "stopping"}
  OBVIOUS
<1>4. finishing'[r] = finishing[r]
  <2> USE <1>1 DEF CoreType, JobsType
  <2>1. ASSUME NEW s \in Runs, ApplyFinishedSends(s) PROVE finishing'[r] = finishing[r]
    BY <2>1 DEF ApplyFinishedSends
  <2>2. ASSUME NEW s \in Runs, NEW a \in AnswerKinds, NEW f \in Followups, QueueAnswer(s, f, a)
        PROVE  finishing'[r] = finishing[r]
    <3>1. s # r
      BY <2>2
    <3> QED BY <2>2, <3>1 DEF QueueAnswer
  <2>3. /\ \A c \in Calls : Typed(c) => UNCHANGED finishing
        /\ \A q \in Requests : StopSignals(q) => UNCHANGED finishing
        /\ \A t \in Tasks : ContinueTask(t) \/ SendFollowup(t, "steer") => UNCHANGED finishing
        /\ \A s \in Runs, a \in AnswerKinds : ContinueAnswer(s, a) => UNCHANGED finishing
    BY DEF Typed, StopSignals, ContinueTask, SendFollowup, ContinueAnswer, jobs
  <2>4. \A f \in Followups : /\ SteerAfterLaunch(f) \/ SteerSend(f) => UNCHANGED finishing
                             /\ \A a \in AnswerKinds : SteerAnswer(f, a) \/ ResendAnswer(f, a) => UNCHANGED finishing
    BY DEF SteerAfterLaunch, SteerSend, SteerAnswer, ResendAnswer
  <2> QED BY <2>1, <2>2, <2>3, <2>4, DeliverySteps DEF DeliveryStep
<1>5. chain'[r] = chain[r]
  BY <1>1, <1>3, <1>4, ChainChange DEF UpdatesMove, IsFirst
<1>6. ASSUME NEW e \in CallsOf(r), e[1] # "steer", CallAnswer(e) PROVE FALSE
  <2>1. CASE e[1] = "queue"
    <3>1. e = <<"queue", r>>
      BY <1>6, <2>1 DEF CallsOf, CallRun, Calls
    <3> QED BY <1>6, <3>1 DEF CallAnswer
  <2>2. CASE e[1] # "queue"
    <3>1. Opening(e) /\ CallRun(e) = r /\ e \in Calls
      BY <1>6, <2>2 DEF CallsOf, Calls, Opening
    <3>2. chain[r] = <<>>
      BY <3>1 DEF Openings
    <3> QED BY <1>2, <3>2
  <2> QED BY <2>1, <2>2
<1>7. RunMoves(r)
  BY <1>1, RunsMove
<1>8. AnswerMoves(r) => run'[r].status = "running"
  BY <1>3, <1>6 DEF AnswerMoves
<1>9. SegmentMoves(r) => run'[r].status = "stopping"
  BY <1>2, <1>3 DEF SegmentMoves, ApplyFinished, ApplyFinishedSends, ApplyStopped, ApplyFailure
<1>10. run'[r].status \in {"running", "stopping"}
  BY <1>2, <1>7, <1>8, <1>9 DEF RunMoves, IsNew
<1> QED BY <1>4, <1>5, <1>10

\* What a finished update is about to send is sent by nobody else.
LEMMA SendsApart ==
  ASSUME Up, Openings, Sends, NEW r \in Runs, Active(r), finishing[r] = {}, chain[r] # <<>>,
         NEW f \in Followups, Queue(f), fup[f].task = run[r].task
  PROVE  call[<<"resend", f>>] = "none" /\ \A s \in Runs : f \notin finishing[s]
<1>1. UsedBy(fup[f].run, run[r].task)
  BY DEF Up, Rows, RowsLinked, Queue
<1>2. ASSUME call[<<"resend", f>>] # "none" PROVE FALSE
  <2> DEFINE c == <<"resend", f>>
  <2>1. c \in Calls /\ Opening(c) /\ CallRun(c) = fup[f].run
    BY <1>2 DEF Calls, Opening, CallRun
  <2>2. Active(fup[f].run) /\ chain[fup[f].run] = <<>>
    BY <2>1 DEF Openings
  <2> QED BY <1>1, <2>2 DEF Up, OneActiveRun, UsedBy
<1>3. ASSUME NEW s \in Runs, f \in finishing[s] PROVE FALSE
  <2>1. run[s].task = run[r].task /\ Active(s)
    BY <1>3 DEF Up, Rows, RowsLinked, UsedBy, Sends, Active, ActiveStatus
  <2> QED BY <1>3, <2>1 DEF Up, OneActiveRun
<1> QED BY <1>2, <1>3

\* A finished update goes on to send its queue alone.
LEMMA SendsStep ==
  ASSUME Up, Openings, SteerCalls, SteerModes, Sends, Next, ~Restart PROVE Sends'
<1>0. CoreType /\ Rows /\ Claude /\ Sending
  BY DEF Up, Rows
<1>1. ASSUME NEW r \in Runs, ApplyFinishedSends(r)
      PROVE  /\ finishing' = [finishing EXCEPT ![r] = PendingQueue(run[r].task)]
             /\ UNCHANGED <<fup, chain>> /\ run'[r].status = "running" /\ Len(chain[r]) = 1
             /\ \A f \in Followups : call'[<<"resend", f>>] = call[<<"resend", f>>]
             /\ \A f \in PendingQueue(run[r].task) :
                  /\ f \in Followups /\ fup[f].mode = "queue" /\ call[<<"resend", f>>] = "none"
                  /\ \A s \in Runs : f \notin finishing[s]
  <2>1. \A f \in PendingQueue(run[r].task) :
          f \in Followups /\ Queue(f) /\ fup[f].task = run[r].task
    BY DEF PendingQueue, Queue
  <2>2. Active(r) /\ finishing[r] = {} /\ chain[r] # <<>>
    BY <1>1 DEF ApplyFinishedSends
  <2>3. \A f \in PendingQueue(run[r].task) :
          call[<<"resend", f>>] = "none" /\ \A s \in Runs : f \notin finishing[s]
    BY <2>1, <2>2, SendsApart
  <2>4. \A i \in DOMAIN chain[r] : ~(i > 1)
    BY DEF Up, CallsInv, UpdatesInOrder, NotRecovering, IsFirst
  <2>5. Len(chain[r]) = 1
    <3>1. chain[r] \in Seq(Updates)
      BY <1>0 DEF CoreType, JobsType
    <3>2. Len(chain[r]) \in Nat /\ Len(chain[r]) # 0 /\ DOMAIN chain[r] = 1 .. Len(chain[r])
      BY <2>2, <3>1
    <3>3. 2 \notin DOMAIN chain[r]
      BY <2>4
    <3>4. \A n \in Nat : n # 0 /\ 2 \notin 1 .. n => n = 1
      OBVIOUS
    <3> QED BY <3>2, <3>3, <3>4
  <2>6. run'[r].status = "running"
    BY <1>0, <1>1 DEF ApplyFinishedSends, Ended, CoreType, RowsType, RunRows
  <2>7. \A f \in Followups : call'[<<"resend", f>>] = call[<<"resend", f>>]
    BY <1>0, <1>1 DEF ApplyFinishedSends, CoreType, SessionsType, CallStates, Calls
  <2> QED BY <1>1, <2>1, <2>3, <2>5, <2>6, <2>7 DEF ApplyFinishedSends, Queue
<1> SUFFICES ASSUME NEW r \in Runs, finishing'[r] # {}
             PROVE  /\ run'[r].status \in {"running", "stopping"} /\ Len(chain'[r]) = 1
                    /\ \A f \in finishing'[r] :
                         /\ fup'[f].mode = "queue" /\ call'[<<"resend", f>>] = "none"
                         /\ \A s \in Runs \ {r} : f \notin finishing'[s]
  BY DEF Sends
<1>2. CASE ApplyFinishedSends(r)
  <2>1. finishing'[r] = PendingQueue(run[r].task) /\ \A s \in Runs \ {r} : finishing'[s] = finishing[s]
    BY <1>0, <1>1, <1>2 DEF CoreType, JobsType
  <2> QED BY <1>1, <1>2, <2>1
<1>3. CASE finishing'[r] \subseteq finishing[r] /\ ~ApplyFinishedSends(r)
  <2>1. finishing[r] # {}
    BY <1>3
  <2>2. run'[r].status \in {"running", "stopping"} /\ chain'[r] = chain[r]
    <3>1. ASSUME NEW a \in AnswerKinds, NEW f \in Followups, QueueAnswer(r, f, a)
          PROVE  run' = run /\ chain' = chain
      BY <1>0, <3>1 DEF QueueAnswer, AnsweredRun, CoreType, JobsType
    <3>2. run[r].status \in {"running", "stopping"}
      BY <2>1 DEF Sends
    <3> QED BY <2>1, <3>1, <3>2, QueueMoves
  <2>3. Len(chain'[r]) = 1
    BY <2>1, <2>2 DEF Sends
  <2>4. ASSUME NEW f \in finishing'[r]
        PROVE  /\ fup'[f].mode = "queue" /\ call'[<<"resend", f>>] = "none"
               /\ \A s \in Runs \ {r} : f \notin finishing'[s]
    <3>1. /\ f \in Followups /\ f \in finishing[r] /\ fup[f].mode = "queue" /\ call[<<"resend", f>>] = "none"
          /\ \A s \in Runs \ {r} : f \notin finishing[s]
      BY <1>0, <1>3, <2>4 DEF Sends, CoreType, JobsType
    <3>2. fup[f].status # "none" /\ steer[f] \notin {"launch", "delivery", "typing"}
          /\ call[<<"steer", f>>] = "none"
      BY <1>0, <3>1 DEF Rows, RowsLinked, SteerModes, SteerCalls
    <3>3. ~SteerSend(f) /\ \A a \in AnswerKinds : ~SteerAnswer(f, a)
      BY <3>2 DEF SteerSend, SteerAnswer
    <3>4. fup'[f].mode = "queue"
      BY <1>0, <3>1, <3>2, <3>3, ModeStays DEF KeepsMode
    <3>5. call'[<<"resend", f>>] = "none"
      BY <1>0, <3>1, ResendStarts
    <3>6. ASSUME NEW s \in Runs \ {r} PROVE f \notin finishing'[s]
      <4>1. CASE ApplyFinishedSends(s)
        <5>1. finishing'[s] = PendingQueue(run[s].task)
          BY <1>0, <1>1, <4>1 DEF CoreType, JobsType
        <5> QED BY <1>1, <3>1, <4>1, <5>1
      <4> QED BY <1>0, <3>1, <4>1, FinishingChange
    <3> QED BY <3>4, <3>5, <3>6
  <2> QED BY <2>2, <2>3, <2>4
<1> QED BY <1>0, <1>2, <1>3, FinishingChange

-----------------------------------------------------------------------------
(* What is known of a message that reached its session *)

\* A steer that is converted has not reached its session, or is looked for there.
LEMMA ConvertedIsLooked ==
  ASSUME Rows, SteerCalls, SteerModes, NewMessages, NEW f \in Followups,
         SteerSend(f) \/ \E a \in AnswerKinds : SteerAnswer(f, a)
  PROVE  fup'[f].mode = "steer" \/ Looked(f)'
<1> USE DEF CoreType, RowsType, FollowupRows, SessionsType
<1>1. CoreType
  BY DEF Rows
<1>2. CASE SteerSend(f)
  <2>1. steer[f] = "delivery" /\ UNCHANGED hits
    BY <1>2 DEF SteerSend
  <2> QED BY <2>1 DEF NewMessages, Looked
<1>3. ASSUME NEW a \in AnswerKinds, SteerAnswer(f, a) PROVE fup'[f].mode = "steer" \/ Looked(f)'
  <2>1. call[<<"steer", f>>] # "none" /\ a \in Answers(<<"steer", f>>) /\ UNCHANGED hits
    BY <1>3 DEF SteerAnswer
  <2>2. fup[f].mode = "steer"
    BY <2>1 DEF SteerCalls, SteerModes
  <2>3. a = "waiting" => hits[f] = 0
    BY <2>1 DEF Answers, NewMessages
  <2>4. CASE fup[f].status = "pending" /\ ~Delivered(a) /\ a # "waiting"
    <3>1. \E R, T, K : ConvertSteer(f, "NOT_DELIVERED", R, T, K)
      BY <1>3, <2>4 DEF SteerAnswer
    <3>2. fup'[f].code = "NOT_DELIVERED"
      BY <1>1, <3>1 DEF ConvertSteer, Queued
    <3> QED BY <3>2 DEF Looked
  <2>5. CASE ~(fup[f].status = "pending" /\ ~Delivered(a))
    <3>1. fup' = Settle(fup, f, "sent") \/ fup' = fup
      BY <1>3, <2>5 DEF SteerAnswer
    <3> QED BY <1>1, <2>2, <3>1 DEF Settle
  <2>6. CASE a = "waiting"
    BY <2>1, <2>3, <2>6 DEF Looked
  <2> QED BY <2>4, <2>5, <2>6
<1> QED BY <1>2, <1>3

\* A run that a segment creates continues a finished run that is the latest of its card.
LEMMA SegmentCreates ==
  ASSUME CoreType, Next, ~Restart, SegmentReady, NEW r \in Runs, run[r].status = "none", run'[r].status # "none"
  PROVE  \E f \in Followups : run'[r].task = fup[f].task /\ CanContinueWith(fup[f].task, fup[f].run)
<1> USE DEF CoreType, RowsType, RunRows
<1>1. ~Active(r)
  BY DEF Active, ActiveStatus
<1>2. ASSUME NEW s \in Runs, RunSegment(s) PROVE run'[r] = run[r]
  <2>1. CASE ApplyToEnded(s) \/ RecoverNext(s)
    BY <2>1 DEF ApplyToEnded, RecoverNext, db
  <2>2. CASE ApplyFinished(s)
    BY <1>1, <2>2 DEF ApplyFinished, FinishRun, Ended
  <2>3. CASE ApplyFinishedSends(s) \/ ApplyStopped(s) \/ ApplyFailure(s)
    BY <1>1, <2>3 DEF ApplyFinishedSends, ApplyStopped, ApplyFailure, Ended
  <2> QED BY <1>2, <2>1, <2>2, <2>3 DEF RunSegment
<1>3. ASSUME NEW q \in Requests, RequestSegment(q) PROVE run'[r] = run[r]
  BY <1>1, <1>3 DEF RequestSegment, StopSignals, StopSettles, Over, StopReturns, ApplyRequest, Ended
<1>4. ASSUME NEW f \in Followups, SteerAfterLaunch(f) PROVE run' = run
  BY <1>4 DEF SteerAfterLaunch, db
<1>5. ASSUME NEW f \in Followups, SteerSend(f)
      PROVE  run' = run \/ (run'[r].task = fup[f].task /\ CanContinueWith(fup[f].task, fup[f].run))
  <2>1. CASE UNCHANGED db
    BY <2>1 DEF db
  <2>2. CASE \E code : ConvertSteer(f, code, run, turn, call)
    <3>1. CASE run' = run
      BY <3>1
    <3>2. ASSUME NEW n \in Runs, run' = NewRun(n, fup[f].task, run[fup[f].run].session),
                 CanContinueWith(fup[f].task, fup[f].run)
          PROVE  run'[r].task = fup[f].task
      BY <3>2 DEF NewRun
    <3> QED BY <2>2, <3>1, <3>2 DEF ConvertSteer
  <2> QED BY <1>5, <2>1, <2>2 DEF SteerSend
<1>6. SegmentStep
  BY SegmentOrEvent
<1> QED BY <1>2, <1>3, <1>4, <1>5, <1>6 DEF SegmentStep

\* The answer to a message that was typed, or called off, settles it, unless the run is
\* being stopped.
LEMMA CarriesStep ==
  ASSUME Up, SteerCalls, Openings, Sends, Next, ~Restart, NEW f \in Followups, Carries(f), Queue(f), Queue(f)'
  PROVE  Carries(f)' \/ Halting(fup[f].task)'
<1> DEFINE Typing == {"reached", "aborted"}
<1>0. CoreType /\ Rows /\ Claude /\ Sending /\ BlankRuns /\ StopsFirst
  BY DEF Up, Rows, CallsInv
<1>1. ASSUME NEW r \in Runs, finishing[r] # {}, f = First(finishing[r]), call[<<"queue", r>>] \in Typing
      PROVE  Carries(f)' \/ Halting(fup[f].task)'
  <2> DEFINE c == <<"queue", r>>
  <2>1. c \in Calls
    BY DEF Calls
  <2>2. ASSUME NEW a \in AnswerKinds, NEW g \in Followups, QueueAnswer(r, g, a)
        PROVE  Halting(fup[f].task)'
    <3>1. g = f
      BY <1>0, <1>1, <2>2, FirstIsCarried DEF QueueAnswer
    <3>2. a \in {"delivered", "undelivered"} /\ a # "already"
      BY <1>1, <2>2 DEF QueueAnswer, Answers, AnswerKinds
    <3>3. ~QueueLive(r, f)
      <4>1. CASE QueueLive(r, f)
        <5>1. fup' = [fup EXCEPT ![f].status = "sent", ![f].run = r]
              \/ fup' = [fup EXCEPT ![f].status = "failed", ![f].run = r]
          BY <2>2, <3>1, <3>2, <4>1 DEF QueueAnswer, Delivered
        <5>2. fup'[f].status # "pending"
          BY <1>0, <5>1 DEF CoreType, RowsType, FollowupRows
        <5> QED BY <5>2 DEF Queue
      <4> QED BY <4>1
    <3>4. run[r].status = "stopping" /\ Len(chain[r]) = 1 /\ chain[r] \in Seq(Updates)
      BY <1>0, <1>1, <3>3 DEF QueueLive, Queue, Sends, CoreType, JobsType
    <3>5. chain'[r] = <<>>
      <4>1. chain' = [chain EXCEPT ![r] = Tail(@)]
        BY <2>2, <3>1, <3>3 DEF QueueAnswer, Applied
      <4> QED BY <1>0, <3>4, <4>1 DEF CoreType, JobsType
    <3>6. run'[r] = run[r]
      <4>1. run' = AnsweredRun(run, c, a)
        BY <2>2, <3>1, <3>3 DEF QueueAnswer
      <4>2. CallRun(c) = r
        BY DEF CallRun
      <4> QED BY <3>4, <4>1, <4>2 DEF AnsweredRun, Running
    <3>7. run[r].task = fup[f].task
      <4>1. f \in finishing[r]
        BY <1>0, <1>1, FirstOf DEF CoreType, JobsType, IsFirst
      <4> QED BY <1>0, <4>1 DEF Rows, RowsLinked, UsedBy
    <3>8. r \in OfTask(fup[f].task)' /\ fup'[f].task = fup[f].task
      BY <1>0, <2>2, <3>3, <3>6, <3>7, <3>1 DEF OfTask, QueueAnswer
    <3> QED BY <3>4, <3>5, <3>6, <3>8 DEF Halting
  <2>3. CASE \A a \in AnswerKinds, g \in Followups : ~QueueAnswer(r, g, a)
    <3>1. finishing'[r] = finishing[r]
      BY <1>1, <2>3, QueueMoves
    <3>2. ~CallAnswer(c)
      BY <2>3 DEF CallAnswer
    <3>3. call'[c] = call[c]
      BY <1>0, <1>1, <2>1, <3>2, CallKept
    <3> QED BY <1>1, <3>1, <3>3 DEF Carries
  <2> QED BY <2>2, <2>3
<1>2. CASE call[<<"resend", f>>] \in Typing
  <2> DEFINE c == <<"resend", f>>
  <2>1. c \in Calls
    BY DEF Calls
  <2>2. ASSUME NEW a, ResendAnswer(f, a), a # "waiting" PROVE FALSE
    <3>1. a # "already"
      BY <1>2, <2>2 DEF ResendAnswer, Answers
    <3>2. \A s \in {"sent", "canceled", "failed"} : fup' = Settle(fup, f, s) => fup'[f].status # "pending"
      BY <1>0 DEF Settle, CoreType, RowsType, FollowupRows
    <3>3. \A r : FailLaunch(Settle(fup, f, "failed"), r) => fup'[f].status # "pending"
      BY <1>0 DEF FailLaunch, Cancel, Settle, CoreType, RowsType, FollowupRows
    <3> QED BY <2>2, <3>1, <3>2, <3>3 DEF ResendAnswer, Queue
  <2>3. ASSUME CallAnswer(c) PROVE FALSE
    <3>1. PICK a \in AnswerKinds : ResendAnswer(f, a)
      BY <2>3 DEF CallAnswer
    <3>2. a # "waiting"
      BY <1>2, <3>1 DEF ResendAnswer, Answers
    <3> QED BY <2>2, <3>1, <3>2
  <2>4. call'[c] = call[c]
    BY <1>0, <1>2, <2>1, <2>3, CallKept
  <2> QED BY <1>2, <2>4 DEF Carries
<1> QED BY <1>1, <1>2 DEF Carries

\* A stop that is always confirmed goes on until it has canceled the queue of its card.
LEMMA HaltingStep ==
  ASSUME Up, ActiveIsLatest, StopsConfirmed, Next, ~Restart, NEW t \in Tasks, Halting(t)
  PROVE  Halting(t)' \/ \A f \in Followups : Queue(f)' => fup'[f].task # t
<1>0. CoreType /\ Rows /\ Claude /\ RunsHaveTasks
  BY DEF Up, Rows
<1>1. \A r \in Runs : run[r].status # "none" => run'[r].status # "none" /\ run'[r].task = run[r].task
  BY <1>0, UsedRunsStay
<1>2. ASSUME NEW r \in OfTask(t), run[r].status = "stopping", chain[r] = <<>> PROVE Halting(t)'
  <2>1. r \in Runs /\ run[r].task = t /\ Active(r) /\ r \in OfTask(t)'
    BY <1>1, <1>2 DEF OfTask, Active, ActiveStatus
  <2>2. PICK q \in Requests : req[q].run = r /\ req[q].pc \in {"stopping", "delivery"}
    BY <1>2, <2>1 DEF Up, StopHasRequest
  <2>3. ASSUME ~SegmentReady, NEW s, TurnEnds(r, s) PROVE FALSE
    <3>1. req[q].pc = "delivery"
      BY <1>0, <2>1, <2>2, <2>3, PolledAlone DEF Up, CallsInv
    <3> QED BY <1>0, <2>3, <3>1, StopReady DEF Up, CallsInv
  <2>4. chain'[r] = <<>>
    <3>1. recovery.todo = {}
      BY DEF Up, NotRecovering
    <3> QED BY <1>0, <1>2, <2>1, <2>3, <3>1, ChainChange DEF UpdatesMove, IsFirst, Rows
  <2>5. CASE run'[r].status = "stopping"
    BY <2>1, <2>4, <2>5 DEF Halting
  <2>6. CASE run'[r].status # "stopping"
    <3>1. RunMoves(r)
      BY <1>0, <2>1, RunsMove
    <3>2. ~AnswerMoves(r)
      <4>1. r \notin launch /\ r \notin recovery.todo
        BY <1>2 DEF Up, CallsInv, LaunchesAlone, NotRecovering
      <4> QED BY <1>2, <4>1 DEF AnswerMoves
    <3>3. SegmentMoves(r)
      BY <1>2, <2>6, <3>1, <3>2 DEF RunMoves, IsNew
    <3>4. PICK p \in Requests : req[p].run = r /\ StopSettles(p) /\ Confirmed(p)
      <4>1. \A p \in Requests : StopSettles(p) => Confirmed(p)
        BY DEF StopSettles, StopsConfirmed, Confirmed
      <4> QED BY <1>2, <2>6, <3>3, <4>1
              DEF SegmentMoves, ApplyFinished, ApplyFinishedSends, ApplyStopped, ApplyFailure
    <3>5. run' = Ended(r, "stopped") /\ At(p, "stopped") /\ req[p].pc = "delivery"
      BY <2>1, <3>4 DEF StopSettles, Over
    <3>6. req'[p].pc = "stopped" /\ req'[p].run = r /\ req'[p].task = t
      <4>1. req[p].task = t
        BY <1>0, <2>1, <3>4, <3>5 DEF Rows, RowsLinked, UsedBy
      <4> QED BY <1>0, <3>4, <3>5, <4>1 DEF At, CoreType, RequestsType, Handlers
    <3>7. run'[r].status = "stopped" /\ \A s \in Runs : run'[s].task = run[s].task /\ (s # r => run'[s] = run[s])
      BY <1>0, <2>1, <3>5 DEF Ended, CoreType, RowsType, RunRows
    <3>8. NoActiveRun(t)'
      <4>1. \A s \in Runs : run[s].task = t /\ Active(s) => s = r
        BY <2>1 DEF Up, OneActiveRun
      <4> QED BY <3>7, <4>1 DEF NoActiveRun, OfTask, Active, ActiveStatus
    <3>9. IsLatest(r, t)'
      BY <2>1, <3>7 DEF ActiveIsLatest, IsLatest, OfTask
    <3> QED BY <2>1, <3>6, <3>7, <3>8, <3>9 DEF Halting
  <2> QED BY <2>5, <2>6
<1>3. ASSUME NEW q \in Requests, req[q].pc = "stopped", req[q].task = t, NoActiveRun(t),
             NEW r \in Runs, req[q].run = r, run[r].status = "stopped", IsLatest(r, t)
      PROVE  Halting(t)' \/ \A f \in Followups : Queue(f)' => fup'[f].task # t
  <2>1. SegmentReady
    BY <1>3 DEF SegmentReady
  <2>2. CASE StopReturns(q)
    <3>1. fup' = Cancel(fup, t, {"queue", "steer"})
      BY <1>3, <2>2 DEF StopReturns
    <3> QED BY <1>0, <3>1 DEF Cancel, Queue, CoreType, RowsType, FollowupRows
  <2>3. CASE ~StopReturns(q)
    <3>1. req'[q] = req[q]
      BY <1>0, <1>3, <2>1, <2>3, RequestsChange DEF RequestMoves, StopSignals, StopSettles, ApplyRequest
    <3>2. ASSUME NEW n \in Runs, run[n].status = "none", run'[n].status # "none" PROVE run'[n].task # t
      <4>1. PICK f \in Followups : run'[n].task = fup[f].task /\ CanContinueWith(fup[f].task, fup[f].run)
        BY <1>0, <2>1, <3>2, SegmentCreates
      <4>2. CASE fup[f].task = t
        <5>1. IsLatest(fup[f].run, t) /\ run[fup[f].run].status = "finished"
          BY <4>1, <4>2 DEF CanContinueWith
        <5>2. fup[f].run = r
          BY <1>3, <5>1, BoundsAssumption DEF IsLatest, OfTask, Runs
        <5> QED BY <1>3, <5>1, <5>2
      <4> QED BY <4>1, <4>2
    <3>3. \A s \in Runs : run'[s].task = t => run[s].task = t
      <4> TAKE s \in Runs
      <4>1. CASE run[s].status # "none"
        BY <1>1, <4>1
      <4>2. CASE run[s].status = "none" /\ run'[s].status # "none"
        BY <3>2, <4>2
      <4>3. CASE run[s].status = "none" /\ run'[s].status = "none"
        <5>1. RunsHaveTasks'
          BY <1>0, TasksStep
        <5> QED BY <4>3, <5>1, TasksAssumption DEF RunsHaveTasks
      <4> QED BY <4>1, <4>2, <4>3
    <3>4. ASSUME NEW s \in Runs, run[s].task = t PROVE run'[s].status = run[s].status
      <4>1. run[s].status # "none"
        BY <1>0, <3>4, TasksAssumption DEF RunsHaveTasks
      <4>2. ~Active(s)
        BY <1>3, <3>4 DEF NoActiveRun, OfTask
      <4>3. recovery.stopping = {}
        BY DEF Up, NotRecovering
      <4> QED BY <1>0, <4>1, <4>2, <4>3, RunsChange DEF RunChange, KeepsEnded, CreatesRun, ResumesRun
    <3>5. r \in OfTask(t) /\ run'[r].status = "stopped" /\ run'[r].task = t
      BY <1>1, <1>3, <3>4 DEF IsLatest, OfTask
    <3>6. NoActiveRun(t)'
      BY <1>3, <3>3, <3>4 DEF NoActiveRun, OfTask, Active
    <3>7. IsLatest(r, t)'
      BY <1>3, <3>3, <3>5 DEF IsLatest, OfTask
    <3> QED BY <1>3, <3>1, <3>5, <3>6, <3>7 DEF Halting
  <2> QED BY <2>2, <2>3
<1> QED BY <1>2, <1>3 DEF Halting

\* A message that reached its session stays known until that is recorded.
LEMMA ReachedIsKnownStep ==
  ASSUME Up, SteerCalls, SteerModes, NewMessages, Openings, Sends, ActiveIsLatest, StopsConfirmed,
         ReachedIsKnown, Next, ~Restart
  PROVE  ReachedIsKnown'
<1>0. CoreType /\ Rows /\ Claude /\ Sending /\ RowsLinked /\ RunsHaveTasks
  BY DEF Up, Rows
<1> SUFFICES ASSUME NEW f \in Followups, Queue(f)', ~Looked(f)'
             PROVE  Carries(f)' \/ Halting(fup[f].task)'
  BY DEF ReachedIsKnown
<1>1. CASE fup[f].status = "none" /\ UNCHANGED hits
  BY <1>1 DEF NewMessages, Looked
<1>2. CASE SteerSend(f) \/ \E a \in AnswerKinds : SteerAnswer(f, a)
  BY <1>0, <1>2, ConvertedIsLooked DEF Queue
<1>3. CASE KeepsMode(f)
  <2>1. fup'[f] = fup[f] /\ Queue(f)
    BY <1>3 DEF KeepsMode, Queue
  <2>2. fup[f].task \in Tasks
    BY <1>0, <2>1 DEF RowsLinked, UsedBy, Queue, RunsHaveTasks
  <2>3. CASE ~Looked(f) /\ Carries(f)
    BY <2>1, <2>3, CarriesStep
  <2>4. CASE ~Looked(f) /\ Halting(fup[f].task)
    <3>1. PICK t \in Tasks : t = fup[f].task
      BY <2>2
    <3>2. Halting(t)' \/ \A g \in Followups : Queue(g)' => fup'[g].task # t
      BY <2>4, <3>1, HaltingStep
    <3>3. fup'[f].task = t
      BY <2>1, <3>1
    <3> QED BY <3>2, <3>3 DEF Halting
  <2>5. CASE Looked(f)
    <3>1. hits'[f] # hits[f]
      BY <2>1, <2>5 DEF Looked
    <3>2. PICK c \in Calls : /\ CallFollowup(c) = f /\ call[c] = "open" /\ call' = [call EXCEPT ![c] = "reached"]
                             /\ UNCHANGED finishing
      BY <1>0, <3>1, HitsOf
    <3>3. call'[c] = "reached"
      BY <1>0, <3>2 DEF CoreType, SessionsType, CallStates
    <3>4. \/ \E r \in Runs : c = <<"queue", r>> /\ finishing[r] # {} /\ f = First(finishing[r])
          \/ c = <<"steer", f>> \/ c = <<"resend", f>>
      <4>1. f # 0
        BY BoundsAssumption DEF Followups
      <4> QED BY <1>0, <3>2, <4>1, CarriedBy
    <3>5. c # <<"steer", f>>
      BY <2>1, <3>2 DEF SteerCalls, SteerModes, Queue
    <3> QED BY <3>2, <3>3, <3>4, <3>5 DEF Carries
  <2> QED BY <2>1, <2>3, <2>4, <2>5 DEF ReachedIsKnown
<1> QED BY <1>0, <1>1, <1>2, <1>3, ModeStays

\* A run that is going on and not being stopped is not halted.
LEMMA GoesOn ==
  ASSUME Up, NEW r \in Runs, Active(r), run[r].status # "stopping" PROVE ~Halting(run[r].task)
BY DEF Halting, Up, OneActiveRun, NoActiveRun, OfTask, Active, ActiveStatus

\* What a finished update begins to send has not reached its session, or is looked for.
LEMMA QueueIsLooked ==
  ASSUME Up, Openings, Sends, ReachedIsKnown, NEW r \in Runs, ApplyFinishedSends(r),
         NEW f \in PendingQueue(run[r].task)
  PROVE  Looked(f)
<1>1. f \in Followups /\ Queue(f) /\ fup[f].task = run[r].task
  BY DEF PendingQueue, Queue
<1>2. Active(r) /\ run[r].status # "stopping" /\ finishing[r] = {} /\ chain[r] # <<>>
  BY DEF ApplyFinishedSends
<1>3. call[<<"resend", f>>] = "none" /\ \A s \in Runs : f \notin finishing[s]
  BY <1>1, <1>2, SendsApart
<1>4. ~Carries(f)
  <2>1. ASSUME NEW s \in Runs, finishing[s] # {}, f = First(finishing[s]) PROVE FALSE
    <3>1. f \in finishing[s]
      BY <2>1, FirstOf DEF IsFirst, Up, Rows, CoreType, JobsType
    <3> QED BY <1>3, <3>1
  <2> QED BY <1>3, <2>1 DEF Carries
<1>5. ~Halting(fup[f].task)
  BY <1>1, <1>2, GoesOn
<1> QED BY <1>1, <1>4, <1>5 DEF ReachedIsKnown

\* The message a finished update sends next has not reached its session, or is looked for.
LEMMA RestIsLooked ==
  ASSUME Up, Sends, ReachedIsKnown, NEW r \in Runs, NEW g \in Followups, IsFirst(g, finishing[r]),
         run[r].status = "running", NEW f \in finishing[r] \ {g}, fup[f].status = "pending"
  PROVE  Looked(f)
<1>1. /\ f \in Followups /\ fup[f].mode = "queue" /\ call[<<"resend", f>>] = "none"
      /\ \A s \in Runs \ {r} : f \notin finishing[s]
  BY DEF Sends, Up, Rows, CoreType, JobsType
<1>2. Queue(f) /\ fup[f].task = run[r].task
  BY <1>1 DEF Queue, Up, Rows, RowsLinked, UsedBy
<1>3. First(finishing[r]) = g
  BY FirstIsCarried DEF Up, Rows
<1>4. ~Carries(f)
  <2>1. ASSUME NEW s \in Runs, finishing[s] # {}, f = First(finishing[s]) PROVE FALSE
    <3>1. f \in finishing[s]
      BY <2>1, FirstOf DEF IsFirst, Up, Rows, CoreType, JobsType
    <3> QED BY <1>1, <1>3, <2>1, <3>1
  <2> QED BY <1>1, <2>1 DEF Carries
<1>5. ~Halting(fup[f].task)
  BY <1>2, GoesOn DEF Active, ActiveStatus
<1> QED BY <1>1, <1>2, <1>4, <1>5 DEF ReachedIsKnown

\* A call that stays open carries what is looked for, if it was.
LEMMA OpenStaysLooked ==
  ASSUME Rows, SteerCalls, SteerModes, Sends, Claude, Next, ~Restart, NEW f \in Followups, NEW c \in Calls,
         call[c] = "open", call'[c] = "open", CallFollowup(c) = f, c[1] # "steer", Looked(f)
  PROVE  Looked(f)'
<1>1. CoreType /\ call \in CallStates
  BY DEF Rows, CoreType, SessionsType
<1>2. /\ fup[f].status # "none" /\ steer[f] \notin {"launch", "delivery"}
      /\ steer[f] = "typing" => c = <<"steer", f>>
      /\ \A d \in Calls : call[d] # "none" /\ CallFollowup(d) = f => d = c
  BY CarriedOnce
<1>3. hits'[f] = hits[f]
  <2>1. ASSUME NEW d \in Calls, CallFollowup(d) = f, call[d] = "open", call' = [call EXCEPT ![d] = "reached"]
        PROVE  FALSE
    <3>1. d = c
      BY <1>2, <2>1
    <3> QED BY <1>1, <2>1, <3>1 DEF CallStates
  <2> QED BY <2>1, HitsOf
<1>4. ~SteerSend(f) /\ \A a \in AnswerKinds : ~SteerAnswer(f, a)
  <2>1. steer[f] # "typing"
    BY <1>2
  <2> QED BY <1>2, <2>1 DEF SteerSend, SteerAnswer, SteerCalls
<1>5. fup'[f].code = fup[f].code
  BY <1>1, <1>2, <1>4, ModeStays DEF KeepsMode
<1> QED BY <1>3, <1>5 DEF Looked

\* What is about to be typed has not reached its session, or is looked for first.
LEMMA TypesOnceStep ==
  ASSUME Up, SteerCalls, SteerModes, NewMessages, NewMessages', Openings, Sends, Sending', ReachedIsKnown,
         TypesOnce, Next, ~Restart
  PROVE  TypesOnce'
<1>0. CoreType /\ Rows /\ Claude /\ Sending /\ BlankRuns /\ SendingHasCall /\ StopsFirst
  BY DEF Up, Rows, CallsInv
<1>1. ASSUME NEW f \in Followups, call'[<<"steer", f>>] = "open" PROVE Looked(f)'
  BY <1>1 DEF NewMessages, Looked
<1>2. ASSUME NEW f \in Followups, call'[<<"resend", f>>] = "open" PROVE Looked(f)'
  <2> DEFINE c == <<"resend", f>>
  <2>1. c \in Calls /\ CallFollowup(c) = f /\ f # 0
    BY BoundsAssumption DEF Calls, CallFollowup, Followups
  <2>2. CASE call[c] = "none"
    <3>1. fup[f].mode = "steer"
      BY <1>0, <1>2, <2>2, ResendStarts
    <3>2. fup'[f].mode = "queue" /\ fup[f].status = "pending"
      BY <1>0, <1>2, <2>2, ResendsAreNew
    <3>3. SteerSend(f) \/ \E a \in AnswerKinds : SteerAnswer(f, a)
      BY <1>0, <3>1, <3>2, ModeStays DEF KeepsMode
    <3> QED BY <1>0, <3>2, <3>3, ConvertedIsLooked
  <2>3. CASE call[c] # "none"
    <3>1. CallAnswer(c) => call'[c] = "none"
      BY <1>0, <2>1, AnswerEnds
    <3>2. call[c] = "open"
      BY <1>0, <1>2, <2>1, <2>3, <3>1, CallKept
    <3>3. Looked(f)
      BY <2>1, <3>2 DEF TypesOnce
    <3> QED BY <1>0, <1>2, <2>1, <3>2, <3>3, OpenStaysLooked
  <2> QED BY <2>2, <2>3
<1>3. ASSUME NEW r \in Runs, call'[<<"queue", r>>] = "open", NEW f, f = First(finishing'[r])
      PROVE  Looked(f)'
  <2> DEFINE c == <<"queue", r>>
  <2>1. c \in Calls /\ CallFollowup(c) = First(finishing[r])
    BY DEF Calls, CallFollowup
  <2>2. finishing'[r] # {}
    BY <1>3 DEF Sending
  <2>3. CASE ApplyFinishedSends(r)
    <3>1. finishing'[r] = PendingQueue(run[r].task) /\ UNCHANGED <<fup, hits>>
      BY <1>0, <2>3 DEF ApplyFinishedSends, CoreType, JobsType
    <3>2. PendingQueue(run[r].task) \in SUBSET Followups
      BY DEF PendingQueue
    <3>3. f \in PendingQueue(run[r].task)
      BY <1>3, <2>2, <3>1, <3>2, FirstOf DEF IsFirst
    <3>4. Looked(f)
      BY <2>3, <3>3, QueueIsLooked
    <3> QED BY <3>1, <3>4 DEF Looked
  <2>4. CASE finishing'[r] \subseteq finishing[r]
    <3>1. finishing[r] # {} /\ finishing[r] \in SUBSET Followups /\ finishing'[r] \in SUBSET Followups
      BY <1>0, <2>2, <2>4 DEF CoreType, JobsType
    <3>2. f \in finishing'[r] /\ f \in Followups
      BY <1>3, <2>2, <3>1, FirstOf DEF IsFirst
    <3>3. ASSUME NEW a \in AnswerKinds, NEW g \in Followups, QueueAnswer(r, g, a) PROVE Looked(f)'
      <4>1. /\ QueueLive(r, g) /\ a = "already" /\ IsFirst(g, finishing[r])
            /\ finishing'[r] = {h \in finishing[r] \ {g} : fup[h].status = "pending"}
            /\ UNCHANGED hits
        BY <1>0, <2>2, <3>3 DEF QueueAnswer, CoreType, JobsType
      <4>2. f \in finishing[r] \ {g} /\ fup[f].status = "pending" /\ run[r].status = "running"
        BY <3>2, <4>1 DEF QueueLive
      <4>3. Looked(f)
        BY <4>1, <4>2, RestIsLooked
      <4>4. fup' = [fup EXCEPT ![g].status = "sent", ![g].run = r]
        BY <3>3, <4>1 DEF QueueAnswer, Delivered
      <4>5. fup'[f] = fup[f]
        BY <1>0, <4>2, <4>4, <3>2 DEF CoreType, RowsType, FollowupRows
      <4> QED BY <4>1, <4>3, <4>5 DEF Looked
    <3>4. CASE \A a \in AnswerKinds, g \in Followups : ~QueueAnswer(r, g, a)
      <4>1. finishing'[r] = finishing[r]
        BY <3>1, <3>4, QueueMoves
      <4>2. call[c] # "none" /\ ~CallAnswer(c)
        BY <1>0, <3>1, <3>4 DEF SendingHasCall, CallAnswer
      <4>3. call[c] = "open"
        BY <1>0, <1>3, <2>1, <4>2, CallKept
      <4>4. CallFollowup(c) = f /\ f # 0
        BY <1>3, <2>1, <3>2, <4>1, BoundsAssumption DEF Followups
      <4>5. Looked(f)
        BY <2>1, <4>3, <4>4 DEF TypesOnce
      <4> QED BY <1>0, <1>3, <2>1, <3>2, <4>3, <4>4, <4>5, OpenStaysLooked
    <3> QED BY <3>3, <3>4
  <2> QED BY <1>0, <2>3, <2>4, FinishingChange
<1> SUFFICES ASSUME NEW c \in Calls, call'[c] = "open", NEW f, f = CallFollowup(c)', f # 0
             PROVE  Looked(f)'
  BY DEF TypesOnce, Looked
<1>4. CASE c \in {"continue", "queue"} \X Runs
  <2>1. PICK r \in Runs : c = <<"continue", r>> \/ c = <<"queue", r>>
    BY <1>4
  <2>2. c = <<"queue", r>> /\ f = First(finishing'[r])
    BY <2>1 DEF CallFollowup
  <2> QED BY <1>3, <2>2
<1>5. CASE c \in {"steer", "resend"} \X Followups
  <2>1. PICK g \in Followups : c = <<"steer", g>> \/ c = <<"resend", g>>
    BY <1>5
  <2>2. f = g
    BY <2>1 DEF CallFollowup
  <2> QED BY <1>1, <1>2, <2>1, <2>2
<1> QED BY <1>4, <1>5 DEF Calls

\* What is typed has not reached its session before.
LEMMA HitsStayOnce ==
  ASSUME Up, NewMessages, TypesOnce, Next, ~Restart, NEW f \in Followups, hits[f] < 2
  PROVE  hits'[f] < 2
<1>0. CoreType /\ Rows /\ Claude /\ Sending
  BY DEF Up, Rows
<1>1. ASSUME NEW c \in Calls, CallFollowup(c) = f, call[c] = "open", ~AlreadyInTranscript(c)
      PROVE  hits[f] = 0
  <2>1. f # 0 /\ hits[f] \in 0 .. 2
    BY <1>0, BoundsAssumption DEF Followups, CoreType, SessionsType
  <2>2. c = <<"steer", f>> \/ c[1] \in {"queue", "resend"}
    BY <1>0, <1>1, <2>1, CarriedBy
  <2>3. Looked(f)
    BY <1>1, <2>1 DEF TypesOnce
  <2>4. CASE c = <<"steer", f>>
    BY <1>1, <2>4 DEF NewMessages
  <2>5. CASE c[1] \in {"queue", "resend"}
    BY <1>0, <1>1, <2>1, <2>3, <2>5 DEF AlreadyInTranscript, Looked
  <2> QED BY <2>2, <2>4, <2>5
<1> QED BY <1>0, <1>1, HitsOf

-----------------------------------------------------------------------------
(* The invariant, and what it shows *)

\* The calls of Claude carry each message once; unless an interrupt may stay
\* unconfirmed, what reached a session stays known.
DeliveriesInv ==
  /\ SteerCalls /\ SteerModes /\ NewMessages /\ Openings /\ Sends /\ RunsInRow /\ ActiveIsLatest
  /\ ~setup.stopMayFail => ReachedIsKnown /\ TypesOnce /\ \A f \in Followups : hits[f] < 2
OnceInv == ClaudeInv /\ (Calm => DeliveriesInv)

\* The board starts with no message under way.
LEMMA OnceInvInit == Init => OnceInv
<1> SUFFICES ASSUME Init PROVE DeliveriesInv
  BY ClaudeInvInit DEF OnceInv
<1>1. SteerCalls /\ SteerModes /\ NewMessages /\ Openings /\ Sends
  BY DEF Init, NoCalls, SteerCalls, SteerModes, NewMessages, Openings, Opening, Sends, Calls
<1>2. RunsInRow /\ ActiveIsLatest /\ ReachedIsKnown /\ TypesOnce
  BY DEF Init, NoCalls, RunsInRow, ActiveIsLatest, Active, ActiveStatus, ReachedIsKnown, Queue, TypesOnce,
     Calls
<1>3. \A f \in Followups : hits[f] < 2
  BY DEF Init
<1> QED BY <1>1, <1>2, <1>3 DEF DeliveriesInv

\* Every step keeps the invariant.
LEMMA OnceInvStep == OnceInv /\ ClaudeInv' /\ [Next]_vars => OnceInv'
<1> SUFFICES ASSUME OnceInv, ClaudeInv', [Next]_vars, Calm' PROVE DeliveriesInv'
  BY DEF OnceInv
<1>0. setup' = setup /\ Claude /\ NoStopFailsBeforeAnother
  BY SameSetup DEF Calm, Claude, NoStopFailsBeforeAnother
<1>1. CASE Next
  <2>1. CoreType
    BY TypeParts DEF OnceInv, ClaudeInv, RowsInv, IInv
  <2>2. Claude /\ ~Restart /\ restarts = 0 /\ UNCHANGED setup
    BY <1>0, <1>1, <2>1, CalmBefore DEF Calm
  <2>3. Up /\ Rows /\ DeliveriesInv
    BY <1>0, <2>1, <2>2 DEF Up, Rows, OnceInv, Calm, ClaudeInv, RowsInv, IInv, UpRows
  <2>4. Sending'
    BY DEF ClaudeInv, RowsInv, IInv
  <2>5. SteerCalls' /\ SteerModes' /\ NewMessages' /\ Openings' /\ Sends' /\ RunsInRow' /\ ActiveIsLatest'
    <3>1. SteerCalls' /\ SteerModes' /\ NewMessages'
      BY <1>1, <2>2, <2>3, SteerCallsStep, SteerModesStep, NewMessagesStep DEF DeliveriesInv
    <3>2. Openings' /\ Sends'
      BY <1>1, <2>2, <2>3, OpeningsStep, SendsStep DEF DeliveriesInv
    <3>3. RunsInRow' /\ ActiveIsLatest'
      BY <1>1, <2>2, <2>3, RunsInRowStep, ActiveIsLatestStep DEF DeliveriesInv, Up
    <3> QED BY <3>1, <3>2, <3>3
  <2>6. ASSUME ~setup.stopMayFail
        PROVE  ReachedIsKnown' /\ TypesOnce' /\ \A f \in Followups : hits'[f] < 2
    <3>1. StopsConfirmed
      BY <2>3, <2>6 DEF Up, CallsInv
    <3>2. ReachedIsKnown'
      BY <1>1, <2>2, <2>3, <2>6, <3>1, ReachedIsKnownStep DEF DeliveriesInv
    <3>3. TypesOnce'
      BY <1>1, <2>2, <2>3, <2>4, <2>5, <2>6, TypesOnceStep DEF DeliveriesInv
    <3>4. \A f \in Followups : hits'[f] < 2
      BY <1>1, <2>2, <2>3, <2>6, HitsStayOnce DEF DeliveriesInv
    <3> QED BY <3>2, <3>3, <3>4
  <2> QED BY <2>2, <2>5, <2>6 DEF DeliveriesInv
<1>2. CASE UNCHANGED vars
  <2>1. DeliveriesInv
    BY <1>0, <1>2 DEF OnceInv, Calm, vars
  <2>2. (SteerCalls /\ SteerModes /\ NewMessages /\ Openings /\ Sends)'
    BY <1>2, <2>1 DEF DeliveriesInv, SteerCalls, SteerModes, NewMessages, Openings, Opening, CallsOf, CallRun,
       Active, Sends, vars
  <2>3. (RunsInRow /\ ActiveIsLatest)'
    BY <1>2, <2>1 DEF DeliveriesInv, RunsInRow, ActiveIsLatest, Active, IsLatest, OfTask, vars
  <2>4. ASSUME ~setup.stopMayFail
        PROVE  (ReachedIsKnown /\ TypesOnce)' /\ \A f \in Followups : hits'[f] < 2
    <3>1. ReachedIsKnown'
      <4>1. \A f \in Followups : Carries(f)' <=> Carries(f)
        BY <1>2 DEF Carries, vars
      <4>2. \A t : Halting(t)' <=> Halting(t)
        BY <1>2 DEF Halting, NoActiveRun, IsLatest, OfTask, Active, vars
      <4>3. UNCHANGED <<fup, hits>>
        BY <1>2 DEF vars
      <4> QED BY <2>1, <2>4, <4>1, <4>2, <4>3 DEF DeliveriesInv, ReachedIsKnown, Queue, Looked
    <3>2. TypesOnce' /\ \A f \in Followups : hits'[f] < 2
      BY <1>2, <2>1, <2>4 DEF DeliveriesInv, TypesOnce, Looked, CallFollowup, vars
    <3> QED BY <3>1, <3>2
  <2> QED BY <1>2, <2>2, <2>3, <2>4 DEF DeliveriesInv, vars
<1> QED BY <1>1, <1>2

\* It holds in every state of every behaviour.
LEMMA OnceInvariant == Spec => []OnceInv
BY OnceInvInit, OnceInvStep, ClaudeInvariant, PTL DEF Spec

\* No message enters a session of Claude twice, for any number of runs, messages and
\* requests, until a restart or a stop that fails loses the answer to its delivery: a
\* message that reached its session without being confirmed is looked for in the
\* transcript before it is typed again (queueSendOptions, ALREADY_IN_TRANSCRIPT), and
\* one whose answer a stop made void is canceled by that stop.
THEOREM AtMostOnceHolds == Spec => []AtMostOnce
<1>1. OnceInv => AtMostOnce
  BY DEF OnceInv, Calm, NoStopFailsBeforeAnother, DeliveriesInv, AtMostOnce
<1> QED BY <1>1, OnceInvariant, PTL

-----------------------------------------------------------------------------
(***************************************************************************)
(* One request at a time: a card that waits in todo has no run, and a run  *)
(* that is going on has somebody who works on it.                          *)
(***************************************************************************)

-----------------------------------------------------------------------------
(* The run a request stops *)

\* A request that stops run r of card t knows how the run ends: r stays the latest run
\* of its card, and once it has no launch nothing but the request ends it.
Owns(pc, r, t) ==
  /\ pc \in {"launch", "stopping", "delivery", "stopped"} => IsLatest(r, t)
  /\ pc = "launch" =>
       /\ Active(r) \/ run[r].status = "failed"
       /\ r \in launch \/ chain[r] = <<>> \/ finishing[r] # {}
  /\ pc \in {"stopping", "delivery"} =>
       run[r].status = "stopping" /\ (chain[r] = <<>> \/ finishing[r] # {})
  /\ pc = "stopped" => run[r].status \in Gone
StopsOwn == \A q \in Requests : Owns(req[q].pc, req[q].run, req[q].task)

\* The latest run of a card stays so while it is active, and while a segment is ready
\* if it did not finish.
LEMMA LatestStays ==
  ASSUME Rows, NotRecovering, restarts = 0, Next, ~Restart, NEW r \in Runs, NEW t \in Tasks, IsLatest(r, t),
         Active(r) \/ (SegmentReady /\ run[r].status # "finished")
  PROVE  IsLatest(r, t)'
<1>0. CoreType /\ RunsHaveTasks
  BY DEF Rows
<1>1. r \in OfTask(t)'
  <2>1. run[r].task = t /\ run[r].status # "none"
    BY <1>0, TasksAssumption DEF IsLatest, OfTask, RunsHaveTasks
  <2> QED BY <1>0, <2>1, UsedRunsStay DEF OfTask
<1>2. ASSUME NEW s \in Runs, run'[s].task = t, ~(s <= r) PROVE FALSE
  <2>1. run[s].task # t
    BY <1>2 DEF IsLatest, OfTask
  <2>2. CreatesRun
    <3>1. recovery.stopping = {}
      BY DEF NotRecovering
    <3> QED BY <1>0, <1>2, <2>1, <3>1, RunsChange DEF RunChange, KeepsEnded, ResumesRun
  <2>3. PICK n \in Runs : /\ run[n].status = "none" /\ NoActiveRun(run'[n].task)
                          /\ run'[n].status = "starting" /\ \A x \in Runs \ {n} : run'[x] = run[x]
    BY <2>2 DEF CreatesRun
  <2>4. n = s
    BY <1>2, <2>1, <2>3
  <2>5. ~Active(r)
    BY <1>2, <2>3, <2>4 DEF NoActiveRun, IsLatest
  <2>6. PICK f \in Followups : run'[s].task = fup[f].task /\ CanContinueWith(fup[f].task, fup[f].run)
    BY <1>0, <2>3, <2>4, <2>5, SegmentCreates
  <2>7. IsLatest(fup[f].run, t) /\ run[fup[f].run].status = "finished"
    BY <1>2, <2>6 DEF CanContinueWith
  <2>8. fup[f].run = r
    BY <2>7, BoundsAssumption DEF IsLatest, OfTask, Runs
  <2> QED BY <2>5, <2>7, <2>8
<1> QED BY <1>1, <1>2 DEF IsLatest, OfTask

\* A run that is not going on stays as it is while recovery has nothing to take up.
LEMMA EndedStays ==
  ASSUME CoreType, NotRecovering, restarts = 0, Next, NEW r \in Runs, ~Active(r), run[r].status # "none"
  PROVE  run'[r].status = run[r].status
<1>1. recovery.stopping = {}
  BY DEF NotRecovering
<1> QED BY <1>1, RunsChange DEF RunChange, KeepsEnded, CreatesRun, ResumesRun

\* Nothing is left of a sequence of one element without it.
LEMMA LastTail ==
  ASSUME NEW S, NEW C \in Seq(S), Len(C) = 1 PROVE Tail(C) = <<>>
<1>1. C # <<>>
  OBVIOUS
<1>2. Tail(C) \in Seq(S) /\ Len(Tail(C)) = 0
  BY <1>1, HeadTailProperties
<1> QED BY <1>2, EmptySeq

\* A chain that is empty, or is sending its queue, gets nothing to apply while a segment
\* is ready, the run is being launched, or its stop has not been answered.
LEMMA ChainHeld ==
  ASSUME Up, Sends, Next, ~Restart, NEW r \in Runs, chain[r] = <<>> \/ finishing[r] # {},
         SegmentReady \/ r \in launch \/ \E q \in Requests : req[q].pc = "stopping" /\ req[q].run = r
  PROVE  chain'[r] = <<>> \/ finishing'[r] # {}
<1>0. CoreType /\ Sending /\ Claude
  BY DEF Up, Rows
<1>1. CASE \E s \in EndedStatus : ~SegmentReady /\ TurnEnds(r, s)
  <2>1. r \in held /\ \A q \in Requests : req[q].pc = "stopping" => req[q].run # r
    BY <1>0, <1>1, PolledAlone DEF Up, CallsInv
  <2>2. r \notin launch
    BY <2>1 DEF Up, CallsInv, LaunchesAlone
  <2> QED BY <1>1, <2>1, <2>2
<1>2. CASE chain[r] # <<>> /\ chain'[r] = Tail(chain[r])
  <2>1. Len(chain[r]) = 1 /\ chain[r] \in Seq(Updates)
    BY <1>0, <1>2 DEF Sends, CoreType, JobsType
  <2> QED BY <1>2, <2>1, LastTail
<1>3. recovery.todo = {}
  BY DEF Up, NotRecovering
<1> QED BY <1>0, <1>1, <1>2, <1>3, ChainChange DEF UpdatesMove, IsFirst

\* A run that is being stopped is ended by its stop alone.
LEMMA StoppingStays ==
  ASSUME Up, OneRequest, Next, ~Restart, NEW q \in Requests, req'[q] = req[q], NEW r \in Runs,
         req[q].run = r, req[q].pc \in {"stopping", "delivery"},
         run[r].status = "stopping", chain[r] = <<>> \/ finishing[r] # {}
  PROVE  run'[r].status = "stopping"
<1>0. CoreType /\ Claude
  BY DEF Up, Rows
<1>1. RunMoves(r)
  BY <1>0, RunsMove
<1>2. ~AnswerMoves(r)
  <2>1. r \notin launch /\ r \notin recovery.todo
    BY DEF Up, CallsInv, LaunchesAlone, NotRecovering
  <2> QED BY <2>1 DEF AnswerMoves
<1>3. ASSUME NEW p \in Requests, StopSignals(p) \/ StopSettles(p) PROVE FALSE
  <2>1. p = q
    BY <1>3 DEF OneRequest, StopSignals, StopSettles
  <2>2. req[q].pc = "delivery" /\ StopSettles(q)
    BY <1>3, <2>1 DEF StopSignals, StopSettles
  <2>3. req'[q].pc # "delivery"
    BY <1>0, <2>2 DEF StopSettles, At, Reply, IdleRequest, CoreType, RequestsType, Handlers
  <2> QED BY <2>2, <2>3
<1>4. ~SegmentMoves(r)
  BY <1>3 DEF SegmentMoves, ApplyFinished, ApplyFinishedSends, ApplyStopped, ApplyFailure
<1> QED BY <1>1, <1>2, <1>4 DEF RunMoves, IsNew

\* A run that a request will stop goes on, until its launch fails.
LEMMA LaunchGoesOn ==
  ASSUME Up, OneRequest, Next, ~Restart, NEW q \in Requests, req'[q] = req[q], NEW r \in Runs,
         req[q].run = r, req[q].pc = "launch", Active(r),
         r \in launch \/ chain[r] = <<>> \/ finishing[r] # {}
  PROVE  Active(r)' \/ run'[r].status = "failed"
<1>0. CoreType /\ Claude
  BY DEF Up, Rows
<1>1. RunMoves(r)
  BY <1>0, RunsMove
<1>2. CASE r \in launch
  <2>1. /\ run[r].status = "starting" /\ r \notin held /\ r \notin recovery.todo
        /\ chain[r] = <<>> /\ CallsOf(r) = {}
    BY <1>2 DEF Up, CallsInv, LaunchesAlone
  <2>2. ~Active(r)' => run'[r].status = "failed"
    <3>1. CASE LaunchOk(r)
      BY <1>0, <2>1, <3>1 DEF LaunchOk, Active, ActiveStatus, CoreType, RowsType, RunRows
    <3>2. CASE LaunchFails(r)
      BY <1>0, <2>1, <3>2 DEF LaunchFails, FailLaunch, Active, ActiveStatus, CoreType, RowsType, RunRows
    <3>3. CASE SegmentMoves(r)
      <4>1. ~ApplyFinished(r) /\ ~ApplyFinishedSends(r) /\ ~ApplyStopped(r) /\ ~ApplyFailure(r)
        BY <2>1 DEF ApplyFinished, ApplyFinishedSends, ApplyStopped, ApplyFailure
      <4>2. ASSUME NEW p \in Requests, StopSettles(p) PROVE p # q
        BY <4>2 DEF StopSettles
      <4> QED BY <3>3, <4>1, <4>2 DEF SegmentMoves, OneRequest, StopSettles, Active, ActiveStatus
    <3> QED BY <1>1, <2>1, <3>1, <3>2, <3>3 DEF RunMoves, AnswerMoves, IsNew, Active, ActiveStatus
  <2> QED BY <2>2
<1>3. CASE r \notin launch
  <2>1. SegmentReady
    BY <1>3 DEF SegmentReady
  <2>2. ~ApplyFinished(r) /\ ~ApplyFinishedSends(r) /\ ~ApplyStopped(r) /\ ~ApplyFailure(r)
    BY <1>3 DEF ApplyFinished, ApplyFinishedSends, ApplyStopped, ApplyFailure
  <2>3. ASSUME NEW p \in Requests, StopSettles(p) PROVE FALSE
    BY <2>3 DEF StopSettles, OneRequest
  <2>4. SegmentMoves(r) => Active(r)'
    BY <2>2, <2>3 DEF SegmentMoves, Active, ActiveStatus
  <2> QED BY <1>1, <2>1, <2>4 DEF RunMoves, IsNew, Active, ActiveStatus
<1> QED BY <1>2, <1>3

\* A request keeps the run it stops to itself while it waits.
LEMMA OwnsStays ==
  ASSUME Up, ActiveIsLatest, Sends, OneRequest, StopsOwn, Next, ~Restart,
         NEW q \in Requests, req'[q] = req[q], req[q].pc \in {"launch", "stopping", "delivery", "stopped"},
         NEW r \in Runs, NEW t \in Tasks, req[q].run = r, req[q].task = t
  PROVE  Owns(req[q].pc, r, t)'
<1> DEFINE pc == req[q].pc
<1>0. CoreType /\ Rows /\ NotRecovering /\ restarts = 0 /\ req'[q].pc = pc
  BY DEF Up, Rows
<1>1. Owns(pc, r, t)
  BY DEF StopsOwn
<1>2. pc \in {"stopped", "delivery"} => SegmentReady
  BY <1>0, StopReady DEF Up, CallsInv, SegmentReady
<1>3. pc = "launch" /\ r \notin launch => SegmentReady
  BY DEF SegmentReady
<1>4. pc = "launch" /\ r \in launch => Active(r)
  BY DEF Up, CallsInv, LaunchesAlone, Active, ActiveStatus
<1>5. IsLatest(r, t)'
  <2>1. Active(r) \/ (SegmentReady /\ run[r].status # "finished")
    BY <1>1, <1>2, <1>3, <1>4 DEF Owns, Gone, Active, ActiveStatus
  <2> QED BY <1>0, <1>1, <2>1, LatestStays DEF Owns
<1>6. pc \in {"launch", "stopping", "delivery"} => chain'[r] = <<>> \/ finishing'[r] # {}
  <2>1. r \in launch => chain[r] = <<>>
    BY DEF Up, CallsInv, LaunchesAlone
  <2> QED BY <1>1, <1>2, <1>3, <2>1, ChainHeld DEF Owns
<1>7. CASE pc = "launch"
  <2>1. Active(r)' \/ run'[r].status = "failed"
    <3>1. CASE Active(r)
      BY <1>1, <1>7, <3>1, LaunchGoesOn DEF Owns
    <3>2. CASE ~Active(r)
      BY <1>0, <1>1, <1>7, <3>2, EndedStays DEF Owns
    <3> QED BY <3>1, <3>2
  <2> QED BY <1>0, <1>5, <1>6, <1>7, <2>1 DEF Owns
<1>8. CASE pc \in {"stopping", "delivery"}
  <2>1. run'[r].status = "stopping"
    BY <1>1, <1>8, StoppingStays DEF Owns
  <2> QED BY <1>0, <1>5, <1>6, <1>8, <2>1 DEF Owns
<1>9. CASE pc = "stopped"
  <2>1. run'[r].status = run[r].status
    BY <1>0, <1>1, <1>9, EndedStays DEF Owns, Gone, Active, ActiveStatus
  <2> QED BY <1>0, <1>1, <1>5, <1>9, <2>1 DEF Owns, Gone
<1> QED BY <1>7, <1>8, <1>9

\* Every request that waits for a stop owns the run it stops.
LEMMA StopsOwnStep ==
  ASSUME Up, ActiveIsLatest, Sends, OneRequest, StopsOwn, Next, ~Restart PROVE StopsOwn'
<1>0. CoreType /\ Rows
  BY DEF Up, Rows
<1> SUFFICES ASSUME NEW q \in Requests, req'[q].pc \in {"launch", "stopping", "delivery", "stopped"}
             PROVE  Owns(req[q].pc, req[q].run, req[q].task)'
  BY DEF StopsOwn, Owns
<1>1. PICK r, t : req'[q].run = r /\ req'[q].task = t
  OBVIOUS
<1>2. CASE req'[q] = req[q]
  <2>1. r \in Runs /\ t \in Tasks
    BY <1>0, <1>1, <1>2 DEF Rows, RowsLinked, UsedBy, RunsHaveTasks
  <2>2. Owns(req[q].pc, r, t)'
    BY <1>1, <1>2, <2>1, OwnsStays
  <2> QED BY <1>1, <2>2
<1>3. ASSUME NEW u \in Tasks, NEW kind \in {"stop", "move", "archive"}, NEW dest \in CardStatus \cup {NoMove},
             StopRequest(q, u, kind, dest), ~SegmentReady
      PROVE  Owns(req[q].pc, r, t)'
  <2>1. PICK s \in OfTask(u) : Active(s) /\ Waiting(q, u, s, kind, dest)
    BY <1>3 DEF StopRequest
  <2>2. r = s /\ t = u /\ req'[q].pc = "launch"
    BY <1>0, <1>1, <2>1 DEF Waiting, CoreType, RequestsType, Handlers
  <2>3. UNCHANGED <<run, launch, chain, finishing>>
    BY <1>3 DEF StopRequest, db, jobs
  <2>4. IsLatest(r, t) /\ Active(r) /\ r \in Runs
    BY <2>1, <2>2 DEF ActiveIsLatest, OfTask
  <2>5. chain[r] = <<>> \/ finishing[r] # {}
    BY <1>3, <2>4 DEF SegmentReady
  <2> QED BY <2>2, <2>3, <2>4, <2>5 DEF Owns, IsLatest, OfTask, Active
<1>4. ASSUME StopSignals(q) PROVE Owns(req[q].pc, r, t)'
  <2>1. req[q].pc = "launch" /\ r = req[q].run /\ t = req[q].task /\ r \notin launch /\ UNCHANGED <<launch, chain, finishing>>
    BY <1>0, <1>1, <1>4 DEF StopSignals, At, jobs, CoreType, RequestsType, Handlers
  <2>2. r \in Runs /\ Owns("launch", r, t)
    BY <1>0, <2>1 DEF StopsOwn, Rows, RowsLinked, UsedBy
  <2>3. CASE Active(r)
    <3>1. run' = [run EXCEPT ![r].status = "stopping"] /\ req'[q].pc \in {"stopping", "delivery"}
      BY <1>0, <1>4, <2>1, <2>3 DEF StopSignals, CoreType, RequestsType, Handlers
    <3>2. IsLatest(r, t)' /\ run'[r].status = "stopping"
      BY <1>0, <2>2, <3>1 DEF Owns, IsLatest, OfTask, CoreType, RowsType, RunRows
    <3> QED BY <2>1, <2>2, <3>1, <3>2 DEF Owns
  <2>4. CASE ~Active(r)
    <3>1. UNCHANGED run /\ req'[q].pc = "stopped"
      BY <1>0, <1>4, <2>1, <2>4 DEF StopSignals, At, CoreType, RequestsType, Handlers
    <3> QED BY <2>1, <2>2, <2>4, <3>1 DEF Owns, IsLatest, OfTask, Gone
  <2> QED BY <2>3, <2>4
<1>5. ASSUME NEW ok \in BOOLEAN, StopAnswer(q, ok)
      PROVE  Owns(req[q].pc, r, t)'
  <2>1. /\ req[q].pc = "stopping" /\ req'[q].pc = "delivery" /\ r = req[q].run /\ t = req[q].task
        /\ UNCHANGED <<run, launch, chain, finishing>>
    BY <1>0, <1>1, <1>5 DEF StopAnswer, db, jobs, CoreType, RequestsType, Handlers
  <2> QED BY <2>1 DEF StopsOwn, Owns, IsLatest, OfTask
<1>6. ASSUME StopSettles(q) PROVE Owns(req[q].pc, r, t)'
  <2>1. req[q].pc = "delivery"
    BY <1>6 DEF StopSettles
  <2>2. Owns("delivery", req[q].run, req[q].task) /\ ~Over(q)
    BY <2>1 DEF StopsOwn, Owns, Over, Active, ActiveStatus
  <2>3. run' = Ended(req[q].run, "stopped") /\ At(q, "stopped")
    BY <1>0, <1>6, <2>2 DEF StopSettles, Reply, IdleRequest, CoreType, RequestsType, Handlers
  <2>4. r = req[q].run /\ t = req[q].task /\ req'[q].pc = "stopped"
    BY <1>0, <1>1, <2>3 DEF At, CoreType, RequestsType, Handlers
  <2>5. r \in Runs
    BY <1>0, <2>1, <2>4 DEF Rows, RowsLinked, UsedBy
  <2>6. run'[r].status = "stopped" /\ IsLatest(r, t)'
    BY <1>0, <2>2, <2>3, <2>4, <2>5 DEF Owns, Ended, IsLatest, OfTask, CoreType, RowsType, RunRows
  <2> QED BY <2>4, <2>6 DEF Owns, Gone
<1>7. ~StopReturns(q) /\ ~ApplyRequest(q) /\ ~CloseSessions(q) /\ ~(\E u \in Tasks : ArchiveRequest(q, u))
  <2> USE <1>0 DEF CoreType, RequestsType, Handlers
  <2>1. ~StopReturns(q)
    BY DEF StopReturns, At, Reply, IdleRequest
  <2>2. ~ApplyRequest(q) /\ ~CloseSessions(q)
    BY DEF ApplyRequest, CloseSessions, At, Reply, IdleRequest
  <2>3. ASSUME NEW u \in Tasks, ArchiveRequest(q, u) PROVE FALSE
    BY <2>3 DEF ArchiveRequest
  <2> QED BY <2>1, <2>2, <2>3
<1>8. RequestMoves(q)
  BY <1>0, RequestsChange
<1> QED BY <1>1, <1>2, <1>3, <1>4, <1>5, <1>6, <1>7, <1>8 DEF RequestMoves, RequestEvent

-----------------------------------------------------------------------------
(* The cards that wait in todo *)

\* A request that stops a run to move its card names a column that cards are moved to.
MovesByHand == \A q \in Requests : req[q].pc # "idle" /\ req[q].kind = "move" => req[q].dest \in HandMoves

\* It keeps that column while it waits.
LEMMA MovesByHandStep ==
  ASSUME CoreType, MovesByHand, Next PROVE MovesByHand'
<1> SUFFICES ASSUME NEW q \in Requests, req'[q].pc # "idle", req'[q].kind = "move"
             PROVE  req'[q].dest \in HandMoves
  BY DEF MovesByHand
<1> USE DEF CoreType, RequestsType, Handlers
<1>1. CASE req'[q] = req[q]
  BY <1>1 DEF MovesByHand
<1>2. ASSUME NEW t \in Tasks, NEW kind \in {"stop", "move", "archive"}, NEW dest \in CardStatus \cup {NoMove},
             StopRequest(q, t, kind, dest), kind = "move" => dest \in HandMoves
      PROVE  req'[q].dest \in HandMoves
  BY <1>2 DEF StopRequest, Waiting
<1>3. ASSUME NEW t \in Tasks, ArchiveRequest(q, t) PROVE FALSE
  BY <1>3 DEF ArchiveRequest
<1>4. ASSUME StopSignals(q) \/ StopSettles(q) PROVE req'[q].dest \in HandMoves
  BY <1>4 DEF StopSignals, StopSettles, At, Reply, IdleRequest, MovesByHand
<1>5. ASSUME StopReturns(q) \/ CloseSessions(q) PROVE req'[q].dest \in HandMoves
  BY <1>5 DEF StopReturns, CloseSessions, At, Reply, IdleRequest, MovesByHand
<1>6. ASSUME NEW ok \in BOOLEAN, StopAnswer(q, ok) PROVE req'[q].dest \in HandMoves
  BY <1>6 DEF StopAnswer, MovesByHand
<1>7. ~ApplyRequest(q) /\ ~Restart
  BY DEF ApplyRequest, Restart, Reply, IdleRequest
<1> QED
  BY <1>1, <1>2, <1>3, <1>4, <1>5, <1>6, <1>7, RequestsChange DEF RequestMoves, RequestEvent

\* A card comes to todo by hand while it has no active run, or by a request that stopped
\* its run, or waited to move it there.
LEMMA CardsToTodo ==
  ASSUME CoreType, Next, NEW t \in Tasks, card[t].status # "todo", card'[t].status = "todo"
  PROVE  \/ NoActiveRun(t) /\ UNCHANGED run
         \/ "todo" \in HandMoves
         \/ \E q \in Requests : StopReturns(q) /\ req[q].task = t
         \/ \E q \in Requests : ApplyRequest(q) /\ req[q].kind = "move" /\ req[q].dest = "todo"
<1> USE DEF CoreType, RowsType, CardRows
<1> DEFINE Goal == \/ NoActiveRun(t) /\ UNCHANGED run
                   \/ "todo" \in HandMoves
                   \/ \E q \in Requests : StopReturns(q) /\ req[q].task = t
                   \/ \E q \in Requests : ApplyRequest(q) /\ req[q].kind = "move" /\ req[q].dest = "todo"
<1>1. card' # card
  OBVIOUS
<1>2. \A u, s : card' = MoveTo(u, s) => u = t /\ s = "todo"
  BY DEF MoveTo
<1>3. \A u, s : s # "todo" => card' # MoveFromInProgress(u, s)
  BY DEF MoveFromInProgress
<1>4. \A F, r : ~FailLaunch(F, r)
  BY <1>1, <1>3 DEF FailLaunch
<1>5. \A R, r : ~FinishRun(R, r)
  BY <1>3 DEF FinishRun
<1>6. ASSUME NEW s \in Runs, RunStep(s) PROVE FALSE
  <2>1. ~(ApplyFinished(s) \/ ApplyFinishedSends(s) \/ ApplyStopped(s) \/ ApplyFailure(s))
    BY <1>1, <1>3, <1>5 DEF ApplyFinished, ApplyFinishedSends, ApplyStopped, ApplyFailure
  <2>2. ASSUME NEW a \in AnswerKinds, NEW f \in Followups, QueueAnswer(s, f, a) PROVE FALSE
    BY <1>1, <1>5, <2>2 DEF QueueAnswer
  <2>3. ASSUME NEW a \in AnswerKinds, ContinueAnswer(s, a) PROVE FALSE
    BY <1>1, <1>4, <2>3 DEF ContinueAnswer
  <2> QED BY <1>1, <1>4, <1>6, <2>1, <2>2, <2>3
          DEF RunStep, LaunchOk, LaunchFails, TurnRuns, TurnWaits, TurnEndsUnseen, TurnEnds, Recover,
              RecoverNext, ApplyToEnded, db
<1>7. ASSUME NEW f \in Followups, SteerStep(f) PROVE FALSE
  <2>1. \A code, R, T, K : ~ConvertSteer(f, code, R, T, K)
    BY <1>1, <1>2 DEF ConvertSteer
  <2>2. ASSUME NEW a \in AnswerKinds, SteerAnswer(f, a) PROVE FALSE
    BY <1>1, <2>1, <2>2 DEF SteerAnswer
  <2>3. ASSUME NEW a \in AnswerKinds, ResendAnswer(f, a) PROVE FALSE
    BY <1>1, <1>3, <1>4, <2>3 DEF ResendAnswer
  <2> QED BY <1>1, <1>7, <2>1, <2>2, <2>3 DEF SteerStep, SteerAfterLaunch, SteerSend, db
<1>8. ASSUME NEW c \in Calls, CallStep(c) PROVE FALSE
  BY <1>1, <1>8 DEF CallStep, Resume, Typed, TurnTakes, db
<1>9. ASSUME BoardStep PROVE Goal
  <2>1. PICK u \in Tasks :
          \/ StartTask(u) \/ ContinueTask(u)
          \/ \E mode \in {"queue", "steer"} : SendFollowup(u, mode)
          \/ \E dest \in Destinations : StopIdleTask(u, dest)
          \/ \E s \in HandMoves : HandMove(u, s)
          \/ ReworkTask(u) \/ RestoreTask(u) \/ ArchiveUnstarted(u)
    BY <1>9 DEF BoardStep
  <2>2. ~StartTask(u) /\ ~ContinueTask(u)
    BY <1>2 DEF StartTask, ContinueTask
  <2>3. ~\E mode \in {"queue", "steer"} : SendFollowup(u, mode)
    BY <1>1 DEF SendFollowup
  <2>4. (\E dest \in Destinations : StopIdleTask(u, dest)) => Goal
    BY <1>2 DEF StopIdleTask
  <2>5. (\E s \in HandMoves : HandMove(u, s)) => Goal
    BY <1>2 DEF HandMove
  <2>6. ReworkTask(u) => Goal
    BY <1>2 DEF ReworkTask
  <2>7. ~RestoreTask(u) /\ ~ArchiveUnstarted(u)
    BY DEF RestoreTask, ArchiveUnstarted
  <2> QED BY <2>1, <2>2, <2>3, <2>4, <2>5, <2>6, <2>7
<1>10. ASSUME NEW q \in Requests, ApplyRequest(q) PROVE Goal
  BY <1>1, <1>2, <1>10 DEF ApplyRequest
<1>11. ASSUME NEW q \in Requests, StopReturns(q) PROVE Goal
  BY <1>1, <1>2, <1>11 DEF StopReturns
<1>12. ASSUME RequestStep PROVE Goal
  BY <1>1, <1>10, <1>11, <1>12
     DEF RequestStep, StopRequest, ArchiveRequest, StopSignals, StopSettles, CloseSessions, StopAnswer, db
<1>13. ~Restart /\ ~AppServerTerminates
  BY <1>1 DEF Restart, AppServerTerminates, db
<1> QED BY <1>6, <1>7, <1>8, <1>9, <1>12, <1>13, Steps DEF ProviderStep

\* A card that waits in todo has no active run.
TodoIsIdle == \A t \in Tasks : card[t].status = "todo" => NoActiveRun(t)

\* Every step but a restart keeps it, unless people drag cards to todo.
LEMMA TodoIsIdleStep ==
  ASSUME Up, ActiveIsLatest, StopsOwn, MovesByHand, TodoIsIdle, "todo" \notin HandMoves, Next, ~Restart
  PROVE  TodoIsIdle'
<1> SUFFICES ASSUME NEW t \in Tasks, card'[t].status = "todo", NEW r \in Runs, run'[r].task = t, Active(r)'
             PROVE  FALSE
  BY DEF TodoIsIdle, NoActiveRun, OfTask
<1>0. CoreType /\ card \in CardRows
  BY DEF Up, Rows, CoreType, RowsType
<1>1. ~ResumesRun
  BY DEF Up, NotRecovering, ResumesRun
<1>2. CASE card[t].status = "todo"
  <2>1. NoActiveRun(t)
    BY <1>2 DEF TodoIsIdle
  <2>2. ~KeepsEnded(run')
    BY <2>1 DEF NoActiveRun, OfTask, KeepsEnded, Active
  <2>3. ~CreatesRun
    <3>1. ASSUME NEW n \in Runs, run'[n].task = t, ~card[t].archived, card' = MoveTo(t, "in_progress") PROVE FALSE
      BY <1>0, <3>1 DEF MoveTo, CardRows
    <3> QED BY <2>1, <3>1 DEF CreatesRun, NoActiveRun, OfTask, Active
  <2> QED BY <1>0, <1>1, <2>2, <2>3, RunsChange DEF RunChange
<1>3. CASE card[t].status # "todo"
  <2>1. CASE NoActiveRun(t) /\ UNCHANGED run
    BY <2>1 DEF NoActiveRun, OfTask, Active
  <2>2. ASSUME NEW q \in Requests, StopReturns(q), req[q].task = t PROVE FALSE
    <3>1. UNCHANGED run /\ Owns("stopped", req[q].run, t)
      BY <2>2 DEF StopReturns, StopsOwn
    <3>2. r = req[q].run
      BY <3>1, BoundsAssumption DEF Owns, ActiveIsLatest, IsLatest, OfTask, Active, Runs
    <3> QED BY <3>1, <3>2 DEF Owns, Gone, Active, ActiveStatus
  <2>3. ASSUME NEW q \in Requests, ApplyRequest(q), req[q].kind = "move", req[q].dest = "todo" PROVE FALSE
    BY <2>3 DEF ApplyRequest, MovesByHand
  <2> QED BY <1>0, <1>3, <2>1, <2>2, <2>3, CardsToTodo
<1> QED BY <1>2, <1>3

-----------------------------------------------------------------------------
(* The queue a finished update sends *)

\* How a queued follow-up is settled: a start, a stop or an archive cancels the queue of
\* its card, a run of the card ends and cancels it, or its own delivery is answered.
Settles(f) ==
  \/ NoActiveRun(fup[f].task)
  \/ \E q \in Requests : StopReturns(q) /\ req[q].task = fup[f].task
  \/ \E s \in Runs : run[s].task = fup[f].task /\ Active(s) /\ run'[s].status \in Gone
  \/ \E s \in Runs, a \in AnswerKinds : QueueAnswer(s, f, a)
  \/ call[<<"resend", f>>] # "none" \/ call[<<"steer", f>>] # "none" \/ steer[f] = "delivery"

\* Cancelling the queue of another card, or settling another follow-up, leaves it.
LEMMA OthersStayPending ==
  ASSUME RowsType, NEW f \in Followups, Queue(f), fup'[f].status # "pending"
  PROVE  /\ ~UNCHANGED fup
         /\ \A t, modes : fup' = Cancel(fup, t, modes) => t = fup[f].task
         /\ \A g \in Followups \ {f} : \A s : fup' # Settle(fup, g, s)
         /\ \A r \in Runs : FailLaunch(fup, r) =>
              Active(r) /\ run[r].task = fup[f].task /\ run'[r].status \in Gone
         /\ \A g \in Followups \ {f} : \A s : \A r \in Runs : FailLaunch(Settle(fup, g, s), r) =>
              Active(r) /\ run[r].task = fup[f].task /\ run'[r].status \in Gone
<1> USE DEF RowsType, FollowupRows, RunRows, Queue
<1>1. ~UNCHANGED fup
  OBVIOUS
<1>2. \A t, modes : fup' = Cancel(fup, t, modes) => t = fup[f].task
  BY DEF Cancel
<1>3. \A g \in Followups \ {f} : \A s : Settle(fup, g, s)[f] = fup[f]
  BY DEF Settle
<1>4. ASSUME NEW F, F[f] = fup[f], NEW r \in Runs, FailLaunch(F, r)
      PROVE  Active(r) /\ run[r].task = fup[f].task /\ run'[r].status \in Gone
  BY <1>4 DEF FailLaunch, Cancel, Gone
<1> QED BY <1>1, <1>2, <1>3, <1>4

\* Nothing else settles one.
LEMMA QueueSettles ==
  ASSUME CoreType, Owned, Next, ~Restart, NEW f \in Followups, Queue(f), fup'[f].status # "pending"
  PROVE  Settles(f)
<1>0. RowsType
  BY DEF CoreType
<1>1. /\ ~UNCHANGED fup
      /\ \A t, modes : fup' = Cancel(fup, t, modes) => t = fup[f].task
      /\ \A g \in Followups \ {f} : \A s : fup' # Settle(fup, g, s)
      /\ \A r \in Runs : FailLaunch(fup, r) =>
           Active(r) /\ run[r].task = fup[f].task /\ run'[r].status \in Gone
      /\ \A g \in Followups \ {f} : \A s : \A r \in Runs : FailLaunch(Settle(fup, g, s), r) =>
           Active(r) /\ run[r].task = fup[f].task /\ run'[r].status \in Gone
  BY <1>0, OthersStayPending
<1>2. \A g, r, mode : UnusedFollowup(g) => fup' # NewFollowup(g, r, mode)
  BY <1>0 DEF UnusedFollowup, NewFollowup, Queue, RowsType, FollowupRows
<1>3. ASSUME NEW g \in Followups \ {f}, NEW code, NEW R, NEW T, NEW K, ConvertSteer(g, code, R, T, K)
      PROVE  FALSE
  BY <1>0, <1>3 DEF ConvertSteer, Queued, Queue, RowsType, FollowupRows
<1>4. ASSUME NEW s \in Runs, RunStep(s) PROVE Settles(f)
  <2>1. ASSUME ApplyStopped(s) \/ ApplyFailure(s) PROVE Settles(f)
    <3>1. run[s].task = fup[f].task /\ Active(s)
      BY <1>1, <2>1 DEF ApplyStopped, ApplyFailure
    <3>2. run'[s].status \in Gone
      BY <1>0, <2>1 DEF ApplyStopped, ApplyFailure, Ended, Gone, RowsType, RunRows
    <3> QED BY <3>1, <3>2 DEF Settles
  <2>2. ASSUME NEW a \in AnswerKinds, NEW g \in Followups, QueueAnswer(s, g, a) PROVE Settles(f)
    <3>1. CASE g = f
      BY <2>2, <3>1 DEF Settles
    <3>2. CASE g # f
      <4>1. fup'[f] = fup[f]
        BY <1>0, <2>2, <3>2 DEF QueueAnswer, RowsType, FollowupRows
      <4> QED BY <4>1 DEF Queue
    <3> QED BY <3>1, <3>2
  <2>3. ASSUME NEW a \in AnswerKinds, ContinueAnswer(s, a) PROVE Settles(f)
    BY <1>1, <1>2, <2>3 DEF ContinueAnswer, Settles
  <2>4. ASSUME LaunchFails(s) PROVE Settles(f)
    BY <1>1, <2>4 DEF LaunchFails, Settles
  <2> QED BY <1>1, <1>4, <2>1, <2>2, <2>3, <2>4
          DEF RunStep, LaunchOk, TurnRuns, TurnWaits, TurnEndsUnseen, TurnEnds, Recover, ApplyFinished,
              ApplyFinishedSends, RecoverNext, ApplyToEnded, db
<1>5. ASSUME NEW g \in Followups, SteerStep(g) PROVE Settles(f)
  <2>1. CASE g = f
    BY <1>1, <1>5, <2>1 DEF SteerStep, SteerAfterLaunch, SteerSend, SteerAnswer, ResendAnswer, db, Settles
  <2>2. CASE g # f
    <3>1. ~SteerAfterLaunch(g) /\ ~SteerSend(g)
      BY <1>1, <1>3, <2>2 DEF SteerAfterLaunch, SteerSend, db
    <3>2. ASSUME NEW a \in AnswerKinds, SteerAnswer(g, a) PROVE FALSE
      BY <1>1, <1>3, <2>2, <3>2 DEF SteerAnswer
    <3>3. ASSUME NEW a \in AnswerKinds, ResendAnswer(g, a) PROVE Settles(f)
      <4>1. fup[g].run \in Runs
        BY <3>3 DEF ResendAnswer, Owned
      <4> QED BY <1>1, <2>2, <3>3, <4>1 DEF ResendAnswer, Settles
    <3> QED BY <1>5, <3>1, <3>2, <3>3 DEF SteerStep
  <2> QED BY <2>1, <2>2
<1>6. ASSUME NEW c \in Calls, CallStep(c) PROVE FALSE
  BY <1>1, <1>6 DEF CallStep, Resume, Typed, TurnTakes, db
<1>7. ASSUME BoardStep PROVE Settles(f)
  BY <1>1, <1>2, <1>7 DEF BoardStep, StartTask, ContinueTask, SendFollowup, StopIdleTask, HandMove,
     ReworkTask, RestoreTask, ArchiveUnstarted, Settles
<1>8. ASSUME RequestStep PROVE Settles(f)
  <2>1. ASSUME NEW q \in Requests, StopReturns(q) PROVE Settles(f)
    <3>1. req[q].task = fup[f].task
      BY <1>1, <2>1 DEF StopReturns
    <3> QED BY <2>1, <3>1 DEF Settles
  <2>2. ASSUME NEW q \in Requests, NEW t \in Tasks, ArchiveRequest(q, t) PROVE Settles(f)
    <3>1. t = fup[f].task /\ NoActiveRun(t)
      BY <1>1, <2>2 DEF ArchiveRequest
    <3> QED BY <3>1 DEF Settles
  <2> QED BY <1>1, <1>8, <2>1, <2>2
          DEF RequestStep, StopRequest, StopSignals, StopSettles, ApplyRequest, CloseSessions, StopAnswer, db
<1>9. ~AppServerTerminates
  BY <1>1 DEF AppServerTerminates, db
<1> QED BY <1>4, <1>5, <1>6, <1>7, <1>8, <1>9, Steps DEF ProviderStep

\* What a finished update is about to send, while its run is not being stopped, was not
\* settled by anybody else.
QueuePending ==
  \A r \in Runs : \A f \in finishing[r] : run[r].status = "running" => fup[f].status = "pending"

\* A run that is being stopped goes on being stopped, or ends, if stops are confirmed.
LEMMA StoppingEnds ==
  ASSUME Up, StopsConfirmed, Next, ~Restart, NEW r \in Runs, run[r].status = "stopping"
  PROVE  run'[r].status = "stopping" \/ ~Active(r)'
<1>0. CoreType /\ Claude /\ run \in RunRows
  BY DEF Up, Rows, CoreType, RowsType
<1>1. ~AnswerMoves(r)
  <2>1. r \notin launch /\ r \notin recovery.todo
    BY DEF Up, CallsInv, LaunchesAlone, NotRecovering
  <2> QED BY <2>1 DEF AnswerMoves
<1>2. \A q \in Requests : StopSettles(q) => Confirmed(q)
  BY DEF StopSettles, StopsConfirmed, Confirmed
<1>3. ApplyFinished(r) \/ ApplyStopped(r) => run'[r].status = "stopped"
  BY <1>0 DEF ApplyFinished, ApplyStopped, Ended, RunRows
<1>4. ~ApplyFinishedSends(r)
  BY DEF ApplyFinishedSends
<1>5. ApplyFailure(r) => run'[r].status \in {"failed", "interrupted"}
  BY <1>0 DEF ApplyFailure, RunRows
<1>6. SegmentMoves(r) => run'[r].status \in {"stopping"} \cup EndedStatus
  BY <1>2, <1>3, <1>4, <1>5 DEF SegmentMoves, EndedStatus
<1> QED BY <1>0, <1>1, <1>6, RunsMove DEF RunMoves, IsNew, Active, ActiveStatus, EndedStatus

\* Every step but a restart keeps it.
LEMMA QueuePendingStep ==
  ASSUME Up, SteerCalls, SteerModes, Sends, StopsOwn, ActiveIsLatest, StopsConfirmed, QueuePending,
         Next, ~Restart
  PROVE  QueuePending'
<1>0. CoreType /\ Rows /\ Sending
  BY DEF Up, Rows
<1> SUFFICES ASSUME NEW r \in Runs, NEW f \in finishing'[r], run'[r].status = "running", fup'[f].status # "pending"
             PROVE  FALSE
  BY DEF QueuePending
<1>1. CASE ApplyFinishedSends(r)
  BY <1>0, <1>1 DEF ApplyFinishedSends, PendingQueue, CoreType, JobsType
<1>2. CASE finishing'[r] \subseteq finishing[r]
  <2>1. f \in finishing[r] /\ f \in Followups
    BY <1>0, <1>2 DEF CoreType, JobsType
  <2>2. run[r].status = "running" /\ Active(r)
    BY <2>1, StoppingEnds DEF Sends, Active, ActiveStatus
  <2>3. Queue(f) /\ run[r].task = fup[f].task
    BY <1>0, <2>1, <2>2 DEF QueuePending, Sends, Queue, Rows, RowsLinked, UsedBy
  <2>4. Settles(f)
    BY <1>0, <2>1, <2>3, QueueSettles DEF Rows
  <2>5. ~NoActiveRun(fup[f].task)
    BY <2>2, <2>3 DEF NoActiveRun, OfTask
  <2>6. ASSUME NEW q \in Requests, StopReturns(q), req[q].task = fup[f].task PROVE FALSE
    <3>1. Owns("stopped", req[q].run, fup[f].task)
      BY <2>6 DEF StopReturns, StopsOwn
    <3>2. r = req[q].run
      BY <2>2, <2>3, <3>1, BoundsAssumption DEF Owns, ActiveIsLatest, IsLatest, OfTask, Runs
    <3> QED BY <2>2, <3>1, <3>2 DEF Owns, Gone
  <2>7. ASSUME NEW s \in Runs, run[s].task = fup[f].task, Active(s), run'[s].status \in Gone PROVE FALSE
    <3>1. s = r
      BY <2>2, <2>3, <2>7 DEF Up, OneActiveRun
    <3> QED BY <2>7, <3>1 DEF Gone
  <2>8. ASSUME NEW s \in Runs, NEW a \in AnswerKinds, QueueAnswer(s, f, a) PROVE FALSE
    <3>1. s = r
      BY <2>1, <2>8 DEF QueueAnswer, IsFirst, Sends
    <3>2. finishing'[r] = {} \/ finishing'[r] = {g \in finishing[r] \ {f} : fup[g].status = "pending"}
      BY <1>0, <2>8, <3>1 DEF QueueAnswer, CoreType, JobsType
    <3> QED BY <3>2
  <2>9. call[<<"resend", f>>] = "none"
    BY <2>1 DEF Sends
  <2>10. call[<<"steer", f>>] = "none" /\ steer[f] # "delivery"
    <3>1. fup[f].mode = "queue"
      BY <2>3 DEF Queue
    <3> QED BY <2>1, <3>1 DEF SteerCalls, SteerModes
  <2> QED BY <2>4, <2>5, <2>6, <2>7, <2>8, <2>9, <2>10 DEF Settles
<1> QED BY <1>0, <1>1, <1>2, FinishingChange

-----------------------------------------------------------------------------
(* The turn of a run *)

AtWork == {"busy", "waiting"}

\* The poller follows every session at work.
WorkIsFollowed == \A r \in Runs : turn[r] \in AtWork => r \in held

\* How the turn of a run of Claude comes to an end
TurnOver(r) ==
  \/ TurnEndsUnseen(r) \/ \E s \in EndedStatus : TurnEnds(r, s)
  \/ r \in launch /\ LaunchFails(r)
  \/ run[r].status = "none" \/ ~Active(r)
  \/ \E q \in Requests : req[q].pc = "stopping" /\ req[q].run = r

\* What a step does to the turn of run r: it begins one in a session that the poller
\* follows from then on, or ends one.
TurnGoesOn(r) ==
  /\ held \subseteq held'
  /\ turn'[r] \in AtWork => turn[r] \in AtWork \/ r \in held'
  /\ turn[r] \in AtWork => turn'[r] \in AtWork \/ TurnOver(r)

\* What an answer does to it
LEMMA AnsweredGoesOn ==
  ASSUME CoreType, Claude, NEW c, NEW a, NEW r \in Runs, held' = AnsweredHeld(c, a)
  PROVE  /\ held \subseteq held'
         /\ AnsweredTurn(c, a)[r] \in AtWork => turn[r] \in AtWork \/ r \in held'
         /\ turn[r] \in AtWork => AnsweredTurn(c, a)[r] \in AtWork
  BY DEF AnsweredTurn, AnsweredHeld, AtWork, CoreType, SessionsType, TurnStates

\* Nothing else happens to it.
LEMMA TurnsGoOn ==
  ASSUME CoreType, Claude, Next, ~Restart, NEW r \in Runs PROVE TurnGoesOn(r)
<1> USE DEF CoreType, SessionsType, TurnStates
<1>1. UNCHANGED <<held, turn>> => TurnGoesOn(r)
  BY DEF TurnGoesOn
<1>2. ASSUME NEW c, NEW a, held' = AnsweredHeld(c, a), turn' = AnsweredTurn(c, a) PROVE TurnGoesOn(r)
  BY <1>2, AnsweredGoesOn DEF TurnGoesOn
<1>3. ASSUME NEW f, NEW code, NEW R, NEW T \in TurnStates, NEW K, ConvertSteer(f, code, R, T, K)
      PROVE  turn'[r] = T[r] \/ (run[r].status = "none" /\ turn'[r] = "idle")
  BY <1>3 DEF ConvertSteer, UnusedRun
<1>4. ASSUME NEW s \in Runs, RunSegment(s) PROVE TurnGoesOn(r)
  BY <1>1, <1>4 DEF RunSegment, ApplyToEnded, ApplyFinished, ApplyFinishedSends, ApplyStopped, ApplyFailure,
     RecoverNext, sessions
<1>5. ASSUME NEW s \in Runs, RunEvent(s) PROVE TurnGoesOn(r)
  <2>1. CASE LaunchOk(s)
    BY <2>1 DEF LaunchOk, TurnGoesOn, AtWork
  <2>2. CASE LaunchFails(s)
    <3>1. s \in launch /\ turn' = [turn EXCEPT ![s] = "idle"] /\ UNCHANGED held
      BY <2>2 DEF LaunchFails
    <3>2. CASE s = r
      BY <2>2, <3>1, <3>2 DEF TurnGoesOn, TurnOver, AtWork
    <3>3. CASE s # r
      BY <3>1, <3>3 DEF TurnGoesOn
    <3> QED BY <3>2, <3>3
  <2>3. CASE TurnEndsUnseen(s)
    <3>1. turn' = [turn EXCEPT ![s] = "idle"] /\ UNCHANGED held
      BY <2>3 DEF TurnEndsUnseen
    <3>2. CASE s = r
      BY <2>3, <3>1, <3>2 DEF TurnGoesOn, TurnOver, AtWork
    <3>3. CASE s # r
      BY <3>1, <3>3 DEF TurnGoesOn
    <3> QED BY <3>2, <3>3
  <2>4. ASSUME NEW e \in EndedStatus, TurnEnds(s, e) PROVE TurnGoesOn(r)
    <3>1. turn' = [turn EXCEPT ![s] = "idle"] /\ UNCHANGED held
      BY <2>4 DEF TurnEnds
    <3>2. CASE s = r
      BY <2>4, <3>1, <3>2 DEF TurnGoesOn, TurnOver, AtWork
    <3>3. CASE s # r
      BY <3>1, <3>3 DEF TurnGoesOn
    <3> QED BY <3>2, <3>3
  <2>5. CASE TurnRuns(s) \/ TurnWaits(s)
    BY <2>5 DEF TurnRuns, TurnWaits, Claude, Codex, TurnGoesOn, AtWork
  <2>6. ASSUME NEW a \in AnswerKinds, ContinueAnswer(s, a) PROVE TurnGoesOn(r)
    BY <1>2, <2>6 DEF ContinueAnswer
  <2>7. ASSUME NEW a \in AnswerKinds, NEW f \in Followups, QueueAnswer(s, f, a) PROVE TurnGoesOn(r)
    BY <1>2, <2>7 DEF QueueAnswer
  <2>8. ASSUME NEW e \in {"running", "finished", "interrupted"}, Recover(s, e) PROVE TurnGoesOn(r)
    BY <2>8 DEF Recover, TurnGoesOn
  <2> QED BY <1>5, <2>1, <2>2, <2>3, <2>4, <2>5, <2>6, <2>7, <2>8 DEF RunEvent
<1>6. ASSUME NEW f \in Followups, SteerAfterLaunch(f) \/ SteerSend(f) PROVE TurnGoesOn(r)
  <2>1. UNCHANGED held /\ (UNCHANGED turn \/ \E code : ConvertSteer(f, code, run, turn, call))
    BY <1>6 DEF SteerAfterLaunch, SteerSend, sessions
  <2>2. turn \in TurnStates
    OBVIOUS
  <2>3. turn'[r] = turn[r] \/ (run[r].status = "none" /\ turn'[r] = "idle")
    BY <1>3, <2>1, <2>2
  <2> QED BY <2>1, <2>3 DEF TurnGoesOn, TurnOver, AtWork
<1>7. ASSUME NEW f \in Followups, SteerEvent(f) PROVE TurnGoesOn(r)
  <2>1. ASSUME NEW a \in AnswerKinds, SteerAnswer(f, a) PROVE TurnGoesOn(r)
    <3> DEFINE c == <<"steer", f>>
               T == AnsweredTurn(c, a)
    <3>1. T \in TurnStates /\ held' = AnsweredHeld(c, a)
      BY <2>1 DEF AnsweredTurn, SteerAnswer
    <3>2. turn' = T \/ \E code, R, K : ConvertSteer(f, code, R, T, K)
      BY <2>1 DEF SteerAnswer
    <3>3. /\ held \subseteq held'
          /\ T[r] \in AtWork => turn[r] \in AtWork \/ r \in held'
          /\ turn[r] \in AtWork => T[r] \in AtWork
      BY <3>1, AnsweredGoesOn
    <3> HIDE DEF T
    <3>4. turn'[r] = T[r] \/ (run[r].status = "none" /\ turn'[r] = "idle")
      BY <1>3, <3>1, <3>2
    <3> QED BY <3>3, <3>4 DEF TurnGoesOn, TurnOver, AtWork
  <2>2. ASSUME NEW a \in AnswerKinds, ResendAnswer(f, a) PROVE TurnGoesOn(r)
    BY <1>2, <2>2 DEF ResendAnswer
  <2> QED BY <1>7, <2>1, <2>2 DEF SteerEvent
<1>8. ASSUME NEW c \in Calls, CallStep(c) PROVE TurnGoesOn(r)
  BY <1>1, <1>8 DEF CallStep, Resume, Typed, TurnTakes, Claude, Codex
<1>9. ASSUME BoardStep PROVE TurnGoesOn(r)
  <2>1. ASSUME NEW t \in Tasks, ContinueTask(t) PROVE TurnGoesOn(r)
    <3>1. PICK n \in Runs : UnusedRun(n) /\ turn' = [turn EXCEPT ![n] = "idle"]
      BY <2>1 DEF ContinueTask
    <3>2. UNCHANGED held
      BY <2>1 DEF ContinueTask
    <3> QED BY <3>1, <3>2 DEF TurnGoesOn, TurnOver, AtWork, UnusedRun
  <2> QED BY <1>1, <1>9, <2>1 DEF BoardStep, StartTask, SendFollowup, StopIdleTask, HandMove, ReworkTask,
       RestoreTask, ArchiveUnstarted, sessions
<1>10. ASSUME NEW q \in Requests, RequestSegment(q) \/ RequestEvent(q) PROVE TurnGoesOn(r)
  <2>1. ASSUME NEW ok \in BOOLEAN, StopAnswer(q, ok) PROVE TurnGoesOn(r)
    <3>1. req[q].pc = "stopping" /\ UNCHANGED held /\ (UNCHANGED turn \/ turn' = [turn EXCEPT ![req[q].run] = "idle"])
      BY <2>1 DEF StopAnswer
    <3> QED BY <3>1 DEF TurnGoesOn, TurnOver, AtWork
  <2>2. CASE CloseSessions(q)
    <3>1. UNCHANGED held /\ (turn'[r] = turn[r] \/ (~Active(r) /\ turn'[r] = "idle"))
      BY <2>2 DEF CloseSessions
    <3> QED BY <3>1 DEF TurnGoesOn, TurnOver, AtWork
  <2> QED BY <1>1, <1>10, <2>1, <2>2
          DEF RequestSegment, RequestEvent, StopRequest, ArchiveRequest, StopSignals, StopSettles, StopReturns,
              ApplyRequest, sessions
<1>11. ~AppServerTerminates
  BY DEF AppServerTerminates, Claude, Codex
<1> QED BY <1>4, <1>5, <1>6, <1>7, <1>8, <1>9, <1>10, <1>11, SegmentOrEvent DEF SegmentStep, EventStep

\* Every step but a restart lets the poller follow the sessions at work.
LEMMA WorkIsFollowedStep ==
  ASSUME CoreType, WorkIsFollowed, Claude, Next, ~Restart PROVE WorkIsFollowed'
<1> SUFFICES ASSUME NEW r \in Runs, turn'[r] \in AtWork PROVE r \in held'
  BY DEF WorkIsFollowed
<1> QED BY TurnsGoOn DEF TurnGoesOn, WorkIsFollowed

-----------------------------------------------------------------------------
(* Who works on a run *)

\* A run is being launched, waits for its first message, has an update to apply, or a
\* session at work.
Working(r) ==
  \/ r \in launch \/ chain[r] # <<>> \/ turn[r] \in AtWork
  \/ \E c \in Calls : Opening(c) /\ CallRun(c) = r
Works == \A r \in Runs : Active(r) /\ run[r].status # "stopping" => Working(r)

\* A run that is created is launched, or gets its first message.
LEMMA NewRunWorks ==
  ASSUME CoreType, BlankRuns, Claude, Next, ~Restart, NEW r \in Runs, run[r].status = "none",
         run'[r].status # "none"
  PROVE  Working(r)'
<1> USE DEF CoreType, RowsType, RunRows
<1> DEFINE Begun ==
       \/ r \in launch'
       \/ call'[<<"continue", r>>] # "none"
       \/ \E f \in Followups : call'[<<"resend", f>>] # "none" /\ fup'[f].run = r
<1>1. Begun => Working(r)'
  <2>1. ASSUME call'[<<"continue", r>>] # "none" PROVE Working(r)'
    <3>1. <<"continue", r>> \in Calls /\ Opening(<<"continue", r>>)' /\ CallRun(<<"continue", r>>)' = r
      BY <2>1 DEF Calls, Opening, CallRun
    <3> QED BY <3>1 DEF Working
  <2>2. ASSUME NEW f \in Followups, call'[<<"resend", f>>] # "none", fup'[f].run = r PROVE Working(r)'
    <3>1. <<"resend", f>> \in Calls /\ Opening(<<"resend", f>>)' /\ CallRun(<<"resend", f>>)' = r
      BY <2>2 DEF Calls, Opening, CallRun
    <3> QED BY <3>1 DEF Working
  <2> QED BY <2>1, <2>2 DEF Working
<1>2. ~UNCHANGED run /\ ~Active(r)
  BY DEF Active, ActiveStatus
<1>3. \A c, a : run' # AnsweredRun(run, c, a)
  BY DEF AnsweredRun, Running
<1>4. \A F, s : ~FailLaunch(F, s)
  BY <1>2 DEF FailLaunch, Active, ActiveStatus
<1>5. ASSUME NEW f \in Followups, NEW code, NEW R, NEW T, NEW K \in CallStates, ConvertSteer(f, code, R, T, K), R[r].status = "none"
      PROVE  Begun
  <2>1. PICK n \in Runs : /\ run' = NewRun(n, fup[f].task, run[fup[f].run].session)
                          /\ fup' = [Queued(f, code) EXCEPT ![f].run = n]
                          /\ call' = [K EXCEPT ![<<"resend", f>>] = NewCall("resend", run[fup[f].run].session)]
    BY <1>5 DEF ConvertSteer
  <2>2. n = r
    BY <2>1 DEF NewRun
  <2>3. fup'[f].run = n
    BY <2>1 DEF Queued, FollowupRows
  <2>4. call'[<<"resend", f>>] # "none"
    BY <2>1 DEF NewCall, Claude, CallStates, Calls
  <2> QED BY <2>2, <2>3, <2>4
<1>6. ASSUME NEW s \in Runs, RunSegment(s) PROVE FALSE
  <2>1. s # r \/ RecoverNext(s) \/ ApplyToEnded(s)
    BY <1>2, <1>6 DEF RunSegment, ApplyFinished, ApplyFinishedSends, ApplyStopped, ApplyFailure
  <2> QED BY <1>2, <1>6, <2>1 DEF RunSegment, ApplyToEnded, ApplyFinished, ApplyFinishedSends, ApplyStopped,
       ApplyFailure, RecoverNext, Ended, FinishRun, db
<1>7. ASSUME NEW s \in Runs, RunEvent(s) PROVE FALSE
  <2>1. ~LaunchOk(s) /\ ~LaunchFails(s)
    BY <1>4 DEF LaunchOk, LaunchFails
  <2>2. ~TurnRuns(s) /\ ~TurnWaits(s)
    BY DEF TurnRuns, TurnWaits, Running, Claude, Codex
  <2>3. ~TurnEndsUnseen(s) /\ \A e : ~TurnEnds(s, e)
    BY <1>2 DEF TurnEndsUnseen, TurnEnds, db
  <2>4. \A e : ~Recover(s, e)
    <3>1. ASSUME NEW e, Recover(s, e) PROVE FALSE
      <4>1. s # r
        BY <3>1 DEF BlankRuns, Recover, IsFirst
      <4> QED BY <1>2, <3>1, <4>1 DEF Recover, Resumed, Running
    <3> QED BY <3>1
  <2>5. \A a : ~ContinueAnswer(s, a)
    BY <1>2, <1>3, <1>4 DEF ContinueAnswer
  <2>6. \A f, a : ~QueueAnswer(s, f, a)
    BY <1>2, <1>3 DEF QueueAnswer, QueueLive, FinishRun
  <2> QED BY <1>7, <2>1, <2>2, <2>3, <2>4, <2>5, <2>6 DEF RunEvent
<1>8. ASSUME NEW f \in Followups, SteerAfterLaunch(f) \/ SteerSend(f) PROVE Begun
  BY <1>2, <1>5, <1>8 DEF SteerAfterLaunch, SteerSend, db, SessionsType
<1>9. ASSUME NEW f \in Followups, SteerEvent(f) PROVE Begun
  <2>1. ASSUME NEW a \in AnswerKinds, SteerAnswer(f, a) PROVE Begun
    <3> DEFINE R == AnsweredRun(run, <<"steer", f>>, a)
               K == [call EXCEPT ![<<"steer", f>>] = "none"]
    <3>1. R[r].status = "none" /\ K \in CallStates
      BY DEF AnsweredRun, Running, SessionsType, CallStates
    <3>2. run' = R \/ \E code, T : ConvertSteer(f, code, R, T, K)
      BY <2>1 DEF SteerAnswer
    <3> HIDE DEF R, K
    <3> QED BY <1>5, <3>1, <3>2
  <2>2. ASSUME NEW a \in AnswerKinds, ResendAnswer(f, a) PROVE FALSE
    BY <1>2, <1>3, <1>4, <2>2 DEF ResendAnswer, Active
  <2> QED BY <1>9, <2>1, <2>2 DEF SteerEvent
<1>10. ASSUME NEW c \in Calls, CallStep(c) PROVE FALSE
  BY <1>2, <1>10 DEF CallStep, Resume, Typed, TurnTakes, Claude, Codex, db
<1>11. ASSUME BoardStep PROVE Begun
  <2>1. ASSUME NEW t \in Tasks, StartTask(t) PROVE Begun
    BY <2>1 DEF StartTask, NewRun
  <2>2. ASSUME NEW t \in Tasks, ContinueTask(t) PROVE Begun
    <3>1. PICK last \in OfTask(t), n \in Runs :
             /\ run' = NewRun(n, t, run[last].session)
             /\ call' = [call EXCEPT ![<<"continue", n>>] = NewCall("continue", run[last].session)]
      BY <2>2 DEF ContinueTask
    <3>2. n = r
      BY <3>1 DEF NewRun
    <3> QED BY <3>1, <3>2 DEF NewCall, SessionsType, CallStates, Calls
  <2> QED BY <1>2, <1>11, <2>1, <2>2 DEF BoardStep, SendFollowup, StopIdleTask, HandMove, ReworkTask,
       RestoreTask, ArchiveUnstarted
<1>12. ASSUME NEW q \in Requests, RequestSegment(q) \/ RequestEvent(q) PROVE FALSE
  <2>1. ~StopSignals(q)
    BY <1>2 DEF StopSignals
  <2>2. ~StopSettles(q)
    BY <1>2 DEF StopSettles, Over, Ended
  <2> QED BY <1>2, <1>12, <2>1, <2>2
          DEF RequestSegment, RequestEvent, StopRequest, ArchiveRequest, StopReturns, ApplyRequest,
              CloseSessions, StopAnswer, db
<1>13. ~AppServerTerminates
  BY DEF AppServerTerminates, Claude, Codex
<1> HIDE DEF Begun
<1> QED BY <1>1, <1>6, <1>7, <1>8, <1>9, <1>10, <1>11, <1>12, <1>13, SegmentOrEvent DEF SegmentStep, EventStep

\* The last update of a run is applied by the run's own code.
LEMMA LastApplied ==
  ASSUME CoreType, Claude, Next, ~Restart, NEW r \in Runs, chain[r] # <<>>, chain'[r] = <<>>
  PROVE  \/ ApplyToEnded(r) \/ ApplyFinished(r) \/ ApplyStopped(r) \/ ApplyFailure(r)
         \/ \E a \in AnswerKinds, f \in Followups : QueueAnswer(r, f, a)
<1> USE DEF CoreType, JobsType
<1>1. ~UNCHANGED chain /\ \A s \in Runs \ {r} : ~Applied(s)
  BY DEF Applied
<1>2. ASSUME NEW s \in Runs, NEW u, u \in Updates, chain' = [chain EXCEPT ![s] = Append(@, u)] PROVE FALSE
  BY <1>2
<1>3. ASSUME NEW s \in Runs, RunSegment(s)
      PROVE  ApplyToEnded(r) \/ ApplyFinished(r) \/ ApplyStopped(r) \/ ApplyFailure(r)
  <2>1. ~ApplyFinishedSends(s) /\ ~RecoverNext(s)
    BY <1>1 DEF ApplyFinishedSends, RecoverNext, jobs
  <2>2. s = r
    BY <1>1, <1>3, <2>1 DEF RunSegment, ApplyToEnded, ApplyFinished, ApplyStopped, ApplyFailure
  <2> QED BY <1>3, <2>1, <2>2 DEF RunSegment
<1>4. ASSUME NEW s \in Runs, RunEvent(s)
      PROVE  \E a \in AnswerKinds, f \in Followups : QueueAnswer(r, f, a)
  <2>1. \A e \in EndedStatus : ~TurnEnds(s, e)
    BY <1>2 DEF TurnEnds, Update, Updates
  <2>2. \A e \in {"running", "finished", "interrupted"} : ~Recover(s, e)
    BY <1>1, <1>2 DEF Recover, Update, Updates, EndedStatus
  <2>3. \A a \in AnswerKinds, f \in Followups : QueueAnswer(s, f, a) => s = r
    BY <1>1 DEF QueueAnswer
  <2>4. \A a \in AnswerKinds : ~ContinueAnswer(s, a)
    BY <1>1 DEF ContinueAnswer, jobs
  <2> QED BY <1>1, <1>4, <2>1, <2>2, <2>3, <2>4
          DEF RunEvent, LaunchOk, LaunchFails, TurnRuns, TurnWaits, TurnEndsUnseen, jobs
<1>5. \A f \in Followups : ~SteerAfterLaunch(f) /\ ~SteerSend(f) /\ ~SteerEvent(f)
  BY <1>1 DEF SteerAfterLaunch, SteerSend, SteerEvent, SteerAnswer, ResendAnswer
<1>6. \A c \in Calls : ~CallStep(c)
  BY <1>1 DEF CallStep, Resume, Typed, TurnTakes, jobs
<1>7. ~BoardStep
  BY <1>1 DEF BoardStep, StartTask, ContinueTask, SendFollowup, StopIdleTask, HandMove, ReworkTask,
     RestoreTask, ArchiveUnstarted, jobs
<1>8. \A q \in Requests : ~RequestSegment(q) /\ ~RequestEvent(q)
  BY <1>1 DEF RequestSegment, RequestEvent, StopRequest, ArchiveRequest, StopSignals, StopSettles,
     StopReturns, ApplyRequest, CloseSessions, StopAnswer, jobs
<1>9. ~AppServerTerminates
  BY DEF AppServerTerminates, Claude, Codex
<1> QED BY <1>3, <1>4, <1>5, <1>6, <1>7, <1>8, <1>9, SegmentOrEvent DEF SegmentStep, EventStep

\* The update that ends a run, or the answer that ends what it sends, leaves the run over
\* or at work.
LEMMA UpdateEnds ==
  ASSUME Up, Sends, QueuePending, Next, ~Restart, NEW r \in Runs, Active(r), run[r].status # "stopping",
         chain[r] # <<>>, Active(r)'
  PROVE  Working(r)'
<1> USE DEF Up, Rows, CoreType, RowsType, RunRows
<1>1. CASE chain'[r] # <<>>
  BY <1>1 DEF Working
<1>2. CASE ApplyToEnded(r) \/ ApplyFinished(r) \/ ApplyStopped(r) \/ ApplyFailure(r)
  <2>1. ~ApplyToEnded(r)
    BY DEF ApplyToEnded
  <2>2. ApplyFinished(r) => run'[r].status = "finished"
    BY DEF ApplyFinished, FinishRun, Ended
  <2>3. ApplyStopped(r) => run'[r].status = "stopped"
    BY DEF ApplyStopped, Ended
  <2>4. ApplyFailure(r) => run'[r].status \in {"failed", "interrupted"}
    BY DEF ApplyFailure
  <2> QED BY <1>2, <2>1, <2>2, <2>3, <2>4 DEF Active, ActiveStatus
<1>3. ASSUME NEW a \in AnswerKinds, NEW f \in Followups, QueueAnswer(r, f, a), chain'[r] = <<>>
      PROVE  Working(r)'
  <2> DEFINE c == <<"queue", r>>
  <2>1. f \in finishing[r] /\ CallRun(c) = r /\ turn' = AnsweredTurn(c, a)
    BY <1>3 DEF QueueAnswer, IsFirst, CallRun
  <2>2. QueueLive(r, f)
    BY <2>1 DEF Sends, QueuePending, QueueLive
  <2>3. a \in {"delivered", "waiting"}
    <3>1. a # "undelivered"
      BY <1>3, <2>2 DEF QueueAnswer, FinishRun, Active, ActiveStatus
    <3>2. a # "already"
      BY <1>3, <2>2 DEF QueueAnswer, FinishRun, Active, ActiveStatus
    <3> QED BY <3>1, <3>2 DEF AnswerKinds
  <2>4. turn'[r] \in AtWork
    BY <2>1, <2>3 DEF AnsweredTurn, AtWork, SessionsType, TurnStates
  <2> QED BY <2>4 DEF Working
<1> QED BY <1>1, <1>2, <1>3, LastApplied

\* The answer to the message that opened a run leaves the run over or at work.
LEMMA OpeningEnds ==
  ASSUME Up, SteerCalls, Openings, Sends, Next, ~Restart, NEW r \in Runs, Active(r), run[r].status # "stopping",
         NEW c \in Calls, Opening(c), CallRun(c) = r, Active(r)'
  PROVE  Working(r)'
<1> USE DEF Up, Rows, CoreType, RowsType, RunRows
<1>1. CASE call'[c] # "none"
  <2>1. CallRun(c)' = r
    BY ResendKeepsRun DEF CallRun, Opening, Calls
  <2> QED BY <1>1, <2>1 DEF Working, Opening
<1>2. CASE CallAnswer(c)
  <2>1. PICK a \in AnswerKinds :
          \/ c = <<"continue", r>> /\ ContinueAnswer(r, a)
          \/ \E f \in Followups : c = <<"resend", f>> /\ ResendAnswer(f, a) /\ fup[f].run = r
    BY <1>2 DEF CallAnswer, Opening, Calls, CallRun
  <2>2. run[r].status \notin {"stopping", "stopped"}
    BY DEF Active, ActiveStatus
  <2>3. turn' = AnsweredTurn(c, a) /\ a \in Answers(c)
    BY <2>1 DEF ContinueAnswer, ResendAnswer
  <2>4. a # "undelivered"
    <3>1. \A F : ~FailLaunch(F, r)
      BY DEF FailLaunch, Active, ActiveStatus
    <3>2. CASE ContinueAnswer(r, a)
      BY <2>2, <3>1, <3>2 DEF ContinueAnswer
    <3>3. ASSUME NEW f \in Followups, ResendAnswer(f, a), fup[f].run = r PROVE a # "undelivered"
      BY <2>2, <3>1, <3>3 DEF ResendAnswer
    <3> QED BY <2>1, <3>2, <3>3
  <2>5. a # "already"
    <3>1. CASE c = <<"continue", r>>
      BY <2>3, <3>1 DEF Answers, AlreadyInTranscript
    <3>2. ASSUME NEW f \in Followups, ResendAnswer(f, a), fup[f].run = r PROVE a # "already"
      BY <2>2, <3>2 DEF ResendAnswer, Active, ActiveStatus
    <3> QED BY <2>1, <3>1, <3>2
  <2>6. turn'[r] \in AtWork
    BY <2>3, <2>4, <2>5 DEF AnswerKinds, AnsweredTurn, AtWork, SessionsType, TurnStates
  <2> QED BY <2>6 DEF Working
<1> QED BY <1>1, <1>2, CallKept DEF CallsInv, Opening

\* A turn that ends leaves its update, unless it was ended by a stop.
LEMMA TurnEndsKnown ==
  ASSUME Up, StopsOwn, WorkIsFollowed, Next, ~Restart, NEW r \in Runs, Active(r), run[r].status # "stopping",
         turn[r] \in AtWork, Active(r)'
  PROVE  Working(r)'
<1> USE DEF Up, Rows, CoreType, RowsType, RunRows
<1>1. CASE turn'[r] \in AtWork
  BY <1>1 DEF Working
<1>2. ~TurnEndsUnseen(r)
  BY DEF TurnEndsUnseen, WorkIsFollowed
<1>3. ASSUME NEW s \in EndedStatus, TurnEnds(r, s) PROVE Working(r)'
  <2>1. chain'[r] = Append(chain[r], Update(s, FALSE))
    BY <1>3 DEF TurnEnds, JobsType
  <2>2. chain'[r] # <<>>
    BY <2>1, AppendedType
  <2> QED BY <2>2 DEF Working
<1>4. ~LaunchFails(r)
  BY DEF LaunchFails, FailLaunch, Active, ActiveStatus
<1>5. \A q \in Requests : req[q].pc = "stopping" => req[q].run # r
  BY DEF StopsOwn, Owns
<1>6. TurnGoesOn(r)
  BY TurnsGoOn
<1> QED BY <1>1, <1>2, <1>3, <1>4, <1>5, <1>6 DEF TurnGoesOn, TurnOver, Active, ActiveStatus

\* Every step but a restart leaves somebody who works on each run that is going on.
LEMMA WorksStep ==
  ASSUME Up, SteerCalls, Openings, Sends, StopsOwn, StopsConfirmed, QueuePending, WorkIsFollowed, Works,
         Next, ~Restart
  PROVE  Works'
<1> SUFFICES ASSUME NEW r \in Runs, Active(r)', run'[r].status # "stopping" PROVE Working(r)'
  BY DEF Works
<1>0. CoreType /\ Claude /\ NotRecovering /\ restarts = 0 /\ BlankRuns
  BY DEF Up, Rows, CallsInv
<1>1. CASE run[r].status = "none"
  BY <1>0, <1>1, NewRunWorks DEF Active, ActiveStatus
<1>2. Active(r) \/ run[r].status = "none"
  BY <1>0, EndedStays DEF Active
<1>3. run[r].status # "stopping"
  BY StoppingEnds
<1>4. ASSUME Active(r), r \in launch PROVE Working(r)'
  <2>1. ~LaunchFails(r)
    BY <1>0, <1>4 DEF LaunchFails, FailLaunch, Active, ActiveStatus, CoreType, RowsType, RunRows
  <2>2. LaunchOk(r) => turn'[r] = "busy"
    BY <1>0 DEF LaunchOk, CoreType, SessionsType, TurnStates
  <2> QED BY <1>0, <1>4, <2>1, <2>2, JobsMove DEF JobMoves, Working, AtWork
<1>5. Active(r) => Working(r)
  BY <1>3 DEF Works
<1> QED BY <1>1, <1>2, <1>3, <1>4, <1>5, UpdateEnds, OpeningEnds, TurnEndsKnown DEF Working

-----------------------------------------------------------------------------
(* The invariant, and what it shows *)

\* With one request at a time, each waits for a run that stays its own.
AloneInv ==
  /\ StopsOwn /\ MovesByHand
  /\ "todo" \notin HandMoves => TodoIsIdle
  /\ ~setup.stopMayFail => QueuePending /\ Works
WorkInv ==
  OnceInv /\ (Calm => WorkIsFollowed /\ (setup.requests < 2 => AloneInv))

\* The board starts with no card in work and no request.
LEMMA WorkInvInit == Init => WorkInv
<1> SUFFICES ASSUME Init PROVE WorkIsFollowed /\ AloneInv
  BY OnceInvInit DEF WorkInv
<1>1. \A r \in Runs : ~Active(r) /\ turn[r] \notin AtWork /\ finishing[r] = {}
  BY DEF Init, Active, ActiveStatus, AtWork
<1>2. \A q \in Requests : req[q].pc = "idle"
  BY DEF Init, IdleRequest
<1>3. TodoIsIdle
  BY <1>1 DEF TodoIsIdle, NoActiveRun, OfTask
<1> QED BY <1>1, <1>2, <1>3 DEF WorkIsFollowed, AloneInv, StopsOwn, Owns, MovesByHand, QueuePending, Works

\* Every step keeps the invariant.
LEMMA WorkInvStep == WorkInv /\ OnceInv' /\ [Next]_vars => WorkInv'
<1> SUFFICES ASSUME WorkInv, OnceInv', [Next]_vars, Calm'
             PROVE  WorkIsFollowed' /\ (setup'.requests < 2 => AloneInv')
  BY DEF WorkInv
<1>0. setup' = setup /\ Claude /\ NoStopFailsBeforeAnother
  BY SameSetup DEF Calm, Claude, NoStopFailsBeforeAnother
<1>1. CASE Next
  <2>1. CoreType
    BY TypeParts DEF WorkInv, OnceInv, ClaudeInv, RowsInv, IInv
  <2>2. Claude /\ ~Restart /\ restarts = 0 /\ UNCHANGED setup
    BY <1>0, <1>1, <2>1, CalmBefore DEF Calm
  <2>3. Up /\ DeliveriesInv
    BY <1>0, <2>1, <2>2 DEF Up, Rows, WorkInv, OnceInv, Calm, ClaudeInv, RowsInv, IInv, UpRows
  <2>4. WorkIsFollowed'
    BY <1>0, <1>1, <2>1, <2>2, WorkIsFollowedStep DEF WorkInv, Calm
  <2>5. ASSUME setup.requests < 2 PROVE AloneInv'
    <3>1. AloneInv /\ WorkIsFollowed
      BY <1>0, <2>2, <2>5 DEF WorkInv, Calm
    <3>2. OneRequest /\ (~setup.stopMayFail => StopsConfirmed)
      BY <2>3, <2>5 DEF Up, CallsInv
    <3>3. StopsOwn'
      BY <1>1, <2>2, <2>3, <3>1, <3>2, StopsOwnStep DEF AloneInv, DeliveriesInv
    <3>4. MovesByHand'
      BY <1>1, <2>1, <3>1, MovesByHandStep DEF AloneInv
    <3>5. ASSUME "todo" \notin HandMoves PROVE TodoIsIdle'
      BY <1>1, <2>2, <2>3, <3>1, <3>5, TodoIsIdleStep DEF AloneInv, DeliveriesInv
    <3>6. ASSUME ~setup.stopMayFail PROVE QueuePending' /\ Works'
      BY <1>1, <2>2, <2>3, <3>1, <3>2, <3>6, QueuePendingStep, WorksStep DEF AloneInv, DeliveriesInv
    <3> QED BY <2>2, <3>3, <3>4, <3>5, <3>6 DEF AloneInv
  <2> QED BY <2>2, <2>4, <2>5
<1>2. CASE UNCHANGED vars
  <2>1. WorkIsFollowed /\ (setup.requests < 2 => AloneInv)
    BY <1>0, <1>2 DEF WorkInv, Calm, vars
  <2>2. WorkIsFollowed'
    BY <1>2, <2>1 DEF WorkIsFollowed, vars
  <2>3. ASSUME AloneInv PROVE StopsOwn' /\ MovesByHand'
    BY <1>2, <2>3 DEF AloneInv, StopsOwn, Owns, MovesByHand, IsLatest, OfTask, Active, vars
  <2>4. ASSUME TodoIsIdle PROVE TodoIsIdle'
    BY <1>2, <2>4 DEF TodoIsIdle, NoActiveRun, OfTask, Active, vars
  <2>5. ASSUME QueuePending, Works PROVE QueuePending' /\ Works'
    BY <1>2, <2>5 DEF QueuePending, Works, Working, Opening, CallRun, Active, vars
  <2> QED BY <1>2, <2>1, <2>2, <2>3, <2>4, <2>5 DEF AloneInv, vars
<1> QED BY <1>1, <1>2

\* It holds in every state of every behaviour.
LEMMA WorkInvariant == Spec => []WorkInv
BY WorkInvInit, WorkInvStep, OnceInvariant, PTL DEF Spec

\* Until the board is restarted, an archived card has no active run, and with one request
\* in its handler at a time a card of Claude that waits in todo has none either: a run is
\* stopped before its card goes back to todo (stopTask, reworkTask), and the version of
\* the card refuses what a start or a continuation overtook.
THEOREM ParkedIsIdleHolds == Spec => []ParkedIsIdle
<1>1. WorkInv => ParkedIsIdle
  <2> SUFFICES ASSUME WorkInv, restarts = 0
               PROVE  /\ ArchivedIsQuiet
                      /\ Claude /\ setup.requests < 2 /\ "todo" \notin HandMoves => TodoIsIdle
    BY DEF ParkedIsIdle, TodoIsIdle
  <2>1. ArchivedIsQuiet
    BY DEF WorkInv, OnceInv, ClaudeInv, RowsInv, UpRows
  <2> QED BY <2>1 DEF WorkInv, Calm, NoStopFailsBeforeAnother, AloneInv
<1> QED BY <1>1, WorkInvariant, PTL

\* Until the board is restarted, an active run of Claude that no code is about to change
\* has its session at work: each answer, update and stop either ends the run or leaves it
\* with a turn the poller follows, whatever queue, steer or stop comes in between, with one
\* request in its handler at a time and interrupts that are confirmed.
THEOREM LiveRunsWorkHolds == Spec => []LiveRunsWork
<1>1. WorkInv => LiveRunsWork
  <2> SUFFICES ASSUME WorkInv, Claude, restarts = 0, setup.requests < 2, ~setup.stopMayFail,
                      NEW r \in Runs, Active(r), ~JobOf(r)
               PROVE  turn[r] \in {"busy", "waiting"}
    BY DEF LiveRunsWork
  <2>1. Works /\ SteerCalls /\ StopHasRequest
    BY DEF WorkInv, Calm, NoStopFailsBeforeAnother, AloneInv, OnceInv, DeliveriesInv, ClaudeInv, RowsInv, UpRows
  <2>2. run[r].status # "stopping"
    BY <2>1 DEF StopHasRequest, JobOf
  <2>3. \A c \in Calls : Opening(c) => CallRun(c) # r
    <3>1. call[<<"continue", r>>] = "none"
      BY DEF JobOf
    <3>2. ASSUME NEW f \in Followups, call[<<"resend", f>>] # "none" PROVE fup[f].run # r
      BY <2>1, <3>2 DEF SteerCalls, JobOf
    <3> QED BY <3>1, <3>2 DEF Opening, CallRun, Calls
  <2> QED BY <2>1, <2>2, <2>3 DEF Works, Working, JobOf, AtWork
<1> QED BY <1>1, WorkInvariant, PTL

=============================================================================
