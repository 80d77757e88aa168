--------------------------- MODULE RunServiceProofs ---------------------------
(***************************************************************************)
(* Theorems about the run service, for any number of cards, runs,          *)
(* follow-ups, requests and restarts, and for both providers: its types,   *)
(* the safety of runs and follow-ups, the ledger it implements, and what   *)
(* is at rest when a run is over.  Each part builds on the invariants of   *)
(* the parts before it.                                                    *)
(***************************************************************************)
EXTENDS RunProperties, SequenceTheorems, TLAPS

-----------------------------------------------------------------------------
(* What the helpers on rows return *)

\* Changing the status of a run, its session or its prompt leaves rows.
LEMMA RunningRows ==
  ASSUME NEW R \in RunRows, NEW r, NEW w \in BOOLEAN
  PROVE  Running(R, r, w) \in RunRows
BY DEF Running, RunRows, RunStatus, ActiveStatus, EndedStatus

\* The run an update or a stop ends is still a row.
LEMMA EndedRows ==
  ASSUME run \in RunRows, NEW r, NEW s \in RunStatus
  PROVE  Ended(r, s) \in RunRows
BY DEF Ended, RunRows

\* A new run of a card is a row.
LEMMA NewRunRows ==
  ASSUME run \in RunRows, NEW r \in Runs, NEW t \in Tasks \cup {NoTask}, NEW s \in Runs \cup {0}
  PROVE  NewRun(r, t, s) \in RunRows
BY DEF NewRun, RunRows, RunStatus, ActiveStatus

\* Cancelling and settling follow-ups leaves rows.
LEMMA CancelRows ==
  ASSUME NEW F \in FollowupRows, NEW t, NEW modes
  PROVE  Cancel(F, t, modes) \in FollowupRows
BY DEF Cancel, FollowupRows

\* An outcome recorded on a follow-up gives a table of follow-ups.
LEMMA SettleRows ==
  ASSUME NEW F \in FollowupRows, NEW f \in Followups, NEW s \in {"sent", "failed", "canceled"}
  PROVE  Settle(F, f, s) \in FollowupRows
BY DEF Settle, FollowupRows

\* A card is moved to a column, or left alone.
LEMMA MovedRows ==
  ASSUME card \in CardRows, NEW t, NEW s \in CardStatus
  PROVE  MoveTo(t, s) \in CardRows /\ MoveFromInProgress(t, s) \in CardRows
BY DEF MoveTo, MoveFromInProgress, CardRows

\* A call begins in one of the states of a call.
LEMMA NewCallState ==
  ASSUME NEW kind, NEW s
  PROVE  NewCall(kind, s) \in {"open", "starting", "aborted"}
BY DEF NewCall

\* Answers leave rows and turns.
LEMMA AnsweredRows ==
  ASSUME NEW R \in RunRows, NEW c, NEW a, turn \in TurnStates
  PROVE  AnsweredRun(R, c, a) \in RunRows /\ AnsweredTurn(c, a) \in TurnStates
<1>1. AnsweredRun(R, c, a) \in RunRows
  BY RunningRows DEF AnsweredRun
<1>2. AnsweredTurn(c, a) \in TurnStates
  BY DEF AnsweredTurn, TurnStates
<1> QED BY <1>1, <1>2

-----------------------------------------------------------------------------
(* Types *)

RowsType == card \in CardRows /\ run \in RunRows /\ fup \in FollowupRows
JobsType ==
  /\ launch \subseteq Runs
  /\ steer \in [Followups -> {"none", "launch", "delivery", "typing", "resend"}]
  /\ chain \in [Runs -> Seq(Updates)]
  /\ finishing \in [Runs -> SUBSET Followups]
RequestsType == req \in [Requests -> Handlers]
BootType ==
  /\ recovery \in [todo : SUBSET Runs, stopping : SUBSET Runs, applying : BOOLEAN]
  /\ restarts \in Nat
SessionsType ==
  /\ call \in CallStates
  /\ held \subseteq Runs \cup {0}
  /\ muted \subseteq Runs \cup {0}
  /\ turn \in TurnStates
  /\ hits \in [Followups -> 0 .. 2]
CoreType == RowsType /\ JobsType /\ RequestsType /\ BootType /\ SessionsType

\* TypeOK, split by the tuples of variables the actions leave alone.
LEMMA TypeParts == TypeOK <=> CoreType /\ fresh \subseteq Requests /\ setup \in Setups
BY DEF TypeOK, CoreType, RowsType, JobsType, RequestsType, BootType, SessionsType

\* A group of variables that does not change keeps its types.
LEMMA SameRows == RowsType /\ UNCHANGED db => RowsType'
BY DEF RowsType, db, CardRows, RunRows, FollowupRows

\* The same for the jobs,
LEMMA SameJobs == JobsType /\ UNCHANGED jobs => JobsType'
BY DEF JobsType, jobs

\* the requests in their handlers,
LEMMA SameRequests == RequestsType /\ UNCHANGED req => RequestsType'
BY DEF RequestsType

\* the recovery,
LEMMA SameBoot == BootType /\ UNCHANGED boot => BootType'
BY DEF BootType, boot

\* and the providers with their sessions.
LEMMA SameSessions == SessionsType /\ UNCHANGED sessions => SessionsType'
BY DEF SessionsType, sessions, CallStates, TurnStates

\* StartTask keeps the types.
LEMMA StartTaskType ==
  ASSUME CoreType, NEW t \in Tasks, StartTask(t) PROVE CoreType'
<1>1. RowsType'
  BY NewRunRows, MovedRows, CancelRows DEF CoreType, RowsType, StartTask, CardStatus
<1>2. JobsType'
  BY DEF CoreType, JobsType, StartTask
<1> QED BY <1>1, <1>2, SameRequests, SameBoot, SameSessions DEF CoreType, StartTask

\* LaunchOk keeps the types.
LEMMA LaunchOkType ==
  ASSUME CoreType, NEW r \in Runs, LaunchOk(r) PROVE CoreType'
<1>1. RowsType'
  BY DEF CoreType, RowsType, LaunchOk, RunRows
<1>2. JobsType'
  BY DEF CoreType, JobsType, LaunchOk
<1>3. SessionsType'
  BY DEF CoreType, SessionsType, LaunchOk, TurnStates
<1> QED BY <1>1, <1>2, <1>3, SameRequests, SameBoot DEF CoreType, LaunchOk

\* LaunchFails keeps the types.
LEMMA LaunchFailsType ==
  ASSUME CoreType, NEW r \in Runs, LaunchFails(r) PROVE CoreType'
<1>1. RowsType'
  BY MovedRows, CancelRows DEF CoreType, RowsType, LaunchFails, FailLaunch, CardStatus, RunRows, RunStatus, EndedStatus
<1>2. JobsType'
  BY DEF CoreType, JobsType, LaunchFails
<1>3. SessionsType'
  BY DEF CoreType, SessionsType, LaunchFails, TurnStates
<1> QED BY <1>1, <1>2, <1>3, SameRequests, SameBoot DEF CoreType, LaunchFails

\* ContinueTask keeps the types.
LEMMA ContinueTaskType ==
  ASSUME CoreType, NEW t \in Tasks, ContinueTask(t) PROVE CoreType'
<1>1. RowsType'
  BY NewRunRows, MovedRows DEF CoreType, RowsType, ContinueTask, CardStatus, OfTask, RunRows
<1>2. call' \in CallStates
  <2>1. PICK last, r \in Runs :
          call' = [call EXCEPT ![<<"continue", r>>] = NewCall("continue", run[last].session)]
    BY DEF ContinueTask, OfTask
  <2>2. NewCall("continue", run[last].session) \in {"open", "starting", "aborted"}
    BY NewCallState
  <2> QED BY <2>1, <2>2 DEF CoreType, SessionsType, CallStates
<1>3. turn' \in TurnStates
  BY DEF CoreType, SessionsType, ContinueTask, TurnStates
<1>4. SessionsType'
  BY <1>2, <1>3 DEF CoreType, SessionsType, ContinueTask
<1> QED BY <1>1, <1>4, SameJobs, SameRequests, SameBoot DEF CoreType, ContinueTask

\* failRunLaunch leaves rows, whatever rows F of follow-ups it is given.
LEMMA FailLaunchRows ==
  ASSUME RowsType, NEW F \in FollowupRows, NEW r, FailLaunch(F, r)
  PROVE  RowsType'
BY MovedRows, CancelRows DEF RowsType, FailLaunch, CardStatus, RunRows, RunStatus, EndedStatus

\* A follow-up saved on a run gives a table of follow-ups.
LEMMA NewFollowupRows ==
  ASSUME RowsType, NEW f \in Followups, NEW r \in Runs, NEW mode \in {"queue", "steer"}
  PROVE  NewFollowup(f, r, mode) \in FollowupRows
BY DEF NewFollowup, RowsType, FollowupRows, RunRows

\* An answer lets Claude follow runs only.
LEMMA AnsweredHeldType ==
  ASSUME RowsType, SessionsType, NEW c \in Calls, NEW a
  PROVE  AnsweredHeld(c, a) \subseteq Runs \cup {0}
BY DEF AnsweredHeld, RowsType, SessionsType, CallRun, Calls, FollowupRows

\* ContinueAnswer keeps the types.
LEMMA ContinueAnswerType ==
  ASSUME CoreType, NEW r \in Runs, NEW a, ContinueAnswer(r, a) PROVE CoreType'
<1> DEFINE c == <<"continue", r>>
<1>1. c \in Calls
  BY DEF Calls
<1>2. RowsType'
  <2>1. CASE FailLaunch(fup, r)
    BY <2>1, FailLaunchRows DEF CoreType, RowsType
  <2>2. CASE ~FailLaunch(fup, r)
    BY <2>2, AnsweredRows, NewFollowupRows DEF CoreType, RowsType, SessionsType, ContinueAnswer
  <2> QED BY <2>1, <2>2
<1>3. SessionsType'
  BY <1>1, AnsweredRows, AnsweredHeldType DEF CoreType, RowsType, SessionsType, ContinueAnswer, CallStates
<1> QED BY <1>2, <1>3, SameJobs, SameRequests, SameBoot DEF CoreType, ContinueAnswer

\* SendFollowup keeps the types.
LEMMA SendFollowupType ==
  ASSUME CoreType, NEW t \in Tasks, NEW mode \in {"queue", "steer"}, SendFollowup(t, mode)
  PROVE  CoreType'
<1>1. RowsType'
  BY NewFollowupRows DEF CoreType, RowsType, SendFollowup, OfTask
<1>2. JobsType'
  BY DEF CoreType, JobsType, SendFollowup
<1> QED BY <1>1, <1>2, SameRequests, SameBoot, SameSessions DEF CoreType, SendFollowup

\* SteerAfterLaunch keeps the types.
LEMMA SteerAfterLaunchType ==
  ASSUME CoreType, NEW f \in Followups, SteerAfterLaunch(f) PROVE CoreType'
<1>1. JobsType'
  BY DEF CoreType, JobsType, SteerAfterLaunch
<1> QED BY <1>1, SameRows, SameRequests, SameBoot, SameSessions DEF CoreType, SteerAfterLaunch

SteersType == steer \in [Followups -> {"none", "launch", "delivery", "typing", "resend"}]

\* A steer becomes a queued follow-up: the rows, its job and its call keep their types.
LEMMA ConvertSteerType ==
  ASSUME CoreType, NEW f \in Followups, NEW code \in {"NOT_DELIVERED", "WAITING_PERMISSION"},
         NEW R \in RunRows, NEW T \in TurnStates, NEW K \in CallStates,
         fup[f].status # "none", ConvertSteer(f, code, R, T, K)
  PROVE  RowsType' /\ SteersType' /\ call' \in CallStates /\ turn' \in TurnStates
<1>1. SteersType'
  BY DEF CoreType, JobsType, SteersType, ConvertSteer
<1>2. call' \in CallStates /\ turn' \in TurnStates
  BY NewCallState DEF CallStates, TurnStates, ConvertSteer
<1>3. fup' \in FollowupRows
  BY DEF CoreType, RowsType, FollowupRows, ConvertSteer, Queued
<1>4. card' \in CardRows
  BY MovedRows DEF CoreType, RowsType, ConvertSteer, CardStatus
<1>5. run' \in RunRows
  <2>1. CASE run' = R
    BY <2>1
  <2>2. ASSUME NEW n \in Runs, IsLatest(fup[f].run, fup[f].task),
               run' = NewRun(n, fup[f].task, run[fup[f].run].session)
        PROVE  run' \in RunRows
    <3>1. fup[f].task \in Tasks \cup {NoTask} /\ run[fup[f].run].session \in Runs \cup {0}
      BY <2>2 DEF CoreType, RowsType, FollowupRows, RunRows, IsLatest, OfTask
    <3> QED BY <2>2, <3>1, NewRunRows DEF CoreType, RowsType
  <2> QED BY <2>1, <2>2 DEF ConvertSteer, CanContinueWith
<1> QED BY <1>1, <1>2, <1>3, <1>4, <1>5 DEF RowsType

\* SteerSend keeps the types.
LEMMA SteerSendType ==
  ASSUME CoreType, NEW f \in Followups, SteerSend(f) PROVE CoreType'
<1> DEFINE ready == run[fup[f].run].status \in {"starting", "running"} /\ ~run[fup[f].run].waiting
           code == IF run[fup[f].run].status \in {"starting", "running"}
                     THEN "WAITING_PERMISSION" ELSE "NOT_DELIVERED"
<1>1. RowsType' /\ SteersType' /\ call' \in CallStates /\ turn' \in TurnStates
  <2>1. CASE ready
    <3>1. call' \in CallStates
      BY <2>1 DEF CoreType, SessionsType, CallStates, SteerSend
    <3>2. SteersType'
      BY <2>1 DEF CoreType, JobsType, SteersType, SteerSend
    <3>3. RowsType' /\ turn' \in TurnStates
      BY <2>1, SameRows DEF CoreType, SessionsType, SteerSend, TurnStates
    <3> QED BY <3>1, <3>2, <3>3
  <2>2. CASE ~ready /\ fup[f].status = "pending"
    <3>1. code \in {"NOT_DELIVERED", "WAITING_PERMISSION"}
      OBVIOUS
    <3>2. ConvertSteer(f, code, run, turn, call)
      BY <2>2 DEF SteerSend
    <3> HIDE DEF code
    <3> QED BY <2>2, <3>1, <3>2, ConvertSteerType DEF CoreType, RowsType, SessionsType
  <2>3. CASE ~ready /\ fup[f].status # "pending"
    <3>1. SteersType'
      BY <2>3 DEF CoreType, JobsType, SteersType, SteerSend
    <3>2. RowsType' /\ call' \in CallStates /\ turn' \in TurnStates
      BY <2>3, SameRows DEF CoreType, SessionsType, SteerSend, TurnStates, CallStates
    <3> QED BY <3>1, <3>2
  <2> QED BY <2>1, <2>2, <2>3
<1>2. JobsType' /\ SessionsType'
  BY <1>1 DEF CoreType, JobsType, SessionsType, SteersType, SteerSend
<1> QED BY <1>1, <1>2, SameRequests, SameBoot DEF CoreType, SteerSend

\* SteerAnswer keeps the types.
LEMMA SteerAnswerType ==
  ASSUME CoreType, NEW f \in Followups, NEW a, SteerAnswer(f, a) PROVE CoreType'
<1> DEFINE c == <<"steer", f>>
           closed == [call EXCEPT ![c] = "none"]
           code == IF a = "waiting" THEN "WAITING_PERMISSION" ELSE "NOT_DELIVERED"
<1>1. c \in Calls
  BY DEF Calls
<1>2. closed \in CallStates
  BY DEF CoreType, SessionsType, CallStates
<1>3. AnsweredRun(run, c, a) \in RunRows /\ AnsweredTurn(c, a) \in TurnStates
  BY AnsweredRows DEF CoreType, RowsType, SessionsType
<1>4. RowsType' /\ SteersType' /\ call' \in CallStates /\ turn' \in TurnStates
  <2>1. CASE fup[f].status = "pending" /\ ~Delivered(a)
    <3>1. code \in {"NOT_DELIVERED", "WAITING_PERMISSION"}
      OBVIOUS
    <3>2. ConvertSteer(f, code, AnsweredRun(run, c, a), AnsweredTurn(c, a), closed)
      BY <2>1 DEF SteerAnswer
    <3> HIDE DEF c, closed, code
    <3> QED BY <1>2, <1>3, <2>1, <3>1, <3>2, ConvertSteerType
  <2>2. CASE ~(fup[f].status = "pending" /\ ~Delivered(a))
    <3>1. RowsType'
      BY <1>3, <2>2, SettleRows DEF CoreType, RowsType, SteerAnswer
    <3>2. SteersType'
      BY <2>2 DEF CoreType, JobsType, SteersType, SteerAnswer
    <3>3. call' \in CallStates /\ turn' \in TurnStates
      BY <1>2, <1>3, <2>2 DEF SteerAnswer
    <3> QED BY <3>1, <3>2, <3>3
  <2> QED BY <2>1, <2>2
<1>5. held' \subseteq Runs \cup {0}
  BY <1>1, AnsweredHeldType DEF CoreType, SteerAnswer
<1>6. JobsType' /\ SessionsType'
  BY <1>4, <1>5 DEF CoreType, JobsType, SessionsType, SteersType, SteerAnswer
<1> QED BY <1>4, <1>6, SameRequests, SameBoot DEF CoreType, SteerAnswer

\* ResendAnswer keeps the types.
LEMMA ResendAnswerType ==
  ASSUME CoreType, NEW f \in Followups, NEW a, ResendAnswer(f, a) PROVE CoreType'
<1> DEFINE c == <<"resend", f>>
<1>1. c \in Calls
  BY DEF Calls
<1>2. AnsweredRun(run, c, a) \in RunRows /\ AnsweredTurn(c, a) \in TurnStates
  BY AnsweredRows DEF CoreType, RowsType, SessionsType
<1>3. RowsType'
  <2>1. CASE FailLaunch(Settle(fup, f, "failed"), fup[f].run)
    BY <2>1, FailLaunchRows, SettleRows DEF CoreType, RowsType
  <2>2. CASE ~FailLaunch(Settle(fup, f, "failed"), fup[f].run)
    <3>1. fup' \in FollowupRows
      BY <2>2, SettleRows DEF CoreType, RowsType, ResendAnswer
    <3>2. card' \in CardRows
      BY <2>2, MovedRows DEF CoreType, RowsType, ResendAnswer, CardStatus
    <3>3. run' \in RunRows
      BY <1>2, <2>2 DEF CoreType, RowsType, RunRows, RunStatus, EndedStatus, ResendAnswer
    <3> QED BY <3>1, <3>2, <3>3 DEF RowsType
  <2> QED BY <2>1, <2>2
<1>4. JobsType'
  BY DEF CoreType, JobsType, ResendAnswer
<1>5. SessionsType'
  BY <1>1, <1>2, AnsweredHeldType DEF CoreType, SessionsType, CallStates, ResendAnswer
<1> QED BY <1>3, <1>4, <1>5, SameRequests, SameBoot DEF CoreType, ResendAnswer
\* Taking the first update off a chain leaves a chain, and that update was one.
LEMMA AppliedType ==
  ASSUME JobsType, NEW r \in Runs, chain[r] # <<>>
  PROVE  /\ Head(chain[r]) \in Updates
         /\ Applied(r) => chain' \in [Runs -> Seq(Updates)]
<1>1. chain[r] \in Seq(Updates)
  BY DEF JobsType
<1>2. Head(chain[r]) \in Updates /\ Tail(chain[r]) \in Seq(Updates)
  BY <1>1
<1> QED BY <1>2 DEF JobsType, Applied

\* Putting an update at the end of chains leaves chains that are not empty.
LEMMA AppendedType ==
  ASSUME JobsType, NEW r \in Runs, NEW s \in EndedStatus, NEW startup \in BOOLEAN
  PROVE  /\ Append(chain[r], Update(s, startup)) \in Seq(Updates)
         /\ Append(chain[r], Update(s, startup)) # <<>>
<1>1. chain[r] \in Seq(Updates)
  BY DEF JobsType
<1>2. Update(s, startup) \in Updates
  BY DEF Update, Updates
<1> QED BY <1>1, <1>2, AppendProperties

\* Finishing a run gives a table of runs and a table of cards.
LEMMA FinishRunRows ==
  ASSUME RowsType, NEW R \in RunRows, NEW r, FinishRun(R, r)
  PROVE  card' \in CardRows /\ run' \in RunRows
BY MovedRows DEF RowsType, FinishRun, CardStatus, RunRows, RunStatus, EndedStatus

\* ApplyToEnded keeps the types.
LEMMA ApplyToEndedType ==
  ASSUME CoreType, NEW r \in Runs, ApplyToEnded(r) PROVE CoreType'
<1>1. JobsType'
  BY AppliedType DEF CoreType, JobsType, ApplyToEnded
<1> QED BY <1>1, SameRows, SameRequests, SameBoot, SameSessions DEF CoreType, ApplyToEnded

\* ApplyFinished keeps the types.
LEMMA ApplyFinishedType ==
  ASSUME CoreType, NEW r \in Runs, ApplyFinished(r) PROVE CoreType'
<1>1. JobsType'
  BY AppliedType DEF CoreType, JobsType, ApplyFinished
<1>2. Ended(r, "stopped") \in RunRows /\ Ended(r, "finished") \in RunRows
  BY EndedRows DEF CoreType, RowsType, RunStatus, EndedStatus
<1>3. RowsType'
  BY <1>2, FinishRunRows DEF CoreType, RowsType, ApplyFinished
<1> QED BY <1>1, <1>3, SameRequests, SameBoot, SameSessions DEF CoreType, ApplyFinished

\* ApplyFinishedSends keeps the types.
LEMMA ApplyFinishedSendsType ==
  ASSUME CoreType, NEW r \in Runs, ApplyFinishedSends(r) PROVE CoreType'
<1>1. JobsType'
  BY DEF CoreType, JobsType, ApplyFinishedSends, PendingQueue
<1>2. RowsType'
  BY EndedRows DEF CoreType, RowsType, ApplyFinishedSends, RunStatus, ActiveStatus
<1>3. SessionsType'
  BY NewCallState DEF CoreType, SessionsType, ApplyFinishedSends, CallStates
<1> QED BY <1>1, <1>2, <1>3, SameRequests, SameBoot DEF CoreType, ApplyFinishedSends

\* While a finished update sends its queue it is still the head of its chain.
Sending == \A r \in Runs : call[<<"queue", r>>] # "none" => finishing[r] # {} /\ chain[r] # <<>>

\* The answer to a queued follow-up has an update to apply, so its chain stays a
\* sequence (Sending).
LEMMA QueueAnswerType ==
  ASSUME CoreType, Sending, NEW r \in Runs, NEW f \in Followups, NEW a, QueueAnswer(r, f, a)
  PROVE  CoreType'
<1> DEFINE c == <<"queue", r>>
<1>1. c \in Calls
  BY DEF Calls
<1>2. AnsweredRun(run, c, a) \in RunRows /\ AnsweredTurn(c, a) \in TurnStates
  BY AnsweredRows DEF CoreType, RowsType, SessionsType
<1>3. card' \in CardRows /\ run' \in RunRows
  BY <1>2, FinishRunRows DEF CoreType, RowsType, QueueAnswer
<1>4. fup' \in FollowupRows
  <2>1. \A s \in {"sent", "failed"} : [fup EXCEPT ![f].status = s, ![f].run = r] \in FollowupRows
    BY DEF CoreType, RowsType, FollowupRows
  <2> QED BY <2>1 DEF CoreType, RowsType, QueueAnswer
<1>5. finishing' \in [Runs -> SUBSET Followups]
  BY DEF CoreType, JobsType, QueueAnswer
<1>6. chain' \in [Runs -> Seq(Updates)]
  <2>1. UNCHANGED chain \/ (chain[r] # <<>> /\ Applied(r))
    BY DEF Sending, QueueAnswer
  <2> QED BY <2>1, AppliedType DEF CoreType, JobsType
<1>7. call' \in CallStates
  BY NewCallState DEF CoreType, SessionsType, CallStates, QueueAnswer
<1>8. JobsType'
  BY <1>5, <1>6 DEF CoreType, JobsType, QueueAnswer
<1>9. SessionsType'
  BY <1>1, <1>2, <1>7, AnsweredHeldType DEF CoreType, SessionsType, QueueAnswer
<1> QED BY <1>3, <1>4, <1>8, <1>9, SameRequests, SameBoot DEF CoreType, RowsType, QueueAnswer

\* ApplyStopped keeps the types.
LEMMA ApplyStoppedType ==
  ASSUME CoreType, NEW r \in Runs, ApplyStopped(r) PROVE CoreType'
<1>1. JobsType'
  BY AppliedType DEF CoreType, JobsType, ApplyStopped
<1>2. RowsType'
  BY EndedRows, CancelRows DEF CoreType, RowsType, ApplyStopped, RunStatus, EndedStatus
<1> QED BY <1>1, <1>2, SameRequests, SameBoot, SameSessions DEF CoreType, ApplyStopped

\* ApplyFailure keeps the types.
LEMMA ApplyFailureType ==
  ASSUME CoreType, NEW r \in Runs, ApplyFailure(r) PROVE CoreType'
<1>1. JobsType'
  BY AppliedType DEF CoreType, JobsType, ApplyFailure
<1>2. RowsType'
  BY CancelRows, MovedRows DEF CoreType, RowsType, ApplyFailure, RunRows, RunStatus, EndedStatus, CardStatus
<1> QED BY <1>1, <1>2, SameRequests, SameBoot, SameSessions DEF CoreType, ApplyFailure
\* A move that waits in its handler names a column.
Moving == \A q \in Requests : req[q].kind = "move" => req[q].dest # NoMove

\* The updates of requests: what Waiting, At and Reply make of them.
LEMMA RequestSteps ==
  ASSUME RequestsType, NEW q \in Requests
  PROVE  /\ Reply(q) => RequestsType'
         /\ \A pc \in {"apply", "closing", "stopped"} : At(q, pc) => RequestsType'
         /\ \A t \in Tasks, r \in Runs, kind \in {"stop", "move", "archive"},
               dest \in CardStatus \cup {NoMove} :
               Waiting(q, t, r, kind, dest) => RequestsType'
<1>1. Reply(q) => RequestsType'
  <2>1. IdleRequest \in Handlers
    BY DEF IdleRequest, Handlers
  <2> QED BY <2>1 DEF RequestsType, Reply
<1>2. ASSUME NEW pc \in {"apply", "closing", "stopped"}, At(q, pc) PROVE RequestsType'
  BY <1>2 DEF RequestsType, Handlers, At
<1>3. ASSUME NEW t \in Tasks, NEW r \in Runs, NEW kind \in {"stop", "move", "archive"},
             NEW dest \in CardStatus \cup {NoMove}, Waiting(q, t, r, kind, dest)
      PROVE  RequestsType'
  <2>1. [IdleRequest EXCEPT !.pc = "launch", !.kind = kind, !.task = t, !.run = r, !.dest = dest]
          \in Handlers
    BY DEF IdleRequest, Handlers
  <2> QED BY <1>3, <2>1 DEF RequestsType, Waiting
<1> QED BY <1>1, <1>2, <1>3

\* A stop that was answered waits for the delivery, with its answer.
LEMMA AnsweredHandlers ==
  ASSUME NEW H \in [Requests -> Handlers], NEW q \in Requests, NEW ok \in BOOLEAN
  PROVE  [H EXCEPT ![q].pc = "delivery", ![q].ok = ok] \in [Requests -> Handlers]
<1> DEFINE h == [H[q] EXCEPT !.pc = "delivery", !.ok = ok]
<1>1. h \in Handlers
  BY DEF Handlers
<1>2. [H EXCEPT ![q].pc = "delivery", ![q].ok = ok] = [H EXCEPT ![q] = h]
  OBVIOUS
<1> HIDE DEF h
<1> QED BY <1>1, <1>2

\* StopRequest keeps the types.
LEMMA StopRequestType ==
  ASSUME CoreType, NEW q \in Requests, NEW t \in Tasks, NEW kind \in {"stop", "move", "archive"},
         NEW dest \in CardStatus \cup {NoMove}, StopRequest(q, t, kind, dest)
  PROVE  CoreType'
<1>1. RequestsType'
  BY RequestSteps DEF CoreType, StopRequest, OfTask
<1> QED BY <1>1, SameRows, SameJobs, SameBoot, SameSessions DEF CoreType, StopRequest

\* StopIdleTask keeps the types.
LEMMA StopIdleTaskType ==
  ASSUME CoreType, NEW t \in Tasks, NEW dest \in Destinations, StopIdleTask(t, dest)
  PROVE  CoreType'
<1>1. dest \in CardStatus
  BY ColumnsAssumption DEF StopIdleTask, CardStatus
<1>2. RowsType'
  BY <1>1, MovedRows DEF CoreType, RowsType, StopIdleTask
<1> QED BY <1>2, SameJobs, SameRequests, SameBoot, SameSessions DEF CoreType, StopIdleTask

\* StopSignals keeps the types.
LEMMA StopSignalsType ==
  ASSUME CoreType, NEW q \in Requests, StopSignals(q) PROVE CoreType'
<1>1. RowsType'
  BY DEF CoreType, RowsType, RunRows, RunStatus, ActiveStatus, StopSignals
<1>2. RequestsType'
  <2>1. CASE Active(req[q].run)
    <3>1. ResumeStatus(req[q].run) \in {"starting", "running"}
      BY <2>1 DEF ResumeStatus, Active, ActiveStatus
    <3>2. StopAtOnce(req[q].run) \subseteq BOOLEAN
      BY DEF StopAtOnce
    <3> DEFINE asked == [req EXCEPT ![q].pc = "stopping", ![q].resume = ResumeStatus(req[q].run)]
    <3>3. asked \in [Requests -> Handlers]
      <4>1. req \in [Requests -> Handlers]
        BY DEF CoreType, RequestsType
      <4>2. [req[q] EXCEPT !.pc = "stopping", !.resume = ResumeStatus(req[q].run)] \in Handlers
        BY <3>1, <4>1 DEF Handlers
      <4>3. asked = [req EXCEPT ![q] = [req[q] EXCEPT !.pc = "stopping",
                                                     !.resume = ResumeStatus(req[q].run)]]
        BY <4>1 DEF Handlers
      <4> HIDE DEF asked
      <4> QED BY <4>1, <4>2, <4>3
    <3>4. \A ok \in BOOLEAN :
            [asked EXCEPT ![q].pc = "delivery", ![q].ok = ok] \in [Requests -> Handlers]
      <4> HIDE DEF asked
      <4> QED BY <3>3, AnsweredHandlers
    <3>5. \/ req' = asked
          \/ \E ok \in BOOLEAN : req' = [asked EXCEPT ![q].pc = "delivery", ![q].ok = ok]
      BY <2>1, <3>2 DEF StopSignals
    <3> QED
      <4> HIDE DEF asked
      <4> QED BY <3>3, <3>4, <3>5 DEF RequestsType
  <2>2. CASE ~Active(req[q].run)
    BY <2>2, RequestSteps DEF CoreType, StopSignals
  <2> QED BY <2>1, <2>2
<1>3. SessionsType'
  <2>1. call' \in CallStates
    BY DEF CoreType, SessionsType, CallStates, StopSignals, CalledOff
  <2>2. muted' \subseteq Runs \cup {0}
    BY DEF CoreType, SessionsType, RequestsType, Handlers, StopSignals
  <2> QED BY <2>1, <2>2 DEF CoreType, SessionsType, TurnStates, StopSignals
<1> QED BY <1>1, <1>2, <1>3, SameJobs, SameBoot DEF CoreType, StopSignals

\* StopAnswer keeps the types.
LEMMA StopAnswerType ==
  ASSUME CoreType, NEW q \in Requests, NEW ok \in BOOLEAN, StopAnswer(q, ok) PROVE CoreType'
<1>1. RequestsType'
  BY AnsweredHandlers DEF CoreType, RequestsType, StopAnswer
<1>2. SessionsType'
  BY DEF CoreType, SessionsType, TurnStates, StopAnswer
<1> QED BY <1>1, <1>2, SameRows, SameJobs, SameBoot DEF CoreType, StopAnswer

\* StopSettles keeps the types.
LEMMA StopSettlesType ==
  ASSUME CoreType, NEW q \in Requests, StopSettles(q) PROVE CoreType'
<1>1. RequestsType'
  BY RequestSteps DEF CoreType, StopSettles
<1>2. req[q].resume \in RunStatus
  BY DEF CoreType, RequestsType, Handlers, RunStatus, ActiveStatus
<1>3. run' \in RunRows
  BY <1>2, EndedRows DEF CoreType, RowsType, RunRows, RunStatus, EndedStatus, StopSettles
<1>4. RowsType'
  BY <1>3 DEF CoreType, RowsType, StopSettles
<1> QED BY <1>1, <1>4, SameJobs, SameBoot, SameSessions DEF CoreType, StopSettles

\* StopReturns keeps the types.
LEMMA StopReturnsType ==
  ASSUME CoreType, NEW q \in Requests, StopReturns(q) PROVE CoreType'
<1>1. RequestsType'
  BY RequestSteps DEF CoreType, StopReturns
<1>2. card' \in CardRows
  BY MovedRows DEF CoreType, RowsType, RequestsType, Handlers, StopReturns
<1>3. RowsType'
  BY <1>2, CancelRows DEF CoreType, RowsType, StopReturns
<1> QED BY <1>1, <1>3, SameJobs, SameBoot, SameSessions DEF CoreType, StopReturns

\* ArchiveRequest keeps the types.
LEMMA ArchiveRequestType ==
  ASSUME CoreType, NEW q \in Requests, NEW t \in Tasks, ArchiveRequest(q, t) PROVE CoreType'
<1>1. RequestsType'
  BY DEF CoreType, RequestsType, Handlers, IdleRequest, ArchiveRequest
<1>2. RowsType'
  BY CancelRows DEF CoreType, RowsType, ArchiveRequest
<1> QED BY <1>1, <1>2, SameJobs, SameBoot, SameSessions DEF CoreType, ArchiveRequest

\* CloseSessions keeps the types.
LEMMA CloseSessionsType ==
  ASSUME CoreType, NEW q \in Requests, CloseSessions(q) PROVE CoreType'
<1>1. RequestsType'
  BY RequestSteps DEF CoreType, CloseSessions
<1>2. SessionsType'
  BY DEF CoreType, SessionsType, TurnStates, CloseSessions
<1> QED BY <1>1, <1>2, SameRows, SameJobs, SameBoot DEF CoreType, CloseSessions

\* A move that is applied has a destination (Moving), so the card gets a column.
LEMMA ApplyRequestType ==
  ASSUME CoreType, Moving, NEW q \in Requests, ApplyRequest(q) PROVE CoreType'
<1>1. RequestsType'
  BY RequestSteps DEF CoreType, ApplyRequest
<1>2. card' \in CardRows
  <2>1. req[q].kind = "move" => MoveTo(req[q].task, req[q].dest) \in CardRows
    BY MovedRows DEF CoreType, RowsType, RequestsType, Handlers, Moving
  <2>2. [card EXCEPT ![req[q].task].archived = TRUE] \in CardRows
    BY DEF CoreType, RowsType, CardRows
  <2> QED BY <2>1, <2>2 DEF CoreType, RowsType, ApplyRequest
<1>3. RowsType'
  BY <1>2 DEF CoreType, RowsType, ApplyRequest
<1> QED BY <1>1, <1>3, SameJobs, SameBoot, SameSessions DEF CoreType, ApplyRequest

\* HandMove keeps the types.
LEMMA HandMoveType ==
  ASSUME CoreType, NEW t \in Tasks, NEW s \in HandMoves, HandMove(t, s) PROVE CoreType'
<1>1. RowsType'
  BY MovedRows, ColumnsAssumption DEF CoreType, RowsType, HandMove
<1> QED BY <1>1, SameJobs, SameRequests, SameBoot, SameSessions DEF CoreType, HandMove

\* Rework, restore and the archive of an unstarted card keep the types.
LEMMA OtherCardsType ==
  ASSUME CoreType, NEW t \in Tasks, ReworkTask(t) \/ RestoreTask(t) \/ ArchiveUnstarted(t)
  PROVE  CoreType'
<1>1. card' \in CardRows
  <2>1. CASE ReworkTask(t)
    BY <2>1, MovedRows DEF CoreType, RowsType, CardStatus, ReworkTask
  <2>2. CASE RestoreTask(t) \/ ArchiveUnstarted(t)
    BY <2>2 DEF CoreType, RowsType, CardRows, RestoreTask, ArchiveUnstarted
  <2> QED BY <2>1, <2>2
<1>2. RowsType'
  BY <1>1 DEF CoreType, RowsType, ReworkTask, RestoreTask, ArchiveUnstarted
<1> QED BY <1>2, SameJobs, SameRequests, SameBoot, SameSessions
        DEF CoreType, ReworkTask, RestoreTask, ArchiveUnstarted

\* Restart keeps the types.
LEMMA RestartType ==
  ASSUME CoreType, Restart PROVE CoreType'
<1>1. RowsType'
  BY DEF CoreType, RowsType, FollowupRows, InterruptedSteers, Restart
<1>2. JobsType'
  BY DEF JobsType, Restart
<1>3. RequestsType'
  <2>1. IdleRequest \in Handlers
    BY DEF IdleRequest, Handlers
  <2> QED BY <2>1 DEF RequestsType, Restart
<1>4. BootType'
  <2>1. restarts' \in Nat
    BY BoundsAssumption DEF CoreType, BootType, Restart
  <2>2. recovery' \in [todo : SUBSET Runs, stopping : SUBSET Runs, applying : BOOLEAN]
    BY DEF Restart
  <2> QED BY <2>1, <2>2 DEF BootType
<1>5. SessionsType'
  BY DEF CoreType, SessionsType, NoCalls, CallStates, TurnStates, Restart
<1> QED BY <1>1, <1>2, <1>3, <1>4, <1>5 DEF CoreType

\* Recover keeps the types.
LEMMA RecoverType ==
  ASSUME CoreType, NEW r \in Runs, NEW s \in {"running", "finished", "interrupted"}, Recover(r, s)
  PROVE  CoreType'
<1>1. Resumed(r) \in RunRows
  BY DEF CoreType, RowsType, RunRows, Resumed, RunStatus, ActiveStatus
<1>2. SessionOf(r) \in Runs \cup {0}
  BY DEF CoreType, RowsType, RunRows, SessionOf
<1>3. [Resumed(r) EXCEPT ![r].session = SessionOf(r)] \in RunRows
  BY <1>1, <1>2 DEF RunRows
<1>4. RowsType'
  BY <1>1, <1>3, RunningRows DEF CoreType, RowsType, Recover
<1>5. JobsType'
  <2>1. s # "running" => Append(chain[r], Update(s, TRUE)) \in Seq(Updates)
    BY AppendedType DEF CoreType, EndedStatus
  <2>2. \/ chain' = chain
        \/ s \in {"finished", "interrupted"}
           /\ chain' = [chain EXCEPT ![r] = Append(@, Update(s, TRUE))]
    BY Zenon DEF Recover
  <2>3. JobsType /\ chain' \in [Runs -> Seq(Updates)]
    BY <2>1, <2>2 DEF CoreType, JobsType
  <2> QED BY <2>3 DEF JobsType, Recover
<1>6. BootType'
  BY DEF CoreType, BootType, Recover, Skip
<1>7. SessionsType'
  BY DEF CoreType, SessionsType, Recover
<1> QED BY <1>4, <1>5, <1>6, <1>7, SameRequests DEF CoreType, Recover

\* RecoverNext keeps the types.
LEMMA RecoverNextType ==
  ASSUME CoreType, NEW r \in Runs, RecoverNext(r) PROVE CoreType'
<1>1. BootType'
  BY DEF CoreType, BootType, RecoverNext, Skip
<1> QED BY <1>1, SameRows, SameJobs, SameRequests, SameSessions DEF CoreType, RecoverNext

\* A steer with a job, or on its way to a session, was given to a run.
Owned ==
  \A f \in Followups :
    steer[f] # "none" \/ call[<<"steer", f>>] # "none" \/ call[<<"resend", f>>] # "none"
      => fup[f].run \in Runs

\* A call in flight belongs to a run: the index of every run that is read exists.
LEMMA CallsHaveRuns ==
  ASSUME Owned, NEW c \in Calls, call[c] # "none" PROVE CallRun(c) \in Runs
<1>1. CASE c \in {"continue", "queue"} \X Runs
  BY <1>1 DEF CallRun
<1>2. CASE c \in {"steer", "resend"} \X Followups
  <2>1. PICK k \in {"steer", "resend"}, f \in Followups : c = <<k, f>>
    BY <1>2
  <2>2. c = <<"steer", f>> \/ c = <<"resend", f>>
    BY <2>1
  <2>3. fup[f].run \in Runs
    BY <2>2 DEF Owned
  <2> QED BY <2>1, <2>3 DEF CallRun
<1> QED BY <1>1, <1>2 DEF Calls

\* Resume keeps the types.
LEMMA ResumeType ==
  ASSUME CoreType, Owned, NEW c \in Calls, Resume(c) PROVE CoreType'
<1>1. run[CallRun(c)].session \in Runs \cup {0}
  BY CallsHaveRuns DEF CoreType, RowsType, RunRows, Resume
<1>2. SessionsType'
  BY <1>1 DEF CoreType, SessionsType, CallStates, Resume
<1> QED BY <1>2, SameRows, SameJobs, SameRequests, SameBoot DEF CoreType, Resume

\* The count of a follow-up's arrivals stays within its bound.
LEMMA HitType ==
  ASSUME SessionsType, NEW c PROVE Hit(c) \in [Followups -> 0 .. 2]
<1>1. ASSUME NEW f PROVE [hits EXCEPT ![f] = IF @ = 0 THEN 1 ELSE 2] \in [Followups -> 0 .. 2]
  <2>1. 1 \in 0 .. 2 /\ 2 \in 0 .. 2
    OBVIOUS
  <2>2. (IF hits[f] = 0 THEN 1 ELSE 2) \in 0 .. 2
    BY <2>1
  <2> QED BY <2>2 DEF SessionsType
<1> QED BY <1>1 DEF SessionsType, Hit

\* Typed keeps the types.
LEMMA TypedType ==
  ASSUME CoreType, NEW c \in Calls, Typed(c) PROVE CoreType'
<1>1. SessionsType'
  BY HitType DEF CoreType, SessionsType, CallStates, Typed
<1> QED BY <1>1, SameRows, SameJobs, SameRequests, SameBoot DEF CoreType, Typed

\* TurnTakes keeps the types.
LEMMA TurnTakesType ==
  ASSUME CoreType, NEW c \in Calls, TurnTakes(c) PROVE CoreType'
<1>1. SessionsType'
  BY HitType DEF CoreType, SessionsType, CallStates, TurnStates, TurnTakes
<1>2. RowsType'
  BY RunningRows DEF CoreType, RowsType, TurnTakes
<1> QED BY <1>1, <1>2, SameJobs, SameRequests, SameBoot DEF CoreType, TurnTakes

\* TurnRuns keeps the types.
LEMMA TurnRunsType ==
  ASSUME CoreType, NEW r \in Runs, TurnRuns(r) PROVE CoreType'
<1>1. SessionsType'
  BY DEF CoreType, SessionsType, TurnStates, TurnRuns
<1>2. [run EXCEPT ![r].session = r] \in RunRows
  BY DEF CoreType, RowsType, RunRows
<1>3. RowsType'
  BY <1>2, RunningRows DEF CoreType, RowsType, TurnRuns
<1> QED BY <1>1, <1>3, SameJobs, SameRequests, SameBoot DEF CoreType, TurnRuns

\* TurnWaits keeps the types.
LEMMA TurnWaitsType ==
  ASSUME CoreType, NEW r \in Runs, TurnWaits(r) PROVE CoreType'
<1>1. SessionsType'
  BY DEF CoreType, SessionsType, TurnStates, TurnWaits
<1>2. RowsType'
  BY RunningRows DEF CoreType, RowsType, TurnWaits
<1> QED BY <1>1, <1>2, SameJobs, SameRequests, SameBoot DEF CoreType, TurnWaits

\* TurnEnds keeps the types.
LEMMA TurnEndsType ==
  ASSUME CoreType, NEW r \in Runs, NEW s \in EndedStatus, TurnEnds(r, s) PROVE CoreType'
<1>1. SessionsType'
  BY DEF CoreType, SessionsType, TurnStates, TurnEnds
<1>2. JobsType'
  BY AppendedType DEF CoreType, JobsType, TurnEnds
<1> QED BY <1>1, <1>2, SameRows, SameRequests, SameBoot DEF CoreType, TurnEnds

\* TurnEndsUnseen keeps the types.
LEMMA TurnEndsUnseenType ==
  ASSUME CoreType, NEW r \in Runs, TurnEndsUnseen(r) PROVE CoreType'
<1>1. SessionsType'
  BY DEF CoreType, SessionsType, TurnStates, TurnEndsUnseen
<1> QED BY <1>1, SameRows, SameJobs, SameRequests, SameBoot DEF CoreType, TurnEndsUnseen

\* AppServerTerminates keeps the types.
LEMMA AppServerTerminatesType ==
  ASSUME CoreType, AppServerTerminates PROVE CoreType'
<1>1. SessionsType'
  BY DEF CoreType, SessionsType, TurnStates, CallStates, AppServerTerminates
<1>2. \A r \in Runs : Append(chain[r], Update("interrupted", FALSE)) \in Seq(Updates)
  BY AppendedType DEF CoreType, EndedStatus
<1>3. JobsType'
  BY <1>2 DEF CoreType, JobsType, AppServerTerminates
<1> QED BY <1>1, <1>3, SameRows, SameRequests, SameBoot DEF CoreType, AppServerTerminates
-----------------------------------------------------------------------------
(* The actions of a step, by what they may change *)

\* Answers and updates of a run
RunStep(r) ==
  \/ LaunchOk(r) \/ LaunchFails(r)
  \/ ApplyToEnded(r) \/ ApplyFinished(r) \/ ApplyFinishedSends(r)
  \/ ApplyStopped(r) \/ ApplyFailure(r) \/ RecoverNext(r)
  \/ TurnRuns(r) \/ TurnWaits(r) \/ TurnEndsUnseen(r)
  \/ \E s \in EndedStatus : TurnEnds(r, s)
  \/ \E s \in {"running", "finished", "interrupted"} : Recover(r, s)
  \/ \E a \in AnswerKinds : ContinueAnswer(r, a)
  \/ \E a \in AnswerKinds, f \in Followups : QueueAnswer(r, f, a)

\* The job of a steer
SteerStep(f) ==
  \/ SteerAfterLaunch(f) \/ SteerSend(f)
  \/ \E a \in AnswerKinds : SteerAnswer(f, a) \/ ResendAnswer(f, a)

\* A call of a provider
CallStep(c) == Resume(c) \/ Typed(c) \/ TurnTakes(c)

ProviderStep ==
  \/ \E r \in Runs : RunStep(r)
  \/ \E f \in Followups : SteerStep(f)
  \/ \E c \in Calls : CallStep(c)
  \/ AppServerTerminates

\* Requests that are answered within one segment
BoardStep ==
  \E t \in Tasks :
    \/ StartTask(t) \/ ContinueTask(t)
    \/ \E mode \in {"queue", "steer"} : SendFollowup(t, mode)
    \/ \E dest \in Destinations : StopIdleTask(t, dest)
    \/ \E s \in HandMoves : HandMove(t, s)
    \/ ReworkTask(t) \/ RestoreTask(t) \/ ArchiveUnstarted(t)

\* Requests that wait in their handler
RequestStep ==
  \E q \in Requests :
    \/ \E t \in Tasks, kind \in {"stop", "move", "archive"}, dest \in CardStatus \cup {NoMove} :
         StopRequest(q, t, kind, dest) /\ (kind = "move" => dest # NoMove)
    \/ \E t \in Tasks : ArchiveRequest(q, t)
    \/ StopSignals(q) \/ StopSettles(q) \/ StopReturns(q) \/ ApplyRequest(q)
    \/ CloseSessions(q) \/ \E ok \in BOOLEAN : StopAnswer(q, ok)

\* Every step is a step of a provider or a job, of a request, or a restart.
LEMMA Steps ==
  ASSUME Next
  PROVE  (ProviderStep \/ BoardStep \/ RequestStep \/ Restart) /\ VersionCheck /\ UNCHANGED setup
<1>1. CASE Segment
  BY <1>1 DEF Segment, ProviderStep, RunStep, SteerStep, RequestStep, Next
<1>2. CASE Event
  <2>1. CASE Board
    <3>1. \A dest \in Destinations : dest \in CardStatus \cup {NoMove}
      BY ColumnsAssumption DEF CardStatus
    <3>2. \A dest \in HandMoves : dest \in CardStatus /\ dest # NoMove
      BY ColumnsAssumption DEF CardStatus, NoMove
    <3>3. PICK t \in Tasks : 
            \/ BoardStep
            \/ \E q \in Requests :
                 \/ \E dest \in Destinations : StopRequest(q, t, "stop", dest)
                 \/ \E dest \in HandMoves \ {"in_progress"} : StopRequest(q, t, "move", dest)
                 \/ StopRequest(q, t, "archive", NoMove)
                 \/ ArchiveRequest(q, t)
      BY <2>1 DEF Board, BoardStep
    <3>4. BoardStep \/ RequestStep
      BY <3>1, <3>2, <3>3 DEF RequestStep
    <3> QED BY <3>4 DEF Next
  <2>2. CASE \E c \in Calls : CallAnswer(c)
    <3>1. PICK c \in Calls, a \in AnswerKinds :
            \/ c[1] = "continue" /\ ContinueAnswer(c[2], a)
            \/ c[1] = "queue" /\ \E f \in Followups : QueueAnswer(c[2], f, a)
            \/ c[1] = "steer" /\ SteerAnswer(c[2], a)
            \/ c[1] = "resend" /\ ResendAnswer(c[2], a)
      BY <2>2 DEF CallAnswer
    <3>2. CASE c \in {"continue", "queue"} \X Runs
      BY <3>1, <3>2 DEF ProviderStep, RunStep, Next
    <3>3. CASE c \in {"steer", "resend"} \X Followups
      BY <3>1, <3>3 DEF ProviderStep, SteerStep, Next
    <3> QED BY <3>2, <3>3 DEF Calls
  <2>3. CASE Session
    BY <2>3 DEF Session, ProviderStep, RunStep, CallStep, Next
  <2>4. CASE \E r \in Runs : LaunchAnswer(r) \/ RecoverAnswer(r)
    BY <2>4 DEF LaunchAnswer, RecoverAnswer, ProviderStep, RunStep, Next
  <2>5. CASE \E q \in Requests : RequestAnswer(q)
    BY <2>5 DEF RequestAnswer, RequestStep, Next
  <2> QED BY <1>2, <2>1, <2>2, <2>3, <2>4, <2>5 DEF Event
<1>3. CASE Restart
  BY <1>3 DEF Next
<1> QED BY <1>1, <1>2, <1>3 DEF Next

\* Jobs, providers and changes of a card do not touch the requests in a handler.
LEMMA RequestsWait == ProviderStep \/ BoardStep => UNCHANGED req
<1>1. ASSUME NEW r \in Runs, RunStep(r) PROVE UNCHANGED req
  BY <1>1 DEF RunStep, LaunchOk, LaunchFails, ContinueAnswer, QueueAnswer, TurnRuns, TurnWaits,
     TurnEndsUnseen, TurnEnds, Recover, RecoverNext, ApplyToEnded, ApplyFinished,
     ApplyFinishedSends, ApplyStopped, ApplyFailure
<1>2. ASSUME NEW f \in Followups, SteerStep(f) PROVE UNCHANGED req
  BY <1>2 DEF SteerStep, SteerAfterLaunch, SteerSend, SteerAnswer, ResendAnswer
<1>3. ASSUME NEW c \in Calls, CallStep(c) PROVE UNCHANGED req
  BY <1>3 DEF CallStep, Resume, Typed, TurnTakes
<1>4. AppServerTerminates => UNCHANGED req
  BY DEF AppServerTerminates
<1>5. BoardStep => UNCHANGED req
  BY DEF BoardStep, StartTask, ContinueTask, SendFollowup, StopIdleTask, HandMove, ReworkTask,
     RestoreTask, ArchiveUnstarted
<1> QED BY <1>1, <1>2, <1>3, <1>4, <1>5 DEF ProviderStep

\* Every step keeps the types, given the three facts about jobs and requests.
LEMMA CoreStep ==
  ASSUME CoreType, Sending, Moving, Owned, Next PROVE CoreType'
<1>1. CASE ProviderStep
  BY <1>1, LaunchOkType, LaunchFailsType, ContinueAnswerType, SteerAfterLaunchType, SteerSendType,
     SteerAnswerType, ResendAnswerType, ApplyToEndedType, ApplyFinishedType, ApplyFinishedSendsType,
     QueueAnswerType, ApplyStoppedType, ApplyFailureType, RecoverType, RecoverNextType, ResumeType,
     TypedType, TurnTakesType, TurnRunsType, TurnWaitsType, TurnEndsType, TurnEndsUnseenType,
     AppServerTerminatesType DEF ProviderStep, RunStep, SteerStep, CallStep
<1>2. CASE BoardStep
  BY <1>2, StartTaskType, ContinueTaskType, SendFollowupType, StopIdleTaskType, HandMoveType,
     OtherCardsType DEF BoardStep
<1>3. CASE RequestStep
  BY <1>3, StopRequestType, StopSignalsType, StopAnswerType, StopSettlesType, StopReturnsType,
     ArchiveRequestType, CloseSessionsType, ApplyRequestType DEF RequestStep
<1> QED BY <1>1, <1>2, <1>3, RestartType, Steps

\* Only requests hold a version of a card.
LEMMA FreshStep == ASSUME Next PROVE fresh' \subseteq Requests /\ setup' = setup
BY Steps DEF VersionCheck

-----------------------------------------------------------------------------
(* What the types rest on *)

\* A request to move keeps its destination while it waits for the stop.
LEMMA MovingStep ==
  ASSUME CoreType, Moving, Next PROVE Moving'
<1>1. CASE UNCHANGED req
  BY <1>1 DEF Moving
<1>2. CASE RequestStep
  <2>1. PICK q \in Requests :
    \/ \E t \in Tasks, kind \in {"stop", "move", "archive"}, dest \in CardStatus \cup {NoMove} :
         StopRequest(q, t, kind, dest) /\ (kind = "move" => dest # NoMove)
    \/ \E t \in Tasks : ArchiveRequest(q, t)
    \/ StopSignals(q) \/ StopSettles(q) \/ StopReturns(q) \/ ApplyRequest(q)
    \/ CloseSessions(q) \/ \E ok \in BOOLEAN : StopAnswer(q, ok)
    BY <1>2 DEF RequestStep
  <2> USE DEF CoreType, RequestsType, Handlers, Moving
  <2>2. CASE StopSignals(q)
    BY <2>2 DEF StopSignals, At
  <2>3. CASE StopSettles(q)
    BY <2>3 DEF StopSettles, At, Reply, IdleRequest
  <2>4. CASE StopReturns(q)
    BY <2>4 DEF StopReturns, At, Reply, IdleRequest
  <2>5. CASE ApplyRequest(q)
    BY <2>5 DEF ApplyRequest, Reply, IdleRequest
  <2>6. CASE CloseSessions(q)
    BY <2>6 DEF CloseSessions, At
  <2>7. CASE \E ok \in BOOLEAN : StopAnswer(q, ok)
    BY <2>7 DEF StopAnswer
  <2>8. CASE \E t \in Tasks : ArchiveRequest(q, t)
    BY <2>8 DEF ArchiveRequest, IdleRequest
  <2>9. ASSUME NEW t \in Tasks, NEW kind \in {"stop", "move", "archive"},
               NEW dest \in CardStatus \cup {NoMove},
               StopRequest(q, t, kind, dest), kind = "move" => dest # NoMove
        PROVE  Moving'
    BY <2>9 DEF StopRequest, Waiting, IdleRequest
  <2> QED BY <2>1, <2>2, <2>3, <2>4, <2>5, <2>6, <2>7, <2>8, <2>9
<1>3. CASE Restart
  BY <1>3 DEF Restart, Moving, IdleRequest
<1> QED BY <1>1, <1>2, <1>3, RequestsWait, Steps

\* A queue is only sent while the finished update at the head of its chain is applied.
LEMMA SendingStep ==
  ASSUME CoreType, Sending, Next PROVE Sending'
<1> USE DEF CoreType, JobsType, SessionsType, CallStates, Calls
<1>1. ASSUME NEW r \in Runs, RunStep(r) PROVE Sending'
  <2>1. CASE UNCHANGED <<call, finishing, chain>>
    BY <2>1 DEF Sending
  <2>2. CASE \E a \in AnswerKinds : ContinueAnswer(r, a)
    BY <2>2 DEF Sending, ContinueAnswer, jobs
  <2>3. CASE \E a \in AnswerKinds, f \in Followups : QueueAnswer(r, f, a)
    <3>1. UNCHANGED chain \/ chain' = [chain EXCEPT ![r] = Tail(@)]
      BY <2>3 DEF QueueAnswer, Applied
    <3>2. (finishing'[r] # {} /\ UNCHANGED chain) \/ call'[<<"queue", r>>] = "none"
      BY <2>3 DEF QueueAnswer
    <3>3. \A s \in Runs \ {r} : /\ call'[<<"queue", s>>] = call[<<"queue", s>>]
                                /\ finishing'[s] = finishing[s]
      BY <2>3 DEF QueueAnswer
    <3>4. chain[r] # <<>>
      BY <2>3 DEF QueueAnswer, Sending
    <3> QED BY <3>1, <3>2, <3>3, <3>4 DEF Sending
  <2>4. CASE ApplyFinishedSends(r)
    BY <2>4 DEF Sending, ApplyFinishedSends
  <2>5. CASE finishing[r] = {} /\ Applied(r) /\ UNCHANGED <<call, finishing>>
    BY <2>5 DEF Sending, Applied
  <2>6. CASE /\ UNCHANGED <<call, finishing>>
             /\ \E u \in Updates : chain' = [chain EXCEPT ![r] = Append(@, u)]
    <3>1. PICK u \in Updates : chain' = [chain EXCEPT ![r] = Append(@, u)]
      BY <2>6
    <3>2. chain'[r] # <<>>
      BY <3>1, AppendProperties
    <3> QED BY <2>6, <3>1, <3>2 DEF Sending
  <2>7. CASE \/ LaunchOk(r) \/ LaunchFails(r) \/ TurnRuns(r) \/ TurnWaits(r)
             \/ TurnEndsUnseen(r) \/ RecoverNext(r)
    BY <2>1, <2>7 DEF LaunchOk, LaunchFails, TurnRuns, TurnWaits, TurnEndsUnseen, RecoverNext,
       jobs, sessions
  <2>8. CASE ApplyToEnded(r) \/ ApplyFinished(r) \/ ApplyStopped(r) \/ ApplyFailure(r)
    BY <2>5, <2>8 DEF ApplyToEnded, ApplyFinished, ApplyStopped, ApplyFailure, sessions
  <2>9. CASE \E s \in EndedStatus : TurnEnds(r, s)
    <3>1. \A s \in EndedStatus : Update(s, FALSE) \in Updates
      BY DEF Update, Updates
    <3> QED BY <2>6, <2>9, <3>1 DEF TurnEnds
  <2>10. CASE \E s \in {"running", "finished", "interrupted"} : Recover(r, s)
    <3>1. \A s \in {"finished", "interrupted"} : Update(s, TRUE) \in Updates
      BY DEF Update, Updates, EndedStatus
    <3> QED BY <2>1, <2>6, <2>10, <3>1 DEF Recover
  <2> QED BY <1>1, <2>2, <2>3, <2>4, <2>7, <2>8, <2>9, <2>10 DEF RunStep
<1>2. ASSUME NEW f \in Followups, SteerStep(f) PROVE Sending'
  <2>1. UNCHANGED <<finishing, chain>>
    BY <1>2 DEF SteerStep, SteerAfterLaunch, SteerSend, SteerAnswer, ResendAnswer
  <2> DEFINE Q == {<<"queue", r>> : r \in Runs}
  <2>2. call \in CallStates /\ [call EXCEPT ![<<"steer", f>>] = "none"] \in CallStates
    OBVIOUS
  <2>3. \A d \in Q : d \in Calls /\ d # <<"steer", f>> /\ d # <<"resend", f>>
    OBVIOUS
  <2>4. ASSUME NEW code, NEW R, NEW T, NEW K \in CallStates, ConvertSteer(f, code, R, T, K)
        PROVE  \A d \in Q : call'[d] = K[d]
    BY <2>3, <2>4 DEF ConvertSteer
  <2> HIDE DEF Q
  <2>5. SteerAfterLaunch(f) => \A d \in Q : call'[d] = call[d]
    BY DEF SteerAfterLaunch, sessions
  <2> DEFINE closed == [call EXCEPT ![<<"steer", f>>] = "none"]
  <2>6. SteerSend(f) => \A d \in Q : call'[d] = call[d]
    <3>1. SteerSend(f) => \/ call' = [call EXCEPT ![<<"steer", f>>] = "open"]
                          \/ \E code : ConvertSteer(f, code, run, turn, call)
                          \/ UNCHANGED call
      BY DEF SteerSend
    <3>2. \A d \in Q : [call EXCEPT ![<<"steer", f>>] = "open"][d] = call[d]
      BY <2>3
    <3>3. ASSUME NEW code, ConvertSteer(f, code, run, turn, call)
          PROVE  \A d \in Q : call'[d] = call[d]
      BY <2>3, <3>3 DEF ConvertSteer
    <3> QED BY <3>1, <3>2, <3>3
  <2>7. \A a \in AnswerKinds : SteerAnswer(f, a) => \A d \in Q : call'[d] = call[d]
    <3>1. \A d \in Q : closed[d] = call[d]
      BY <2>3
    <3>2. \A a \in AnswerKinds :
            SteerAnswer(f, a) => call' = closed \/ \E code, R, T : ConvertSteer(f, code, R, T, closed)
      BY DEF SteerAnswer
    <3>3. closed \in CallStates
      BY <2>2
    <3> HIDE DEF closed
    <3>4. ASSUME NEW code, NEW R, NEW T, ConvertSteer(f, code, R, T, closed)
          PROVE  \A d \in Q : call'[d] = call[d]
      BY <2>4, <3>1, <3>3, <3>4
    <3> QED BY <3>1, <3>2, <3>4
  <2>8. \A a \in AnswerKinds : ResendAnswer(f, a) => \A d \in Q : call'[d] = call[d]
    BY <2>3 DEF ResendAnswer
  <2>9. \A d \in Q : call'[d] = call[d]
    BY <1>2, <2>5, <2>6, <2>7, <2>8 DEF SteerStep
  <2> QED BY <2>1, <2>9 DEF Sending, Q
<1>3. ASSUME NEW c \in Calls, CallStep(c) PROVE Sending'
  <2>1. call[c] # "none" /\ \E s : call' = [call EXCEPT ![c] = s]
    BY <1>3 DEF CallStep, Resume, Typed, TurnTakes
  <2>2. UNCHANGED <<finishing, chain>>
    BY <1>3 DEF CallStep, Resume, Typed, TurnTakes, jobs
  <2>3. \A r \in Runs : call'[<<"queue", r>>] # "none" => call[<<"queue", r>>] # "none"
    BY <2>1
  <2> QED BY <2>2, <2>3 DEF Sending
<1>4. CASE AppServerTerminates
  <2>1. \A r \in Runs : call'[<<"queue", r>>] # "none" => call[<<"queue", r>>] # "none"
    BY <1>4 DEF AppServerTerminates
  <2>2. \A r \in Runs : chain[r] # <<>> => chain'[r] # <<>>
    <3>1. JobsType /\ "interrupted" \in EndedStatus
      BY DEF EndedStatus
    <3>2. \A r \in Runs : Append(chain[r], Update("interrupted", FALSE)) # <<>>
      BY <3>1, AppendedType
    <3> QED BY <1>4, <3>2 DEF AppServerTerminates
  <2> QED BY <1>4, <2>1, <2>2 DEF Sending, AppServerTerminates
<1>5. CASE BoardStep
  <2>1. UNCHANGED <<finishing, chain>>
    BY <1>5 DEF BoardStep, StartTask, ContinueTask, SendFollowup, StopIdleTask, HandMove, ReworkTask,
       RestoreTask, ArchiveUnstarted, jobs
  <2>2. \A r \in Runs : call'[<<"queue", r>>] = call[<<"queue", r>>]
    BY <1>5 DEF BoardStep, StartTask, ContinueTask, SendFollowup, StopIdleTask, HandMove, ReworkTask,
       RestoreTask, ArchiveUnstarted, sessions
  <2> QED BY <2>1, <2>2 DEF Sending
<1>6. CASE RequestStep
  <2>1. UNCHANGED <<finishing, chain>>
    BY <1>6 DEF RequestStep, StopRequest, ArchiveRequest, StopSignals, StopSettles, StopReturns,
       ApplyRequest, CloseSessions, StopAnswer, jobs
  <2>2. \A r \in Runs : call'[<<"queue", r>>] # "none" => call[<<"queue", r>>] # "none"
    BY <1>6 DEF RequestStep, StopRequest, ArchiveRequest, StopSignals, StopSettles, StopReturns,
       ApplyRequest, CloseSessions, StopAnswer, CalledOff, sessions
  <2> QED BY <2>1, <2>2 DEF Sending
<1>7. CASE Restart
  BY <1>7 DEF Sending, Restart, NoCalls
<1> QED BY <1>1, <1>2, <1>3, <1>4, <1>5, <1>6, <1>7, Steps DEF ProviderStep
\* A follow-up that was given to a run stays with a run.
LEMMA RunsOfFollowups ==
  ASSUME CoreType, Next, NEW f \in Followups, fup[f].run \in Runs PROVE fup'[f].run \in Runs
<1> USE DEF CoreType, RowsType, FollowupRows
<1>1. CASE UNCHANGED fup
  BY <1>1
<1>2. \A F \in FollowupRows : \A t, modes : Cancel(F, t, modes)[f].run = F[f].run
  BY DEF Cancel
<1>3. \A g \in Followups, s \in {"sent", "failed", "canceled"} :
         Settle(fup, g, s)[f].run = fup[f].run /\ Settle(fup, g, s) \in FollowupRows
  <2>1. \A g \in Followups, s \in {"sent", "failed", "canceled"} :
           Settle(fup, g, s)[f].run = fup[f].run
    BY DEF Settle
  <2> QED BY <2>1, SettleRows
<1>4. \A g \in Followups, r \in Runs : \A mode : NewFollowup(g, r, mode)[f].run \in Runs
  BY DEF NewFollowup
<1>5. ASSUME NEW r, NEW F \in FollowupRows, F[f].run = fup[f].run, FailLaunch(F, r)
      PROVE  fup'[f].run \in Runs
  BY <1>2, <1>5 DEF FailLaunch
<1>6. ASSUME NEW r \in Runs, RunStep(r) PROVE fup'[f].run \in Runs
  <2>1. CASE LaunchFails(r)
    BY <1>5, <2>1 DEF LaunchFails
  <2>2. CASE \E a \in AnswerKinds : ContinueAnswer(r, a)
    BY <1>4, <1>5, <2>2 DEF ContinueAnswer
  <2>3. CASE \E a \in AnswerKinds, g \in Followups : QueueAnswer(r, g, a)
    BY <2>3 DEF QueueAnswer
  <2>4. CASE ApplyStopped(r) \/ ApplyFailure(r)
    BY <1>2, <2>4 DEF ApplyStopped, ApplyFailure
  <2>5. CASE UNCHANGED fup
    BY <2>5
  <2> QED BY <1>6, <2>1, <2>2, <2>3, <2>4, <2>5
          DEF RunStep, LaunchOk, TurnRuns, TurnWaits, TurnEndsUnseen, TurnEnds, Recover, RecoverNext,
              ApplyToEnded, ApplyFinished, ApplyFinishedSends, db
<1>7. ASSUME NEW g \in Followups, SteerStep(g) PROVE fup'[f].run \in Runs
  <2>1. ASSUME NEW code, NEW R, NEW T, NEW K, ConvertSteer(g, code, R, T, K)
        PROVE  fup'[f].run \in Runs
    BY <2>1 DEF ConvertSteer, Queued
  <2>2. CASE SteerAfterLaunch(g)
    BY <2>2 DEF SteerAfterLaunch, db
  <2>3. CASE SteerSend(g)
    BY <2>1, <2>3 DEF SteerSend, db
  <2>4. ASSUME NEW a \in AnswerKinds, SteerAnswer(g, a) PROVE fup'[f].run \in Runs
    BY <1>3, <2>1, <2>4 DEF SteerAnswer
  <2>5. ASSUME NEW a \in AnswerKinds, ResendAnswer(g, a) PROVE fup'[f].run \in Runs
    BY <1>3, <1>5, <2>5 DEF ResendAnswer
  <2> QED BY <1>7, <2>2, <2>3, <2>4, <2>5 DEF SteerStep
<1>8. ASSUME NEW c \in Calls, CallStep(c) PROVE fup'[f].run \in Runs
  BY <1>8 DEF CallStep, Resume, Typed, TurnTakes, db
<1>9. CASE BoardStep
  BY <1>2, <1>4, <1>9 DEF BoardStep, StartTask, ContinueTask, SendFollowup, StopIdleTask, HandMove,
     ReworkTask, RestoreTask, ArchiveUnstarted, OfTask
<1>10. CASE RequestStep
  <2>1. UNCHANGED fup \/ \E t, modes : fup' = Cancel(fup, t, modes)
    BY <1>10 DEF RequestStep, StopRequest, ArchiveRequest, StopSignals, StopSettles, StopReturns,
       ApplyRequest, CloseSessions, StopAnswer, db
  <2> QED BY <1>2, <2>1
<1>11. CASE Restart
  BY <1>11 DEF Restart, InterruptedSteers
<1>12. CASE AppServerTerminates
  BY <1>12 DEF AppServerTerminates, db
<1> QED BY <1>6, <1>7, <1>8, <1>9, <1>10, <1>11, <1>12, Steps DEF ProviderStep

Busy(f) ==
  steer[f] # "none" \/ call[<<"steer", f>>] # "none" \/ call[<<"resend", f>>] # "none"

\* Work under way on a follow-up is work on a follow-up that was saved.
LEMMA OwnedStep ==
  ASSUME CoreType, Owned, Next PROVE Owned'
<1> USE DEF CoreType, RowsType, JobsType, SessionsType, CallStates, Calls, FollowupRows
<1>1. ASSUME \A f \in Followups : Busy(f)' => Busy(f) \/ fup'[f].run \in Runs
      PROVE  Owned'
  BY <1>1, RunsOfFollowups DEF Owned, Busy
<1>2. ASSUME NEW r \in Runs, RunStep(r) PROVE Owned'
  <2>1. UNCHANGED steer
    BY <1>2 DEF RunStep, LaunchOk, LaunchFails, ContinueAnswer, QueueAnswer, TurnRuns, TurnWaits,
       TurnEndsUnseen, TurnEnds, Recover, RecoverNext, ApplyToEnded, ApplyFinished,
       ApplyFinishedSends, ApplyStopped, ApplyFailure, jobs
  <2>2. \A f \in Followups : /\ call'[<<"steer", f>>] = call[<<"steer", f>>]
                              /\ call'[<<"resend", f>>] = call[<<"resend", f>>]
    <3>1. CASE UNCHANGED call
      BY <3>1
    <3>2. CASE ApplyFinishedSends(r)
      BY <3>2 DEF ApplyFinishedSends
    <3>3. CASE \E a \in AnswerKinds : ContinueAnswer(r, a)
      BY <3>3 DEF ContinueAnswer
    <3>4. CASE \E a \in AnswerKinds, f \in Followups : QueueAnswer(r, f, a)
      BY <3>4 DEF QueueAnswer
    <3> QED BY <1>2, <3>1, <3>2, <3>3, <3>4
            DEF RunStep, LaunchOk, LaunchFails, TurnRuns, TurnWaits, TurnEndsUnseen, TurnEnds,
                Recover, RecoverNext, ApplyToEnded, ApplyFinished, ApplyStopped, ApplyFailure, sessions
  <2> QED BY <1>1, <2>1, <2>2 DEF Busy
<1>3. ASSUME NEW f \in Followups, SteerStep(f) PROVE Owned'
  <2>1. ASSUME NEW g \in Followups \ {f} PROVE Busy(g)' => Busy(g)
    <3>1. steer'[g] = steer[g]
      BY <1>3 DEF SteerStep, SteerAfterLaunch, SteerSend, SteerAnswer, ResendAnswer, ConvertSteer
    <3>2. call'[<<"steer", g>>] = call[<<"steer", g>>] /\ call'[<<"resend", g>>] = call[<<"resend", g>>]
      <4>1. \A code, R, T : ConvertSteer(f, code, R, T, call)
              \/ ConvertSteer(f, code, R, T, [call EXCEPT ![<<"steer", f>>] = "none"])
              => \A d \in Calls : d[2] # f => call'[d] = call[d]
        BY DEF ConvertSteer
      <4>2. \A d \in Calls : d[2] # f => call'[d] = call[d]
        <5>1. CASE SteerAfterLaunch(f)
          BY <5>1 DEF SteerAfterLaunch, sessions
        <5>2. CASE SteerSend(f)
          BY <4>1, <5>2 DEF SteerSend
        <5>3. CASE \E a \in AnswerKinds : SteerAnswer(f, a)
          BY <4>1, <5>3 DEF SteerAnswer
        <5>4. CASE \E a \in AnswerKinds : ResendAnswer(f, a)
          BY <5>4 DEF ResendAnswer
        <5> QED BY <1>3, <5>1, <5>2, <5>3, <5>4 DEF SteerStep
      <4> QED BY <4>2
    <3> QED BY <3>1, <3>2 DEF Busy
  <2>2. Busy(f)
    BY <1>3 DEF SteerStep, SteerAfterLaunch, SteerSend, SteerAnswer, ResendAnswer, Busy
  <2> QED BY <1>1, <2>1, <2>2
<1>4. ASSUME NEW c \in Calls, CallStep(c) PROVE Owned'
  <2>1. \A d \in Calls : call'[d] # "none" => call[d] # "none"
    BY <1>4 DEF CallStep, Resume, Typed, TurnTakes
  <2>2. UNCHANGED steer
    BY <1>4 DEF CallStep, Resume, Typed, TurnTakes, jobs
  <2>3. \A f \in Followups : Busy(f)' => Busy(f)
    BY <2>1, <2>2 DEF Busy
  <2> QED BY <1>1, <2>3
<1>5. CASE BoardStep
  <2>1. ASSUME NEW t \in Tasks, NEW mode \in {"queue", "steer"}, SendFollowup(t, mode) PROVE Owned'
    <3>1. PICK r \in Runs, g \in Followups :
            /\ fup' = NewFollowup(g, r, mode)
            /\ UNCHANGED call
            /\ steer' = IF mode = "steer" THEN [steer EXCEPT ![g] = "launch"] ELSE steer
      BY <2>1 DEF SendFollowup, OfTask, sessions
    <3>2. fup'[g].run = r
      BY <3>1 DEF NewFollowup
    <3>3. \A f \in Followups : Busy(f)' => Busy(f) \/ f = g
      BY <3>1 DEF Busy
    <3> QED BY <1>1, <3>1, <3>2, <3>3
  <2>2. CASE ~\E t \in Tasks, mode \in {"queue", "steer"} : SendFollowup(t, mode)
    <3>1. UNCHANGED steer
      BY <1>5, <2>2 DEF BoardStep, StartTask, ContinueTask, StopIdleTask, HandMove, ReworkTask,
         RestoreTask, ArchiveUnstarted, jobs
    <3>2. UNCHANGED call \/ \E r \in Runs : \E k : call' = [call EXCEPT ![<<"continue", r>>] = k]
      BY <1>5, <2>2 DEF BoardStep, StartTask, ContinueTask, StopIdleTask, HandMove, ReworkTask,
         RestoreTask, ArchiveUnstarted, sessions
    <3>3. \A f \in Followups : Busy(f)' => Busy(f)
      BY <3>1, <3>2 DEF Busy
    <3> QED BY <1>1, <3>3
  <2> QED BY <2>1, <2>2
<1>6. CASE RequestStep
  <2>1. UNCHANGED steer
    BY <1>6 DEF RequestStep, StopRequest, ArchiveRequest, StopSignals, StopSettles, StopReturns,
       ApplyRequest, CloseSessions, StopAnswer, jobs
  <2>2. UNCHANGED call \/ \E r : call' = CalledOff(r)
    BY <1>6 DEF RequestStep, StopRequest, ArchiveRequest, StopSignals, StopSettles, StopReturns,
       ApplyRequest, CloseSessions, StopAnswer, sessions
  <2>3. \A d \in Calls : call'[d] # "none" => call[d] # "none"
    BY <2>2 DEF CalledOff
  <2>4. \A f \in Followups : Busy(f)' => Busy(f)
    BY <2>1, <2>3 DEF Busy
  <2> QED BY <1>1, <2>4
<1>7. CASE Restart
  BY <1>1, <1>7 DEF Restart, NoCalls, Busy
<1>8. CASE AppServerTerminates
  <2>1. \A f \in Followups : Busy(f)' => Busy(f)
    BY <1>8 DEF AppServerTerminates, Busy
  <2> QED BY <1>1, <2>1
<1> QED BY <1>2, <1>3, <1>4, <1>5, <1>6, <1>7, <1>8, Steps DEF ProviderStep

-----------------------------------------------------------------------------
(* The types *)

IInv == TypeOK /\ Sending /\ Moving /\ Owned

\* The board starts in the invariant.
LEMMA InitInv == Init => IInv
<1> SUFFICES ASSUME Init PROVE IInv
  OBVIOUS
<1>1. RowsType
  BY DEF Init, RowsType, CardRows, RunRows, FollowupRows, CardStatus, RunStatus
<1>2. JobsType
  BY DEF Init, JobsType
<1>3. RequestsType
  <2>1. IdleRequest \in Handlers
    BY DEF IdleRequest, Handlers
  <2> QED BY <2>1 DEF Init, RequestsType
<1>4. BootType
  BY BoundsAssumption DEF Init, BootType, NoRecovery
<1>5. SessionsType
  BY DEF Init, SessionsType, NoCalls, CallStates, TurnStates
<1>6. Sending /\ Moving /\ Owned
  BY DEF Init, NoCalls, Calls, IdleRequest, Sending, Moving, Owned
<1>7. fresh \subseteq Requests /\ setup \in Setups
  BY DEF Init
<1> QED BY <1>1, <1>2, <1>3, <1>4, <1>5, <1>6, <1>7, TypeParts DEF IInv, CoreType

\* Every step keeps the invariant.
LEMMA NextInv == IInv /\ [Next]_vars => IInv'
<1>1. ASSUME IInv, Next PROVE IInv'
  <2>1. CoreType
    BY <1>1, TypeParts DEF IInv
  <2>2. CoreType' /\ fresh' \subseteq Requests /\ setup' = setup
    BY <1>1, <2>1, CoreStep, FreshStep DEF IInv
  <2>3. TypeOK'
    BY <1>1, <2>2 DEF IInv, TypeOK, CoreType, RowsType, JobsType, RequestsType, BootType, SessionsType
  <2>4. Sending' /\ Moving' /\ Owned'
    BY <1>1, <2>1, SendingStep, MovingStep, OwnedStep DEF IInv
  <2> QED BY <2>3, <2>4 DEF IInv
<1>2. ASSUME IInv, UNCHANGED vars PROVE IInv'
  <2>1. TypeOK'
    BY <1>2 DEF IInv, vars, TypeOK, CardRows, RunRows, FollowupRows, CallStates, TurnStates
  <2>2. Sending' /\ Moving' /\ Owned'
    BY <1>2 DEF IInv, vars, Sending, Moving, Owned
  <2> QED BY <2>1, <2>2 DEF IInv
<1> QED BY <1>1, <1>2

\* The inductive invariant holds in every state of every behaviour.
LEMMA Invariant == Spec => []IInv
BY InitInv, NextInv, PTL DEF Spec

\* Every variable keeps its type, however requests, jobs, updates, calls and
\* restarts interleave (the whole of RunService).
THEOREM TypeCorrect == Spec => []TypeOK
<1>1. IInv => TypeOK
  BY DEF IInv
<1> QED BY <1>1, Invariant, PTL

-----------------------------------------------------------------------------
(***************************************************************************)
(* Safety of runs and follow-ups: what one step may do to a run, and to a  *)
(* follow-up.                                                              *)
(***************************************************************************)

-----------------------------------------------------------------------------
(* What a step may do to the runs *)

\* Rows R in which only active runs changed, and none became active
KeepsEnded(R) ==
  \A r \in Runs :
    /\ R[r].task = run[r].task
    /\ R[r].status = run[r].status \/ (Active(r) /\ R[r].status # "none")

\* A run is created for a task without an active run, whose card goes to in_progress.
CreatesRun ==
  \E r \in Runs :
    /\ run[r].status = "none" /\ \A s \in Runs : s < r => run[s].status # "none"
    /\ NoActiveRun(run'[r].task)
    /\ ~card[run'[r].task].archived /\ card[run'[r].task].status # "in_progress"
    /\ card' = MoveTo(run'[r].task, "in_progress")
    /\ run'[r].task \in Tasks
         \/ \E o \in Runs : run[o].status # "none" /\ run[o].task = run'[r].task
    /\ run'[r].status = "starting"
    /\ \A s \in Runs \ {r} : run'[s] = run[s]

\* Recovery takes up a run it had read as stopping.
ResumesRun ==
  \E r \in recovery.stopping \cap recovery.todo :
    /\ ~Refused(r) /\ run'[r].task = run[r].task /\ run'[r].status = "running"
    /\ \A s \in Runs \ {r} : run'[s] = run[s]

RunChange == KeepsEnded(run') \/ CreatesRun \/ ResumesRun

\* The ways the code rewrites the runs: none makes an ended run active again.
LEMMA KeptRows ==
  ASSUME RowsType, NEW r
  PROVE  /\ KeepsEnded(run)
         /\ \A w : KeepsEnded(Running(run, r, w))
         /\ Active(r) => \A s \in RunStatus \ {"none"} :
              KeepsEnded([run EXCEPT ![r].status = s]) /\ KeepsEnded(Ended(r, s))
<1> USE DEF RowsType, RunRows, KeepsEnded, Active
<1>1. KeepsEnded(run)
  OBVIOUS
<1>2. \A w : KeepsEnded(Running(run, r, w))
  BY DEF Running, ActiveStatus
<1>3. ASSUME Active(r), NEW s \in RunStatus \ {"none"} PROVE KeepsEnded([run EXCEPT ![r].status = s])
  BY <1>3
<1>4. ASSUME Active(r), NEW s \in RunStatus \ {"none"} PROVE KeepsEnded(Ended(r, s))
  BY <1>4 DEF Ended
<1> QED BY <1>1, <1>2, <1>3, <1>4

\* A change of an active run leaves the ended ones alone.
LEMMA KeptChanged ==
  ASSUME RowsType, NEW r, NEW s \in RunStatus \ {"none"}, Active(r),
         run' = Ended(r, s) \/ run' = [run EXCEPT ![r].status = s]
  PROVE  KeepsEnded(run')
<1>1. CASE run' = Ended(r, s)
  BY <1>1, KeptRows
<1>2. CASE run' = [run EXCEPT ![r].status = s]
  BY <1>2, KeptRows
<1> QED BY <1>1, <1>2

\* The `running' updates before an answer leave the ended runs alone.
LEMMA KeptAnswered ==
  ASSUME RowsType, NEW c, NEW a PROVE KeepsEnded(AnsweredRun(run, c, a))
BY KeptRows DEF AnsweredRun

\* A launch that fails leaves the ended runs alone.
LEMMA KeptFailLaunch ==
  ASSUME RowsType, NEW F, NEW r, FailLaunch(F, r) PROVE KeepsEnded(run')
<1>1. "failed" \in RunStatus \ {"none"}
  BY DEF RunStatus, EndedStatus
<1> QED BY <1>1, KeptRows DEF FailLaunch

\* The row startTask and continueTask add is a new run of an idle task.
LEMMA NewRunCreates ==
  ASSUME RowsType, NEW r \in Runs, NEW t, NEW s, UnusedRun(r), NoActiveRun(t), run' = NewRun(r, t, s),
         ~card[t].archived, card[t].status # "in_progress", card' = MoveTo(t, "in_progress"),
         t \in Tasks \/ \E o \in Runs : run[o].status # "none" /\ run[o].task = t
  PROVE  CreatesRun
BY DEF RowsType, RunRows, UnusedRun, NewRun, CreatesRun

\* What a launch, an answer, an update or recovery may do to the runs
LEMMA RunStepChange ==
  ASSUME CoreType, NEW r \in Runs, RunStep(r) PROVE RunChange
<1> USE DEF RunChange
<1>1. RowsType
  BY DEF CoreType
<1>2. CASE LaunchOk(r)
  BY <1>1, <1>2 DEF LaunchOk, RowsType, RunRows, KeepsEnded, Active
<1>3. CASE LaunchFails(r)
  BY <1>1, <1>3, KeptFailLaunch DEF LaunchFails
<1>4. CASE ApplyToEnded(r) \/ ApplyFinishedSends(r) \/ ApplyStopped(r) \/ ApplyFailure(r)
  <2>1. \/ UNCHANGED run
        \/ /\ Active(r)
           /\ \E s \in RunStatus \ {"none"} :
                run' = Ended(r, s) \/ run' = [run EXCEPT ![r].status = s]
    <3>1. \A s \in {"running", "stopped", "failed", "interrupted"} : s \in RunStatus \ {"none"}
      BY DEF RunStatus, ActiveStatus, EndedStatus
    <3> QED BY <1>4, <3>1 DEF ApplyToEnded, ApplyFinishedSends, ApplyStopped, ApplyFailure, db
  <2>2. UNCHANGED run => KeepsEnded(run')
    BY <1>1, KeptRows
  <2> QED BY <1>1, <2>1, <2>2, KeptChanged
<1>5. CASE ApplyFinished(r)
  <2>1. CASE run' = Ended(r, "stopped")
    <3>1. "stopped" \in RunStatus \ {"none"} /\ Active(r)
      BY <1>5 DEF RunStatus, EndedStatus, ApplyFinished
    <3> QED BY <1>1, <2>1, <3>1, KeptRows
  <2>2. CASE run' = [Ended(r, "finished") EXCEPT ![r].status = "finished"]
    <3>1. Active(r)
      BY <1>5 DEF ApplyFinished
    <3>2. KeepsEnded(run')
      BY <1>1, <2>2, <3>1 DEF Ended, KeepsEnded, RowsType, RunRows, Active
    <3> QED BY <3>2
  <2> QED BY <1>5, <2>1, <2>2 DEF ApplyFinished, FinishRun
<1>6. CASE RecoverNext(r) \/ TurnEndsUnseen(r) \/ \E s \in EndedStatus : TurnEnds(r, s)
  BY <1>1, <1>6, KeptRows DEF RecoverNext, TurnEndsUnseen, TurnEnds, db
<1>7. CASE TurnRuns(r)
  <2>1. CASE Claude
    <3>1. ~Codex
      BY <2>1 DEF Claude, Codex
    <3> QED BY <1>1, <1>7, <3>1, KeptRows DEF TurnRuns
  <2>2. CASE ~Claude
    <3>1. run' = Running([run EXCEPT ![r].session = r], r, FALSE) \/ run' = Running(run, r, FALSE)
      BY <1>7 DEF TurnRuns
    <3>2. KeepsEnded(Running([run EXCEPT ![r].session = r], r, FALSE))
      BY <1>1 DEF KeepsEnded, Running, RowsType, RunRows, Active, ActiveStatus
    <3> QED BY <1>1, <3>1, <3>2, KeptRows
  <2> QED BY <2>1, <2>2
<1>8. CASE TurnWaits(r)
  BY <1>1, <1>8, KeptRows DEF TurnWaits
<1>9. ASSUME NEW s \in {"running", "finished", "interrupted"}, Recover(r, s) PROVE RunChange
  <2>1. CASE Refused(r) /\ UNCHANGED run
    BY <1>1, <2>1, KeptRows
  <2>2. CASE ~Refused(r) /\ r \in recovery.stopping
    <3>1. run' = [run EXCEPT ![r].status = "running"]
          \/ run' = Running([[run EXCEPT ![r].status = "running"]
                               EXCEPT ![r].session = SessionOf(r)], r, FALSE)
      BY <1>9, <2>2 DEF Recover, Resumed
    <3>2. /\ run'[r].task = run[r].task /\ run'[r].status = "running"
          /\ \A o \in Runs \ {r} : run'[o] = run[o]
      BY <1>1, <3>1 DEF RowsType, RunRows, Running
    <3>3. r \in recovery.todo
      BY <1>9 DEF Recover, IsFirst
    <3> QED BY <2>2, <3>2, <3>3 DEF ResumesRun
  <2>3. CASE ~Refused(r) /\ r \notin recovery.stopping
    <3>1. run' = run \/ run' = Running([run EXCEPT ![r].session = SessionOf(r)], r, FALSE)
      BY <1>9, <2>3 DEF Recover, Resumed
    <3>2. KeepsEnded(Running([run EXCEPT ![r].session = SessionOf(r)], r, FALSE))
      BY <1>1 DEF KeepsEnded, Running, RowsType, RunRows, Active, ActiveStatus
    <3> QED BY <1>1, <3>1, <3>2, KeptRows
  <2> QED BY <1>9, <2>1, <2>2, <2>3 DEF Recover
<1>10. ASSUME NEW a \in AnswerKinds, ContinueAnswer(r, a) PROVE RunChange
  BY <1>1, <1>10, KeptFailLaunch, KeptAnswered DEF ContinueAnswer
<1>11. ASSUME NEW a \in AnswerKinds, NEW f \in Followups, QueueAnswer(r, f, a) PROVE RunChange
  <2>1. CASE FinishRun(run, r) /\ QueueLive(r, f)
    <3>1. "finished" \in RunStatus \ {"none"}
      BY DEF RunStatus, EndedStatus
    <3> QED BY <1>1, <2>1, <3>1, KeptRows DEF FinishRun, QueueLive, Active, ActiveStatus
  <2>2. CASE run' = AnsweredRun(run, <<"queue", r>>, a)
    BY <1>1, <2>2, KeptAnswered
  <2> QED BY <1>11, <2>1, <2>2 DEF QueueAnswer
<1> QED BY RunStep(r), <1>2, <1>3, <1>4, <1>5, <1>6, <1>7, <1>8, <1>9, <1>10, <1>11 DEF RunStep

\* What any step may do to the runs
LEMMA RunsChange ==
  ASSUME CoreType, Next PROVE RunChange
<1>1. RowsType
  BY DEF CoreType
<1>2. ASSUME NEW f \in Followups, SteerStep(f) PROVE RunChange
  <2>1. ASSUME NEW code, NEW R, NEW T, NEW K, KeepsEnded(R), ConvertSteer(f, code, R, T, K)
        PROVE  RunChange
    <3>1. CASE run' = R
      BY <2>1, <3>1 DEF RunChange
    <3>2. CASE \E n \in Runs : /\ UnusedRun(n) /\ NoActiveRun(fup[f].task)
                               /\ CanContinueWith(fup[f].task, fup[f].run)
                               /\ card' = MoveTo(fup[f].task, "in_progress")
                               /\ run' = NewRun(n, fup[f].task, run[fup[f].run].session)
      <4>1. /\ fup[f].run \in Runs /\ run[fup[f].run].task = fup[f].task
            /\ run[fup[f].run].status # "none"
            /\ ~card[fup[f].task].archived /\ card[fup[f].task].status # "in_progress"
        BY <3>2 DEF CanContinueWith, IsLatest, OfTask
      <4> QED BY <1>1, <3>2, <4>1, NewRunCreates DEF RunChange
    <3> QED BY <2>1, <3>1, <3>2 DEF ConvertSteer, CanContinueWith
  <2>2. CASE SteerAfterLaunch(f) \/ SteerSend(f)
    BY <1>1, <2>1, <2>2, KeptRows DEF SteerAfterLaunch, SteerSend, RunChange, db
  <2>3. ASSUME NEW a \in AnswerKinds, SteerAnswer(f, a) PROVE RunChange
    <3>1. KeepsEnded(AnsweredRun(run, <<"steer", f>>, a))
      BY <1>1, KeptAnswered
    <3> QED BY <2>1, <2>3, <3>1 DEF SteerAnswer, RunChange
  <2>4. ASSUME NEW a \in AnswerKinds, ResendAnswer(f, a) PROVE RunChange
    <3>1. "finished" \in RunStatus \ {"none"}
      BY DEF RunStatus, EndedStatus
    <3>2. UNCHANGED run => KeepsEnded(run')
      BY <1>1, KeptRows
    <3>3. \A r : Active(r) /\ run' = [run EXCEPT ![r].status = "finished"] => KeepsEnded(run')
      BY <1>1, <3>1, KeptChanged
    <3>4. \A F, r : FailLaunch(F, r) => KeepsEnded(run')
      BY <1>1, KeptFailLaunch
    <3>5. \A c, b : run' = AnsweredRun(run, c, b) => KeepsEnded(run')
      BY <1>1, KeptAnswered
    <3>6. \/ UNCHANGED run \/ \E c, b : run' = AnsweredRun(run, c, b)
          \/ \E F, r : FailLaunch(F, r)
          \/ \E r : Active(r) /\ run' = [run EXCEPT ![r].status = "finished"]
      BY <2>4 DEF ResendAnswer
    <3> QED BY <3>2, <3>3, <3>4, <3>5, <3>6 DEF RunChange
  <2> QED BY <1>2, <2>2, <2>3, <2>4 DEF SteerStep
<1>3. ASSUME NEW c \in Calls, CallStep(c) PROVE RunChange
  <2>1. UNCHANGED run \/ run' = Running(run, CallRun(c), FALSE)
    BY <1>3 DEF CallStep, Resume, Typed, TurnTakes, db
  <2> QED BY <1>1, <2>1, KeptRows DEF RunChange
<1>4. CASE BoardStep
  <2>1. ASSUME NEW t \in Tasks, StartTask(t) \/ ContinueTask(t) PROVE RunChange
    BY <1>1, <2>1, NewRunCreates DEF StartTask, ContinueTask, RunChange, OfTask
  <2>2. CASE UNCHANGED run
    BY <1>1, <2>2, KeptRows DEF RunChange
  <2> QED BY <1>4, <2>1, <2>2 DEF BoardStep, SendFollowup, StopIdleTask, HandMove, ReworkTask,
                                  RestoreTask, ArchiveUnstarted
<1>5. CASE RequestStep
  <2> DEFINE Ends(r, s) == Active(r) /\ (run' = Ended(r, s) \/ run' = [run EXCEPT ![r].status = s])
  <2>1. UNCHANGED run \/ \E r, s : s \in RunStatus \ {"none"} /\ Ends(r, s)
    <3>1. \A s \in {"starting", "running", "stopping", "stopped"} : s \in RunStatus \ {"none"}
      BY DEF RunStatus, ActiveStatus, EndedStatus
    <3>2. ASSUME NEW q \in Requests, StopSettles(q)
          PROVE  UNCHANGED run \/ \E r, s : s \in RunStatus \ {"none"} /\ Ends(r, s)
      <4>1. req[q].resume \in {"starting", "running"}
        BY DEF CoreType, RequestsType, Handlers
      <4>2. \/ UNCHANGED run
            \/ /\ Active(req[q].run)
               /\ \/ run' = Ended(req[q].run, "stopped")
                  \/ run' = [run EXCEPT ![req[q].run].status = req[q].resume]
        BY <3>2 DEF StopSettles, Over
      <4>3. "stopped" \in RunStatus \ {"none"} /\ req[q].resume \in RunStatus \ {"none"}
        BY <3>1, <4>1
      <4> QED BY <4>2, <4>3
    <3>3. ASSUME NEW q \in Requests, StopSignals(q)
          PROVE  UNCHANGED run \/ \E r, s : s \in RunStatus \ {"none"} /\ Ends(r, s)
      BY <3>1, <3>3 DEF StopSignals
    <3> QED BY <1>5, <3>2, <3>3 DEF RequestStep, StopRequest, ArchiveRequest, StopReturns,
               ApplyRequest, CloseSessions, StopAnswer, db
  <2>2. UNCHANGED run => KeepsEnded(run')
    BY <1>1, KeptRows
  <2>3. \A r, s : s \in RunStatus \ {"none"} /\ Ends(r, s) => KeepsEnded(run')
    BY <1>1, KeptChanged
  <2> QED BY <2>1, <2>2, <2>3 DEF RunChange
<1>6. CASE Restart \/ AppServerTerminates
  BY <1>1, <1>6, KeptRows DEF Restart, AppServerTerminates, RunChange, db
<1> QED BY <1>2, <1>3, <1>4, <1>5, <1>6, RunStepChange, Steps DEF ProviderStep

-----------------------------------------------------------------------------
(* Runs *)

\* However starts, continuations, resent steers, stops and recovery interleave, a
\* task never has two active runs: a run is created only for a task without one
\* (startTask, continueTask, sendQueuedAfterRunEnded), and recovery does not take
\* up a stopped run beside another one (task_runs_one_active).
THEOREM OneActiveRunHolds == Spec => []OneActiveRun
<1>1. Init => OneActiveRun
  BY DEF Init, OneActiveRun, Active, ActiveStatus
<1>2. IInv /\ OneActiveRun /\ [Next]_vars => OneActiveRun'
  <2>1. ASSUME IInv, OneActiveRun, Next PROVE OneActiveRun'
    <3>1. CoreType /\ RunChange
      BY <2>1, TypeParts, RunsChange DEF IInv
    <3>2. CASE KeepsEnded(run')
      BY <2>1, <3>2 DEF OneActiveRun, KeepsEnded, Active
    <3>3. CASE CreatesRun
      <4>1. PICK n \in Runs : /\ NoActiveRun(run'[n].task)
                              /\ \A s \in Runs \ {n} : run'[s] = run[s]
        BY <3>3 DEF CreatesRun
      <4> QED BY <2>1, <4>1 DEF OneActiveRun, NoActiveRun, OfTask, Active
    <3>4. CASE ResumesRun
      <4>1. PICK n \in recovery.stopping :
              /\ ~Refused(n) /\ run'[n].task = run[n].task
              /\ \A s \in Runs \ {n} : run'[s] = run[s]
        BY <3>4 DEF ResumesRun
      <4> QED BY <2>1, <4>1 DEF OneActiveRun, Refused, OfTask, Active
    <3> QED BY <3>1, <3>2, <3>3, <3>4 DEF RunChange
  <2>2. ASSUME OneActiveRun, UNCHANGED vars PROVE OneActiveRun'
    BY <2>2 DEF OneActiveRun, vars, Active
  <2> QED BY <2>1, <2>2
<1> QED BY <1>1, <1>2, Invariant, PTL DEF Spec

\* A run that ended keeps its outcome whatever answers, updates and stops come
\* late; only recovery takes one up, that it had read as stopping.
THEOREM SettledRunsStayHolds == Spec => SettledRunsStay
<1> DEFINE A == \A r \in Runs : run[r].status \in EndedStatus /\ r \notin recovery.stopping
                  => run'[r].status = run[r].status
<1>1. IInv /\ [Next]_vars => [A]_vars
  <2>1. ASSUME IInv, Next PROVE A
    <3>1. RunChange
      BY <2>1, TypeParts, RunsChange DEF IInv
    <3>2. \A r \in Runs : run[r].status \in EndedStatus => ~Active(r) /\ run[r].status # "none"
      BY DEF EndedStatus, ActiveStatus, Active
    <3> QED BY <3>1, <3>2 DEF RunChange, KeepsEnded, CreatesRun, ResumesRun
  <2> QED BY <2>1
<1> QED BY <1>1, Invariant, PTL DEF Spec, SettledRunsStay
-----------------------------------------------------------------------------
(* What a step may do to the follow-ups *)

Settled == {"sent", "failed", "canceled"}

\* Rows F in which every settled follow-up is what it was, no follow-up became a
\* steer, none went back to pending, and no new one was saved
KeepsFollowups(F) ==
  \A f \in Followups :
    /\ fup[f].status \in Settled => F[f] = fup[f]
    /\ F[f].mode = "steer" => fup[f].mode = "steer"
    /\ F[f].status = "pending" => fup[f].status = "pending"
    /\ fup[f].status = "none" <=> F[f].status = "none"

\* A follow-up is saved in an unused row.
AddsFollowup(mode) ==
  \E f \in Followups, r \in Runs : UnusedFollowup(f) /\ fup' = NewFollowup(f, r, mode)

\* Cancelling, queueing and settling leave the settled follow-ups alone.
LEMMA KeptFollowups ==
  ASSUME RowsType
  PROVE  /\ KeepsFollowups(fup)
         /\ \A t, modes : KeepsFollowups(Cancel(fup, t, modes))
         /\ \A f \in Followups, s \in Settled : KeepsFollowups(Settle(fup, f, s))
<1> USE DEF RowsType, FollowupRows, KeepsFollowups, Settled
<1>1. KeepsFollowups(fup)
  OBVIOUS
<1>2. ASSUME NEW t, NEW modes PROVE KeepsFollowups(Cancel(fup, t, modes))
  BY DEF Cancel
<1>3. ASSUME NEW f \in Followups, NEW s \in Settled PROVE KeepsFollowups(Settle(fup, f, s))
  BY DEF Settle
<1> QED BY <1>1, <1>2, <1>3

\* A launch that fails cancels the queue and leaves the settled follow-ups alone.
LEMMA KeptLaunchFailure ==
  ASSUME RowsType, NEW F \in FollowupRows, KeepsFollowups(F), NEW r, FailLaunch(F, r)
  PROVE  KeepsFollowups(fup')
<1>1. ASSUME NEW t, NEW modes PROVE KeepsFollowups(Cancel(F, t, modes))
  BY DEF Cancel, RowsType, FollowupRows, KeepsFollowups, Settled
<1> QED BY <1>1 DEF FailLaunch

\* A steer that is converted was pending, and is a steer no more.
LEMMA KeptConverted ==
  ASSUME RowsType, NEW f \in Followups, fup[f].status = "pending",
         NEW code, NEW R, NEW T, NEW K, ConvertSteer(f, code, R, T, K)
  PROVE  KeepsFollowups(fup') /\ fup'[f].mode = "queue"
<1> USE DEF RowsType, FollowupRows, KeepsFollowups, Settled, Queued
<1>1. CASE fup' = Queued(f, code)
  BY <1>1
<1>2. CASE fup' = [Queued(f, code) EXCEPT ![f].status = "failed"]
  BY <1>2
<1>3. CASE \E n : fup' = [Queued(f, code) EXCEPT ![f].run = n]
  BY <1>3
<1> QED BY <1>1, <1>2, <1>3 DEF ConvertSteer

\* What any step may do to the follow-ups and to the jobs of the steers
LEMMA FollowupsChange ==
  ASSUME CoreType, Next
  PROVE  \/ KeepsFollowups(fup')
         \/ AddsFollowup("queue") /\ UNCHANGED steer
         \/ \E t \in Tasks : SendFollowup(t, "steer")
<1> DEFINE Goal == \/ KeepsFollowups(fup')
                   \/ AddsFollowup("queue") /\ UNCHANGED steer
                   \/ \E t \in Tasks : SendFollowup(t, "steer")
<1>1. RowsType
  BY DEF CoreType
<1>2. CASE UNCHANGED fup
  BY <1>1, <1>2, KeptFollowups
<1>3. CASE \E t, modes : fup' = Cancel(fup, t, modes)
  BY <1>1, <1>3, KeptFollowups
<1>4. ASSUME NEW r \in Runs, RunStep(r) PROVE Goal
  <2>1. CASE LaunchFails(r)
    BY <1>1, <2>1, KeptLaunchFailure, KeptFollowups DEF LaunchFails, RowsType
  <2>2. ASSUME NEW a \in AnswerKinds, ContinueAnswer(r, a) PROVE Goal
    <3>1. FailLaunch(fup, r) => KeepsFollowups(fup')
      BY <1>1, KeptLaunchFailure, KeptFollowups DEF RowsType
    <3> QED BY <1>2, <2>2, <3>1 DEF ContinueAnswer, AddsFollowup, jobs
  <2>3. ASSUME NEW a \in AnswerKinds, NEW f \in Followups, QueueAnswer(r, f, a) PROVE Goal
    <3>1. \/ UNCHANGED fup
          \/ /\ fup[f].status = "pending"
             /\ \E s \in {"sent", "failed"} : fup' = [fup EXCEPT ![f].status = s, ![f].run = r]
      BY <2>3 DEF QueueAnswer, QueueLive
    <3>2. ASSUME fup[f].status = "pending", NEW s \in {"sent", "failed"},
                 fup' = [fup EXCEPT ![f].status = s, ![f].run = r]
          PROVE  KeepsFollowups(fup')
      BY <1>1, <3>2 DEF RowsType, FollowupRows, KeepsFollowups, Settled
    <3> QED BY <1>2, <3>1, <3>2
  <2>4. CASE ApplyStopped(r) \/ ApplyFailure(r)
    BY <1>3, <2>4 DEF ApplyStopped, ApplyFailure
  <2> QED
    BY <1>2, <1>4, <2>1, <2>2, <2>3, <2>4
    DEF RunStep, LaunchOk, TurnRuns, TurnWaits, TurnEndsUnseen, TurnEnds, Recover, RecoverNext,
        ApplyToEnded, ApplyFinished, ApplyFinishedSends, db
<1>5. ASSUME NEW f \in Followups, SteerStep(f) PROVE Goal
  <2>1. CASE SteerAfterLaunch(f) \/ SteerSend(f)
    BY <1>1, <1>2, <2>1, KeptConverted DEF SteerAfterLaunch, SteerSend, db
  <2>2. ASSUME NEW a \in AnswerKinds, SteerAnswer(f, a) PROVE Goal
    BY <1>1, <1>2, <2>2, KeptConverted, KeptFollowups DEF SteerAnswer, Settled
  <2>3. ASSUME NEW a \in AnswerKinds, ResendAnswer(f, a) PROVE Goal
    <3>1. \A s \in Settled : KeepsFollowups(Settle(fup, f, s)) /\ Settle(fup, f, s) \in FollowupRows
      BY <1>1, KeptFollowups, SettleRows DEF Settled, RowsType
    <3>2. FailLaunch(Settle(fup, f, "failed"), fup[f].run) => KeepsFollowups(fup')
      BY <1>1, <3>1, KeptLaunchFailure DEF Settled
    <3> QED BY <1>2, <2>3, <3>1, <3>2 DEF ResendAnswer, Settled
  <2> QED BY <1>5, <2>1, <2>2, <2>3 DEF SteerStep
<1>6. ASSUME NEW c \in Calls, CallStep(c) PROVE Goal
  BY <1>2, <1>6 DEF CallStep, Resume, Typed, TurnTakes, db
<1>7. CASE BoardStep
  <2>1. CASE \E t \in Tasks : SendFollowup(t, "queue")
    BY <2>1 DEF SendFollowup, AddsFollowup, OfTask
  <2>2. CASE \E t \in Tasks : SendFollowup(t, "steer")
    BY <2>2
  <2>3. CASE \E t \in Tasks : StartTask(t)
    BY <1>3, <2>3 DEF StartTask
  <2> QED BY <1>2, <1>7, <2>1, <2>2, <2>3
          DEF BoardStep, ContinueTask, StopIdleTask, HandMove, ReworkTask, RestoreTask, ArchiveUnstarted
<1>8. CASE RequestStep
  BY <1>2, <1>3, <1>8 DEF RequestStep, StopRequest, ArchiveRequest, StopSignals, StopSettles,
     StopReturns, ApplyRequest, CloseSessions, StopAnswer, db
<1>9. CASE Restart
  BY <1>1, <1>9 DEF Restart, InterruptedSteers, RowsType, FollowupRows, KeepsFollowups, Settled
<1>10. CASE AppServerTerminates
  BY <1>2, <1>10 DEF AppServerTerminates, db
<1> QED BY <1>4, <1>5, <1>6, <1>7, <1>8, <1>9, <1>10, Steps DEF ProviderStep

\* The outcome of a follow-up is final: whichever of a stop, a start, an update, an
\* answer and recovery comes first settles it.
THEOREM SettledFollowupsStayHolds == Spec => SettledFollowupsStay
<1> DEFINE A == \A f \in Followups : fup[f].status \in {"sent", "failed", "canceled"}
                  => fup'[f] = fup[f]
<1>1. IInv /\ [Next]_vars => [A]_vars
  <2>1. ASSUME IInv, Next PROVE A
    <3>1. CoreType /\ RowsType
      BY <2>1, TypeParts DEF IInv, CoreType
    <3>2. CASE KeepsFollowups(fup')
      BY <3>2 DEF KeepsFollowups, Settled
    <3>3. ASSUME NEW mode, AddsFollowup(mode) PROVE A
      BY <3>1, <3>3 DEF AddsFollowup, NewFollowup, UnusedFollowup, RowsType, FollowupRows
    <3>4. ASSUME NEW t \in Tasks, SendFollowup(t, "steer") PROVE AddsFollowup("steer")
      BY <3>4 DEF SendFollowup, AddsFollowup, OfTask
    <3> QED BY <2>1, <3>1, <3>2, <3>3, <3>4, FollowupsChange
  <2> QED BY <2>1
<1> QED BY <1>1, Invariant, PTL DEF Spec, SettledFollowupsStay
-----------------------------------------------------------------------------
(* The jobs of steers *)

\* What a resent steer has become
ResentIsQueued ==
  \A f \in Followups :
    call[<<"resend", f>>] # "none" => fup[f].mode = "queue" /\ fup[f].status # "none"

PendingSteer(f) == fup[f].status = "pending" /\ fup[f].mode = "steer"

\* A steer's job ends only when the steer is settled or queued.
LEMMA JobsOfSteers ==
  ASSUME CoreType, ResentIsQueued, Next, NEW f \in Followups, steer[f] # "none", steer'[f] = "none"
  PROVE  ~PendingSteer(f)'
<1> USE DEF PendingSteer
<1>1. RowsType /\ SteersType
  BY DEF CoreType, JobsType, SteersType
<1>2. CASE UNCHANGED steer
  BY <1>2
<1>3. ASSUME NEW g \in Followups, SteerStep(g) PROVE ~PendingSteer(f)'
  <2>1. f = g
    BY <1>1, <1>3 DEF SteersType, SteerStep, SteerAfterLaunch, SteerSend, SteerAnswer, ResendAnswer,
       ConvertSteer
  <2>2. CASE SteerAfterLaunch(f)
    BY <1>1, <2>2 DEF SteerAfterLaunch, SteersType
  <2>3. CASE SteerSend(f)
    <3>1. CASE fup[f].status = "pending"
      BY <1>1, <2>3, <3>1, KeptConverted DEF SteerSend, SteersType
    <3>2. CASE fup[f].status # "pending"
      BY <1>1, <2>3, <3>2 DEF SteerSend, SteersType, db
    <3> QED BY <3>1, <3>2
  <2>4. ASSUME NEW a \in AnswerKinds, SteerAnswer(f, a) PROVE ~PendingSteer(f)'
    <3>1. CASE fup[f].status = "pending" /\ ~Delivered(a)
      BY <1>1, <2>4, <3>1, KeptConverted DEF SteerAnswer
    <3>2. CASE ~(fup[f].status = "pending" /\ ~Delivered(a))
      BY <1>1, <2>4, <3>2 DEF SteerAnswer, Settle, RowsType, FollowupRows
    <3> QED BY <3>1, <3>2
  <2>5. ASSUME NEW a \in AnswerKinds, ResendAnswer(f, a) PROVE ~PendingSteer(f)'
    <3>1. fup[f].mode = "queue" /\ fup[f].status # "none"
      BY <2>5 DEF ResendAnswer, ResentIsQueued
    <3>2. KeepsFollowups(fup') \/ AddsFollowup("queue") \/ \E t \in Tasks : SendFollowup(t, "steer")
      BY FollowupsChange
    <3>3. KeepsFollowups(fup') => fup'[f].mode # "steer"
      BY <3>1 DEF KeepsFollowups
    <3>4. AddsFollowup("queue") => fup'[f] = fup[f]
      BY <1>1, <3>1 DEF AddsFollowup, NewFollowup, UnusedFollowup, RowsType, FollowupRows
    <3>5. (\E t \in Tasks : SendFollowup(t, "steer")) => fup'[f] = fup[f]
      BY <1>1, <3>1 DEF SendFollowup, NewFollowup, UnusedFollowup, RowsType, FollowupRows
    <3> QED BY <3>1, <3>2, <3>3, <3>4, <3>5
  <2> QED BY <1>3, <2>1, <2>2, <2>3, <2>4, <2>5 DEF SteerStep
<1>4. ASSUME NEW r \in Runs, RunStep(r) PROVE UNCHANGED steer
  BY <1>4 DEF RunStep, LaunchOk, LaunchFails, ContinueAnswer, QueueAnswer, TurnRuns, TurnWaits,
     TurnEndsUnseen, TurnEnds, Recover, RecoverNext, ApplyToEnded, ApplyFinished,
     ApplyFinishedSends, ApplyStopped, ApplyFailure, jobs
<1>5. ASSUME NEW c \in Calls, CallStep(c) PROVE UNCHANGED steer
  BY <1>5 DEF CallStep, Resume, Typed, TurnTakes, jobs
<1>6. CASE BoardStep
  <2>1. UNCHANGED steer \/ \E g \in Followups : steer' = [steer EXCEPT ![g] = "launch"]
    BY <1>6 DEF BoardStep, StartTask, ContinueTask, SendFollowup, StopIdleTask, HandMove, ReworkTask,
       RestoreTask, ArchiveUnstarted, jobs
  <2> QED BY <1>1, <2>1 DEF SteersType
<1>7. CASE RequestStep \/ AppServerTerminates
  BY <1>7 DEF RequestStep, StopRequest, ArchiveRequest, StopSignals, StopSettles, StopReturns,
     ApplyRequest, CloseSessions, StopAnswer, AppServerTerminates, jobs
<1>8. CASE Restart
  BY <1>1, <1>8 DEF Restart, InterruptedSteers, RowsType, FollowupRows
<1> QED BY <1>2, <1>3, <1>4, <1>5, <1>6, <1>7, <1>8, Steps DEF ProviderStep

\* The calls that resend a steer are those of a follow-up just converted.
LEMMA ResendsAreNew ==
  ASSUME CoreType, Next, NEW f \in Followups,
         call'[<<"resend", f>>] # "none", call[<<"resend", f>>] = "none"
  PROVE  fup'[f].mode = "queue" /\ fup[f].status = "pending"
<1> USE DEF CoreType, SessionsType, CallStates, Calls
<1>1. RowsType
  BY DEF CoreType
<1>2. CASE \A d \in Calls : call'[d] # "none" => call[d] # "none"
  BY <1>2
<1>3. CASE \E r \in Runs, k \in {"continue", "queue"} : \E s : call' = [call EXCEPT ![<<k, r>>] = s]
  BY <1>3
<1>4. ASSUME NEW r \in Runs, RunStep(r) PROVE FALSE
  <2>1. UNCHANGED call \/ \E k \in {"continue", "queue"} : \E s : call' = [call EXCEPT ![<<k, r>>] = s]
    BY <1>4 DEF RunStep, LaunchOk, LaunchFails, ContinueAnswer, QueueAnswer, TurnRuns, TurnWaits,
       TurnEndsUnseen, TurnEnds, Recover, RecoverNext, ApplyToEnded, ApplyFinished,
       ApplyFinishedSends, ApplyStopped, ApplyFailure, sessions
  <2> QED BY <2>1
<1>5. ASSUME NEW g \in Followups, SteerStep(g) PROVE fup'[f].mode = "queue" /\ fup[f].status = "pending"
  <2>1. CASE SteerAfterLaunch(g)
    BY <2>1 DEF SteerAfterLaunch, sessions
  <2>2. ASSUME NEW code, NEW R, NEW T, NEW K \in CallStates, K[<<"resend", f>>] = "none",
               fup[g].status = "pending", ConvertSteer(g, code, R, T, K)
        PROVE  fup'[f].mode = "queue" /\ fup[f].status = "pending"
    <3>1. f = g
      BY <2>2 DEF ConvertSteer
    <3> QED BY <1>1, <2>2, <3>1, KeptConverted
  <2>3. CASE SteerSend(g)
    <3>1. CASE fup[g].status = "pending" /\ \E code : ConvertSteer(g, code, run, turn, call)
      BY <2>2, <3>1
    <3>2. (UNCHANGED call \/ call' = [call EXCEPT ![<<"steer", g>>] = "open"]) => FALSE
      OBVIOUS
    <3> QED BY <2>3, <3>1, <3>2 DEF SteerSend
  <2>4. ASSUME NEW a \in AnswerKinds, SteerAnswer(g, a)
        PROVE  fup'[f].mode = "queue" /\ fup[f].status = "pending"
    <3> DEFINE closed == [call EXCEPT ![<<"steer", g>>] = "none"]
    <3>1. closed \in CallStates /\ closed[<<"resend", f>>] = "none"
      OBVIOUS
    <3>2. call' = closed => FALSE
      BY <3>1
    <3>3. call' = closed \/ (fup[g].status = "pending" /\ \E code, R, T : ConvertSteer(g, code, R, T, closed))
      BY <2>4 DEF SteerAnswer
    <3> HIDE DEF closed
    <3> QED BY <2>2, <3>1, <3>2, <3>3
  <2>5. ASSUME NEW a \in AnswerKinds, ResendAnswer(g, a) PROVE FALSE
    BY <2>5 DEF ResendAnswer
  <2> QED BY <1>5, <2>1, <2>3, <2>4, <2>5 DEF SteerStep
<1>6. ASSUME NEW c \in Calls, CallStep(c) PROVE FALSE
  BY <1>6 DEF CallStep, Resume, Typed, TurnTakes
<1>7. BoardStep => UNCHANGED call \/ \E r \in Runs : \E s : call' = [call EXCEPT ![<<"continue", r>>] = s]
  BY DEF BoardStep, StartTask, ContinueTask, SendFollowup, StopIdleTask, HandMove, ReworkTask,
     RestoreTask, ArchiveUnstarted, sessions
<1>8. RequestStep => UNCHANGED call \/ \E r : call' = CalledOff(r)
  BY DEF RequestStep, StopRequest, ArchiveRequest, StopSignals, StopSettles, StopReturns,
     ApplyRequest, CloseSessions, StopAnswer, sessions
<1>9. \A r : call' = CalledOff(r) => FALSE
  BY DEF CalledOff
<1>10. Restart \/ AppServerTerminates => FALSE
  BY DEF Restart, NoCalls, AppServerTerminates
<1> QED BY <1>2, <1>3, <1>4, <1>5, <1>6, <1>7, <1>8, <1>9, <1>10, Steps DEF ProviderStep
\* No steer stays `sending' without a job that will settle it, whatever stops,
\* permission prompts, failed deliveries and restarts come in between.
THEOREM PendingSteerHasJobHolds == Spec => []PendingSteerHasJob
<1> DEFINE Inv == PendingSteerHasJob /\ ResentIsQueued
<1>1. Init => Inv
  BY DEF Init, PendingSteerHasJob, ResentIsQueued, NoCalls, Calls
<1>2. IInv /\ Inv /\ [Next]_vars => Inv'
  <2>1. ASSUME IInv, Inv, Next PROVE Inv'
    <3>1. CoreType /\ RowsType
      BY <2>1, TypeParts DEF IInv, CoreType
    <3>2. \A f \in Followups : PendingSteer(f)' => PendingSteer(f) \/ steer'[f] # "none"
      <4>1. CASE KeepsFollowups(fup')
        BY <4>1 DEF KeepsFollowups, PendingSteer
      <4>2. CASE AddsFollowup("queue")
        BY <3>1, <4>2 DEF AddsFollowup, NewFollowup, PendingSteer, RowsType, FollowupRows
      <4>3. CASE \E t \in Tasks : SendFollowup(t, "steer")
        BY <3>1, <4>3 DEF SendFollowup, NewFollowup, PendingSteer, RowsType, FollowupRows, CoreType,
           JobsType
      <4> QED BY <2>1, <3>1, <4>1, <4>2, <4>3, FollowupsChange
    <3>3. PendingSteerHasJob'
      <4>1. \A f \in Followups : PendingSteer(f) => steer[f] # "none"
        BY <2>1 DEF PendingSteerHasJob, PendingSteer
      <4>2. \A f \in Followups : PendingSteer(f)' => steer'[f] # "none"
        BY <2>1, <3>1, <3>2, <4>1, JobsOfSteers
      <4> QED BY <4>2 DEF PendingSteerHasJob, PendingSteer
    <3>4. ASSUME NEW f \in Followups, call'[<<"resend", f>>] # "none"
          PROVE  fup'[f].mode = "queue" /\ fup'[f].status # "none"
      <4>1. fup[f].status # "none"
        BY <2>1, <3>1, <3>4, ResendsAreNew DEF ResentIsQueued
      <4>2. fup'[f].mode = "queue" \/ (fup[f].mode = "queue" /\ call[<<"resend", f>>] # "none")
        BY <2>1, <3>1, <3>4, ResendsAreNew DEF ResentIsQueued
      <4>3. CASE KeepsFollowups(fup')
        <5>1. fup'[f].mode \in {"queue", "steer"}
          BY <2>1, <3>1, CoreStep DEF IInv, CoreType, RowsType, FollowupRows
        <5> QED BY <4>1, <4>2, <4>3, <5>1 DEF KeepsFollowups
      <4>4. ASSUME NEW mode, AddsFollowup(mode) PROVE fup'[f] = fup[f]
        BY <3>1, <4>1, <4>4 DEF AddsFollowup, NewFollowup, UnusedFollowup, RowsType, FollowupRows
      <4>5. ASSUME NEW t \in Tasks, SendFollowup(t, "steer") PROVE AddsFollowup("steer")
        BY <4>5 DEF SendFollowup, AddsFollowup, OfTask
      <4> QED BY <2>1, <3>1, <4>1, <4>2, <4>3, <4>4, <4>5, FollowupsChange
    <3> QED BY <3>3, <3>4 DEF ResentIsQueued
  <2>2. ASSUME Inv, UNCHANGED vars PROVE Inv'
    BY <2>2 DEF vars, PendingSteerHasJob, ResentIsQueued
  <2> QED BY <2>1, <2>2
<1>3. Inv => PendingSteerHasJob
  OBVIOUS
<1> QED BY <1>1, <1>2, <1>3, Invariant, PTL DEF Spec

-----------------------------------------------------------------------------
(* What reached a session *)

\* What reached a session is never taken back.
LEMMA HitsGrow ==
  ASSUME CoreType, Next, NEW f \in Followups, hits[f] > 0 PROVE hits'[f] > 0
<1> USE DEF CoreType, SessionsType
<1>1. CASE UNCHANGED hits
  BY <1>1
<1>2. ASSUME NEW c, hits' = Hit(c) PROVE hits'[f] > 0
  BY <1>2 DEF Hit
<1>3. ASSUME NEW r \in Runs, RunStep(r) PROVE UNCHANGED hits
  BY <1>3 DEF RunStep, LaunchOk, LaunchFails, ContinueAnswer, QueueAnswer, TurnRuns, TurnWaits,
     TurnEndsUnseen, TurnEnds, Recover, RecoverNext, ApplyToEnded, ApplyFinished,
     ApplyFinishedSends, ApplyStopped, ApplyFailure, sessions
<1>4. ASSUME NEW g \in Followups, SteerStep(g) PROVE UNCHANGED hits
  BY <1>4 DEF SteerStep, SteerAfterLaunch, SteerSend, SteerAnswer, ResendAnswer, sessions
<1>5. ASSUME NEW c \in Calls, CallStep(c) PROVE UNCHANGED hits \/ hits' = Hit(c)
  BY <1>5 DEF CallStep, Resume, Typed, TurnTakes
<1>6. BoardStep => UNCHANGED hits
  BY DEF BoardStep, StartTask, ContinueTask, SendFollowup, StopIdleTask, HandMove, ReworkTask,
     RestoreTask, ArchiveUnstarted, sessions
<1>7. RequestStep \/ AppServerTerminates \/ Restart => UNCHANGED hits
  BY DEF RequestStep, StopRequest, ArchiveRequest, StopSignals, StopSettles, StopReturns,
     ApplyRequest, CloseSessions, StopAnswer, AppServerTerminates, Restart, sessions
<1> QED BY <1>1, <1>2, <1>3, <1>4, <1>5, <1>6, <1>7, Steps DEF ProviderStep

\* A message that has reached a session was counted there.
ReachedWasHit ==
  \A c \in Calls : call[c] = "reached" /\ CallFollowup(c) \in Followups => hits[CallFollowup(c)] > 0

\* A step that leaves a call reached has typed it, or leaves what it carries.
LEMMA ReachedCalls ==
  ASSUME CoreType, Next, NEW d \in Calls, call'[d] = "reached"
  PROVE  /\ call[d] = "reached" \/ hits' = Hit(d)
         /\ d[1] = "queue" => finishing'[d[2]] = finishing[d[2]]
<1> USE DEF CoreType, SessionsType, JobsType, CallStates, Calls
<1> DEFINE Goal == /\ call[d] = "reached" \/ hits' = Hit(d)
                   /\ d[1] = "queue" => finishing'[d[2]] = finishing[d[2]]
<1>1. CASE UNCHANGED <<call, finishing>>
  BY <1>1
<1>2. ASSUME NEW r \in Runs, RunStep(r) PROVE Goal
  <2>1. CASE \E a \in AnswerKinds : ContinueAnswer(r, a)
    BY <2>1 DEF ContinueAnswer, jobs
  <2>2. CASE ApplyFinishedSends(r)
    <3>1. call'[<<"queue", r>>] # "reached"
      BY <2>2, NewCallState DEF ApplyFinishedSends
    <3>2. d # <<"queue", r>>
      BY <3>1
    <3> QED BY <2>2, <3>2 DEF ApplyFinishedSends
  <2>3. ASSUME NEW a \in AnswerKinds, NEW f \in Followups, QueueAnswer(r, f, a) PROVE Goal
    <3>1. call'[<<"queue", r>>] # "reached"
      <4>1. NewCall("queue", run[r].session) # "reached"
        BY NewCallState
      <4> QED BY <2>3, <4>1 DEF QueueAnswer
    <3>2. d # <<"queue", r>>
      BY <3>1
    <3> QED BY <2>3, <3>2 DEF QueueAnswer
  <2> QED
    BY <1>1, <1>2, <2>1, <2>2, <2>3
    DEF RunStep, LaunchOk, LaunchFails, TurnRuns, TurnWaits, TurnEndsUnseen, TurnEnds, Recover,
        RecoverNext, ApplyToEnded, ApplyFinished, ApplyStopped, ApplyFailure, jobs, sessions
<1>3. ASSUME NEW g \in Followups, SteerStep(g) PROVE Goal
  <2>1. UNCHANGED finishing
    BY <1>3 DEF SteerStep, SteerAfterLaunch, SteerSend, SteerAnswer, ResendAnswer
  <2>2. ASSUME NEW code, NEW R, NEW T, NEW K \in CallStates, ConvertSteer(g, code, R, T, K)
        PROVE  K[d] = "reached"
    <3> DEFINE new == NewCall("resend", run[fup[g].run].session)
    <3>1. call' = K \/ call' = [K EXCEPT ![<<"resend", g>>] = new]
      BY <2>2 DEF ConvertSteer
    <3>2. new # "reached"
      BY NewCallState
    <3> HIDE DEF new
    <3> QED BY <3>1, <3>2
  <2>3. CASE SteerAfterLaunch(g) \/ SteerSend(g)
    BY <2>2, <2>3 DEF SteerAfterLaunch, SteerSend, sessions
  <2>4. ASSUME NEW a \in AnswerKinds, SteerAnswer(g, a) PROVE call[d] = "reached"
    <3> DEFINE closed == [call EXCEPT ![<<"steer", g>>] = "none"]
    <3>1. closed \in CallStates /\ (closed[d] = "reached" => call[d] = "reached")
      OBVIOUS
    <3>2. call' = closed \/ \E code, R, T : ConvertSteer(g, code, R, T, closed)
      BY <2>4 DEF SteerAnswer
    <3> HIDE DEF closed
    <3> QED BY <2>2, <3>1, <3>2
  <2>5. ASSUME NEW a \in AnswerKinds, ResendAnswer(g, a) PROVE call[d] = "reached"
    BY <2>5 DEF ResendAnswer
  <2> QED BY <1>3, <2>1, <2>3, <2>4, <2>5 DEF SteerStep
<1>4. ASSUME NEW c \in Calls, CallStep(c) PROVE Goal
  BY <1>4 DEF CallStep, Resume, Typed, TurnTakes, jobs
<1>5. CASE BoardStep
  <2>1. UNCHANGED finishing
    BY <1>5 DEF BoardStep, StartTask, ContinueTask, SendFollowup, StopIdleTask, HandMove, ReworkTask,
       RestoreTask, ArchiveUnstarted, jobs
  <2>2. ASSUME NEW t \in Tasks, ContinueTask(t) PROVE call[d] = "reached"
    <3>1. PICK last, r \in Runs :
            call' = [call EXCEPT ![<<"continue", r>>] = NewCall("continue", run[last].session)]
      BY <2>2 DEF ContinueTask, OfTask
    <3>2. NewCall("continue", run[last].session) # "reached"
      BY NewCallState
    <3> QED BY <3>1, <3>2
  <2>3. (\E t \in Tasks : ContinueTask(t)) \/ UNCHANGED call
    BY <1>5 DEF BoardStep, StartTask, SendFollowup, StopIdleTask, HandMove, ReworkTask,
       RestoreTask, ArchiveUnstarted, sessions
  <2> QED BY <2>1, <2>2, <2>3
<1>6. CASE RequestStep
  <2>1. UNCHANGED finishing
    BY <1>6 DEF RequestStep, StopRequest, ArchiveRequest, StopSignals, StopSettles, StopReturns,
       ApplyRequest, CloseSessions, StopAnswer, jobs
  <2>2. UNCHANGED call \/ \E r : call' = CalledOff(r)
    BY <1>6 DEF RequestStep, StopRequest, ArchiveRequest, StopSignals, StopSettles, StopReturns,
       ApplyRequest, CloseSessions, StopAnswer, sessions
  <2> QED BY <2>1, <2>2 DEF CalledOff
<1>7. CASE Restart \/ AppServerTerminates
  BY <1>7 DEF Restart, NoCalls, AppServerTerminates
<1> QED BY <1>2, <1>3, <1>4, <1>5, <1>6, <1>7, Steps DEF ProviderStep
\* The first follow-up of a finishing update is the one its call carries.
LEMMA FirstIsCarried ==
  ASSUME CoreType, NEW r \in Runs, NEW f \in Followups, IsFirst(f, finishing[r])
  PROVE  First(finishing[r]) = f
<1> DEFINE S == finishing[r]
<1>1. S \subseteq Int /\ IsFirst(f, S)
  BY DEF CoreType, JobsType, Followups
<1> HIDE DEF S
<1>2. ASSUME NEW g, IsFirst(g, S) PROVE g = f
  <2>1. g \in S /\ f \in S /\ g <= f /\ f <= g
    BY <1>1, <1>2 DEF IsFirst
  <2>2. g \in Int /\ f \in Int
    BY <1>1, <2>1
  <2> QED BY <2>1, <2>2
<1>3. First(S) = f
  BY <1>1, <1>2 DEF First
<1> QED BY <1>3 DEF S

\* A call marked as having reached the session carries a follow-up that did.
LEMMA ReachedWasHitStep ==
  ASSUME CoreType, CoreType', ReachedWasHit, Next PROVE ReachedWasHit'
<1> SUFFICES ASSUME NEW d \in Calls, call'[d] = "reached", CallFollowup(d)' \in Followups
             PROVE  hits'[CallFollowup(d)'] > 0
  BY DEF ReachedWasHit
<1>1. CallFollowup(d)' = CallFollowup(d)
  BY ReachedCalls DEF CallFollowup
<1>2. CASE call[d] = "reached"
  BY <1>1, <1>2, HitsGrow DEF ReachedWasHit
<1>3. CASE hits' = Hit(d)
  <2>1. CallFollowup(d) \in Followups /\ CallFollowup(d) # 0
    BY <1>1 DEF Followups
  <2> DEFINE f == CallFollowup(d)
  <2>2. hits' = [hits EXCEPT ![f] = IF @ = 0 THEN 1 ELSE 2]
    BY <1>3, <2>1 DEF Hit
  <2> HIDE DEF f
  <2>3. f \in Followups => hits'[f] > 0
    BY <2>2 DEF CoreType, SessionsType
  <2> QED BY <1>1, <2>1, <2>3 DEF f
<1> QED BY <1>2, <1>3, ReachedCalls

\* A delivered answer is given for a message that reached its session.
LEMMA DeliveredWasHit ==
  ASSUME ReachedWasHit, NEW c \in Calls, NEW a, a \in Answers(c), Delivered(a),
         CallFollowup(c) \in Followups
  PROVE  hits[CallFollowup(c)] > 0
BY DEF Answers, Delivered, AlreadyInTranscript, ReachedWasHit

NewlySent(f) == fup'[f].status = "sent" /\ fup[f].status # "sent"

\* Only the answers to deliveries record a follow-up as sent.
LEMMA OthersSendNothing ==
  ASSUME RowsType, NEW f \in Followups
  PROVE  /\ UNCHANGED fup => ~NewlySent(f)
         /\ \A t, modes : fup' = Cancel(fup, t, modes) => ~NewlySent(f)
         /\ \A mode : AddsFollowup(mode) => ~NewlySent(f)
         /\ \A F \in FollowupRows : \A r :
              (F[f].status = "sent" => fup[f].status = "sent") /\ FailLaunch(F, r) => ~NewlySent(f)
<1> USE DEF RowsType, FollowupRows, NewlySent
<1>1. UNCHANGED fup => ~NewlySent(f)
  OBVIOUS
<1>2. ASSUME NEW t, NEW modes, fup' = Cancel(fup, t, modes) PROVE ~NewlySent(f)
  BY <1>2 DEF Cancel
<1>3. ASSUME NEW mode, AddsFollowup(mode) PROVE ~NewlySent(f)
  BY <1>3 DEF AddsFollowup, NewFollowup
<1>4. ASSUME NEW F \in FollowupRows, NEW r, F[f].status = "sent" => fup[f].status = "sent",
             FailLaunch(F, r)
      PROVE  ~NewlySent(f)
  BY <1>4 DEF FailLaunch, Cancel
<1> QED BY <1>1, <1>2, <1>3, <1>4

\* A step records a follow-up as sent only when its message was delivered.
LEMMA SentWasHit ==
  ASSUME CoreType, ReachedWasHit, Next, NEW f \in Followups, NewlySent(f) PROVE hits[f] > 0
<1>1. RowsType /\ f # 0
  BY DEF CoreType, Followups
<1>2. ASSUME NEW r \in Runs, RunStep(r) PROVE hits[f] > 0
  <2>1. ASSUME NEW a \in AnswerKinds, NEW g \in Followups, QueueAnswer(r, g, a) PROVE hits[f] > 0
    <3> DEFINE c == <<"queue", r>>
    <3>1. f = g /\ Delivered(a)
      BY <1>1, <2>1 DEF QueueAnswer, NewlySent, RowsType, FollowupRows
    <3>2. CallFollowup(c) = g
      BY <2>1, FirstIsCarried DEF CallFollowup, QueueAnswer
    <3>3. c \in Calls /\ a \in Answers(c)
      BY <2>1 DEF QueueAnswer, Calls
    <3> HIDE DEF c
    <3> QED BY <3>1, <3>2, <3>3, DeliveredWasHit
  <2>2. ASSUME NEW a \in AnswerKinds, ContinueAnswer(r, a) PROVE FALSE
    <3>1. FailLaunch(fup, r) \/ AddsFollowup("queue") \/ UNCHANGED fup
      BY <2>2 DEF ContinueAnswer, AddsFollowup
    <3> QED BY <1>1, <3>1, OthersSendNothing DEF RowsType
  <2>3. CASE LaunchFails(r)
    BY <1>1, <2>3, OthersSendNothing DEF LaunchFails, RowsType
  <2>4. CASE ApplyStopped(r) \/ ApplyFailure(r)
    BY <1>1, <2>4, OthersSendNothing DEF ApplyStopped, ApplyFailure
  <2> QED
    BY <1>1, <1>2, <2>1, <2>2, <2>3, <2>4, OthersSendNothing
    DEF RunStep, LaunchOk, TurnRuns, TurnWaits, TurnEndsUnseen, TurnEnds, Recover, RecoverNext,
        ApplyToEnded, ApplyFinished, ApplyFinishedSends, db
<1>3. ASSUME NEW g \in Followups, SteerStep(g) PROVE hits[f] > 0
  <2>1. ASSUME NEW code, NEW R, NEW T, NEW K, ConvertSteer(g, code, R, T, K) PROVE FALSE
    BY <1>1, <2>1 DEF ConvertSteer, Queued, NewlySent, RowsType, FollowupRows
  <2>2. CASE SteerAfterLaunch(g) \/ SteerSend(g)
    BY <1>1, <2>1, <2>2, OthersSendNothing DEF SteerAfterLaunch, SteerSend, db
  <2>3. ASSUME NEW a \in AnswerKinds, SteerAnswer(g, a) PROVE hits[f] > 0
    <3> DEFINE c == <<"steer", g>>
    <3>1. f = g /\ Delivered(a)
      BY <1>1, <2>1, <2>3 DEF SteerAnswer, Settle, NewlySent, RowsType, FollowupRows
    <3>2. CallFollowup(c) = g
      BY DEF CallFollowup
    <3>3. c \in Calls /\ a \in Answers(c)
      BY <2>3 DEF SteerAnswer, Calls
    <3> HIDE DEF c
    <3> QED BY <3>1, <3>2, <3>3, DeliveredWasHit
  <2>4. ASSUME NEW a \in AnswerKinds, ResendAnswer(g, a) PROVE hits[f] > 0
    <3> DEFINE c == <<"resend", g>>
    <3>1. Settle(fup, g, "failed") \in FollowupRows
          /\ (Settle(fup, g, "failed")[f].status = "sent" => fup[f].status = "sent")
      <4>1. Settle(fup, g, "failed") \in FollowupRows
        BY <1>1, SettleRows DEF RowsType
      <4>2. Settle(fup, g, "failed")[f].status = "sent" => fup[f].status = "sent"
        BY <1>1 DEF Settle, RowsType, FollowupRows
      <4> QED BY <4>1, <4>2
    <3>2. FailLaunch(Settle(fup, g, "failed"), fup[g].run) => FALSE
      BY <1>1, <3>1, OthersSendNothing
    <3>3. f = g /\ Delivered(a)
      BY <1>1, <2>4, <3>2 DEF ResendAnswer, Delivered, Settle, NewlySent, RowsType, FollowupRows
    <3>4. CallFollowup(c) = g
      BY DEF CallFollowup
    <3>5. c \in Calls /\ a \in Answers(c)
      BY <2>4 DEF ResendAnswer, Calls
    <3> HIDE DEF c
    <3> QED BY <3>3, <3>4, <3>5, DeliveredWasHit
  <2> QED BY <1>3, <2>2, <2>3, <2>4 DEF SteerStep
<1>4. ASSUME NEW c \in Calls, CallStep(c) PROVE FALSE
  BY <1>1, <1>4, OthersSendNothing DEF CallStep, Resume, Typed, TurnTakes, db
<1>5. CASE BoardStep
  <2>1. ASSUME NEW t \in Tasks, NEW mode \in {"queue", "steer"}, SendFollowup(t, mode) PROVE AddsFollowup(mode)
    BY <2>1 DEF SendFollowup, AddsFollowup, OfTask
  <2>2. ASSUME NEW t \in Tasks, StartTask(t) PROVE FALSE
    BY <1>1, <2>2, OthersSendNothing DEF StartTask
  <2> QED BY <1>1, <1>5, <2>1, <2>2, OthersSendNothing
          DEF BoardStep, ContinueTask, StopIdleTask, HandMove, ReworkTask, RestoreTask, ArchiveUnstarted
<1>6. CASE RequestStep
  <2>1. UNCHANGED fup \/ \E t, modes : fup' = Cancel(fup, t, modes)
    BY <1>6 DEF RequestStep, StopRequest, ArchiveRequest, StopSignals, StopSettles, StopReturns,
       ApplyRequest, CloseSessions, StopAnswer, db
  <2> QED BY <1>1, <2>1, OthersSendNothing
<1>7. CASE Restart
  <2>1. fup' = InterruptedSteers
    BY <1>7 DEF Restart
  <2>2. fup'[f] = IF fup[f].status = "pending" /\ fup[f].mode = "steer"
                    THEN [fup[f] EXCEPT !.status = "failed"] ELSE fup[f]
    BY <2>1 DEF InterruptedSteers
  <2>3. fup[f] \in [task : Tasks \cup {NoTask}, run : Runs \cup {0}, mode : {"queue", "steer"},
                    status : {"none", "pending", "sent", "failed", "canceled"},
                    code : {"none", "NOT_DELIVERED", "WAITING_PERMISSION"}]
    BY <1>1 DEF CoreType, RowsType, FollowupRows
  <2>4. fup'[f].status = "sent" => fup[f].status = "sent"
    BY <2>2, <2>3
  <2> QED BY <1>1, <2>4 DEF NewlySent
<1>8. CASE AppServerTerminates
  <2>1. UNCHANGED fup
    BY <1>8 DEF AppServerTerminates, db
  <2> QED BY <1>1, <2>1 DEF NewlySent
<1> QED BY <1>2, <1>3, <1>4, <1>5, <1>6, <1>7, <1>8, Steps DEF ProviderStep

\* A follow-up is shown as sent only when its message did reach the session of the
\* AI: no answer, retry, conversion or restart records a delivery that was not made.
THEOREM SentWasDeliveredHolds == Spec => []SentWasDelivered
<1>1. Init => SentWasDelivered /\ ReachedWasHit
  BY DEF Init, SentWasDelivered, ReachedWasHit, NoCalls
<1>2. IInv /\ IInv' /\ SentWasDelivered /\ ReachedWasHit /\ [Next]_vars
        => SentWasDelivered' /\ ReachedWasHit'
  <2>1. ASSUME IInv, SentWasDelivered, ReachedWasHit, Next
        PROVE  SentWasDelivered' /\ ReachedWasHit'
    <3>1. CoreType /\ CoreType'
      BY <2>1, TypeParts, CoreStep DEF IInv
    <3>2. \A f \in Followups : NewlySent(f) => hits[f] > 0
      BY <2>1, <3>1, SentWasHit
    <3>3. \A f \in Followups : hits[f] > 0 => hits'[f] > 0
      BY <2>1, <3>1, HitsGrow
    <3>4. SentWasDelivered'
      BY <2>1, <3>2, <3>3 DEF SentWasDelivered, NewlySent
    <3> QED BY <2>1, <3>1, <3>4, ReachedWasHitStep
  <2>2. ASSUME SentWasDelivered, ReachedWasHit, UNCHANGED vars
        PROVE  SentWasDelivered' /\ ReachedWasHit'
    BY <2>2 DEF vars, SentWasDelivered, ReachedWasHit, CallFollowup
  <2> QED BY <2>1, <2>2
<1> QED BY <1>1, <1>2, Invariant, PTL DEF Spec

-----------------------------------------------------------------------------
(***************************************************************************)
(* The ledger: every behaviour of RunService, seen through the mapping of  *)
(* RunProperties, is one of RunLedger.                                     *)
(***************************************************************************)

-----------------------------------------------------------------------------
(* Recovery *)

\* The list of startup recovery only shrinks until the next restart.
LEMMA RecoveryShrinks ==
  ASSUME CoreType, Next
  PROVE  Restart \/ (recovery'.stopping = recovery.stopping /\ recovery'.todo \subseteq recovery.todo)
<1> DEFINE Goal == recovery'.stopping = recovery.stopping /\ recovery'.todo \subseteq recovery.todo
<1>1. CASE UNCHANGED recovery
  BY <1>1
<1>2. ASSUME NEW r, recovery' = Skip(r) \/ recovery' = [recovery EXCEPT !.applying = TRUE] PROVE Goal
  BY <1>2 DEF CoreType, BootType, Skip
<1>3. ASSUME NEW r \in Runs, RunStep(r) PROVE Goal
  <2>1. CASE \E s \in {"running", "finished", "interrupted"} : Recover(r, s)
    BY <1>2, <2>1 DEF Recover
  <2>2. CASE RecoverNext(r)
    BY <1>2, <2>2 DEF RecoverNext
  <2> QED
    BY <1>1, <1>3, <2>1, <2>2
    DEF RunStep, LaunchOk, LaunchFails, ContinueAnswer, QueueAnswer, TurnRuns, TurnWaits,
        TurnEndsUnseen, TurnEnds, ApplyToEnded, ApplyFinished, ApplyFinishedSends, ApplyStopped,
        ApplyFailure, boot
<1>4. ASSUME NEW f \in Followups, SteerStep(f) PROVE UNCHANGED recovery
  BY <1>4 DEF SteerStep, SteerAfterLaunch, SteerSend, SteerAnswer, ResendAnswer, boot
<1>5. ASSUME NEW c \in Calls, CallStep(c) PROVE UNCHANGED recovery
  BY <1>5 DEF CallStep, Resume, Typed, TurnTakes, boot
<1>6. BoardStep \/ AppServerTerminates => UNCHANGED recovery
  BY DEF BoardStep, StartTask, ContinueTask, SendFollowup, StopIdleTask, HandMove, ReworkTask,
     RestoreTask, ArchiveUnstarted, AppServerTerminates, boot
<1>7. RequestStep => UNCHANGED recovery
  BY DEF RequestStep, StopRequest, ArchiveRequest, StopSignals, StopSettles, StopReturns,
     ApplyRequest, CloseSessions, StopAnswer, boot
<1> QED BY <1>1, <1>3, <1>4, <1>5, <1>6, <1>7, Steps DEF ProviderStep

-----------------------------------------------------------------------------
(* Runs belong to cards *)

\* A row that is used belongs to a card, one that is not does not; recovery only
\* read rows that are used.
RunsHaveTasks ==
  /\ \A r \in Runs : IF run[r].status = "none" THEN run[r].task = NoTask ELSE run[r].task \in Tasks
  /\ \A r \in recovery.stopping : run[r].status # "none"

\* Every step keeps it.
LEMMA TasksStep ==
  ASSUME CoreType, RunsHaveTasks, Next PROVE RunsHaveTasks'
<1> USE DEF RunsHaveTasks
<1>1. RunChange /\ recovery.stopping \subseteq Runs
  BY RunsChange DEF CoreType, BootType
<1>2. CASE KeepsEnded(run')
  <2>1. \A r \in Runs : run[r].status = "none" <=> run'[r].status = "none"
    BY <1>2 DEF KeepsEnded, Active, ActiveStatus
  <2>2. \A r \in Runs : run'[r].task = run[r].task
    BY <1>2 DEF KeepsEnded
  <2>3. CASE recovery'.stopping = recovery.stopping
    BY <1>1, <2>1, <2>2, <2>3
  <2>4. CASE Restart
    <3>1. \A r \in recovery'.stopping : r \in Runs /\ run[r].status # "none"
      BY <2>4 DEF Restart
    <3> QED BY <2>1, <2>2, <3>1
  <2> QED BY <2>3, <2>4, RecoveryShrinks
<1>3. CASE CreatesRun
  <2>1. PICK n \in Runs :
          /\ run[n].status = "none"
          /\ run'[n].task \in Tasks
               \/ \E o \in Runs : run[o].status # "none" /\ run[o].task = run'[n].task
          /\ run'[n].status = "starting"
          /\ \A s \in Runs \ {n} : run'[s] = run[s]
    BY <1>3 DEF CreatesRun
  <2>2. run'[n].task \in Tasks
    BY <2>1
  <2>3. recovery'.stopping = recovery.stopping
    <3>1. ~Restart
      BY <2>1 DEF Restart
    <3> QED BY <3>1, RecoveryShrinks
  <2> QED BY <1>1, <2>1, <2>2, <2>3
<1>4. CASE ResumesRun
  <2>1. PICK n \in recovery.stopping :
          /\ run'[n].task = run[n].task /\ run'[n].status = "running"
          /\ \A s \in Runs \ {n} : run'[s] = run[s]
    BY <1>4 DEF ResumesRun
  <2>2. n \in Runs /\ run[n].status # "none"
    BY <1>1, <2>1
  <2>3. \A r \in Runs : (run[r].status = "none" <=> run'[r].status = "none") /\ run'[r].task = run[r].task
    BY <2>1, <2>2
  <2>4. \A r \in recovery'.stopping : r \in Runs /\ run[r].status # "none"
    BY <1>1, RecoveryShrinks DEF Restart
  <2> QED BY <2>3, <2>4
<1> QED BY <1>1, <1>2, <1>3, <1>4 DEF RunChange
-----------------------------------------------------------------------------
(* The runs of the ledger *)

\* The runs that are going on after a step, card by card
LEMMA StillGoingOn ==
  ASSUME OneActiveRun, KeepsEnded(run'), NEW t \in Tasks
  PROVE  OfTask(t)' = OfTask(t) /\ (GoingOn(t)' = GoingOn(t) \/ GoingOn(t)' = {})
<1>1. OfTask(t)' = OfTask(t)
  BY DEF KeepsEnded, OfTask
<1>2. GoingOn(t)' \subseteq GoingOn(t)
  BY <1>1 DEF GoingOn, KeepsEnded, Active, OfTask
<1>3. \A r, s \in GoingOn(t) : r = s
  BY DEF OneActiveRun, GoingOn, OfTask
<1> QED BY <1>1, <1>2, <1>3

\* A step that only ends runs ends them in the ledger, or restarts it.
LEMMA EndsInLedger ==
  ASSUME CoreType, OneActiveRun, RunsHaveTasks, Next, KeepsEnded(run')
  PROVE  (\E T \in SUBSET Tasks : Ledger!End(T)) \/ Ledger!Restart
<1> DEFINE T == {t \in Tasks : GoingOn(t)' = {}}
<1>1. [t \in Tasks |-> OfTask(t)]' = [t \in Tasks |-> OfTask(t)]
  BY StillGoingOn
<1>2. CASE Restart
  <2>1. UNCHANGED run
    BY <1>2 DEF Restart
  <2>2. [t \in Tasks |-> GoingOn(t)]' = [t \in Tasks |-> GoingOn(t)]
    BY <2>1 DEF GoingOn, OfTask, Active
  <2>3. ASSUME NEW r \in (recovery.stopping \cap recovery.todo)'
        PROVE  \E t \in Tasks : r \in GoingOn(t)
    <3>1. r \in Runs /\ run[r].status = "stopping"
      BY <1>2, <2>3 DEF Restart
    <3>2. run[r].task \in Tasks
      BY <3>1 DEF RunsHaveTasks
    <3>3. r \in GoingOn(run[r].task)
      BY <3>1 DEF GoingOn, OfTask, Active, ActiveStatus
    <3> QED BY <3>2, <3>3
  <2> QED BY <1>1, <2>2, <2>3 DEF Ledger!Restart
<1>3. CASE ~Restart
  <2>1. (recovery.stopping \cap recovery.todo)' \subseteq recovery.stopping \cap recovery.todo
    BY <1>3, RecoveryShrinks
  <2>2. [t \in Tasks |-> GoingOn(t)]'
          = [t \in Tasks |-> IF t \in T THEN {} ELSE [u \in Tasks |-> GoingOn(u)][t]]
    BY StillGoingOn
  <2>3. T \in SUBSET Tasks
    OBVIOUS
  <2> HIDE DEF T
  <2>4. Ledger!End(T)
    BY <1>1, <2>1, <2>2 DEF Ledger!End, Ledger!Dealt
  <2> QED BY <2>3, <2>4
<1> QED BY <1>2, <1>3

\* A run that is created begins in the ledger.
LEMMA BeginsInLedger ==
  ASSUME CoreType, RunsHaveTasks, RunsHaveTasks', Next, CreatesRun
  PROVE  \E t \in Tasks, r \in Runs : Ledger!Begin(t, r)
<1>1. PICK r \in Runs :
        /\ run[r].status = "none" /\ NoActiveRun(run'[r].task) /\ run'[r].status = "starting"
        /\ \A s \in Runs \ {r} : run'[s] = run[s]
  BY DEF CreatesRun
<1> DEFINE t == run'[r].task
<1>2. t \in Tasks
  BY <1>1 DEF RunsHaveTasks
<1>3. run[r].task = NoTask
  BY <1>1 DEF RunsHaveTasks
<1>4. \A u \in Tasks : r \notin OfTask(u)
  BY <1>3, TasksAssumption DEF OfTask
<1>5. \A u \in Tasks : OfTask(u)' = IF u = t THEN OfTask(u) \cup {r} ELSE OfTask(u)
  BY <1>1, <1>3, TasksAssumption DEF OfTask
<1>6. GoingOn(t) = {}
  BY <1>1 DEF GoingOn, NoActiveRun
<1>7. \A u \in Tasks : GoingOn(u)' = IF u = t THEN {r} ELSE GoingOn(u)
  <2>1. \A s \in Runs \ {r} : Active(s)' = Active(s)
    BY <1>1 DEF Active
  <2>2. Active(r)'
    BY <1>1 DEF Active, ActiveStatus
  <2> QED BY <1>4, <1>5, <1>6, <2>1, <2>2 DEF GoingOn, OfTask
<1>8. (recovery.stopping \cap recovery.todo)' \subseteq recovery.stopping \cap recovery.todo
  <2>1. ~Restart
    BY <1>1 DEF Restart
  <2> QED BY <2>1, RecoveryShrinks
<1> HIDE DEF t
<1>9. Ledger!Begin(t, r)
  <2>1. [u \in Tasks |-> OfTask(u)]' = [[u \in Tasks |-> OfTask(u)] EXCEPT ![t] = @ \cup {r}]
    BY <1>2, <1>5
  <2>2. [u \in Tasks |-> GoingOn(u)]' = [[u \in Tasks |-> GoingOn(u)] EXCEPT ![t] = {r}]
    BY <1>2, <1>7
  <2> QED BY <1>2, <1>4, <1>6, <1>8, <2>1, <2>2 DEF Ledger!Begin, Ledger!Dealt
<1> QED BY <1>2, <1>9

\* A run that recovery resumes is taken up in the ledger.
LEMMA TakenUpInLedger ==
  ASSUME CoreType, OneActiveRun, RunsHaveTasks, Next, ResumesRun
  PROVE  \/ \E t \in Tasks, r \in Runs : Ledger!TakeUp(t, r)
         \/ KeepsEnded(run')
<1>1. PICK r \in recovery.stopping \cap recovery.todo :
        /\ ~Refused(r) /\ run'[r].task = run[r].task /\ run'[r].status = "running"
        /\ \A s \in Runs \ {r} : run'[s] = run[s]
  BY DEF ResumesRun
<1> DEFINE t == run[r].task
<1>2. r \in Runs /\ t \in Tasks
  BY <1>1 DEF RunsHaveTasks, CoreType, BootType
<1>3. CASE Restart
  BY <1>3, <1>2, <1>1 DEF Restart, KeepsEnded
<1>4. CASE ~Restart
  <2>1. \A u \in Tasks : OfTask(u)' = OfTask(u)
    BY <1>1, <1>2 DEF OfTask
  <2>2. r \in OfTask(t) /\ GoingOn(t) \subseteq {r}
    BY <1>1, <1>2 DEF OfTask, GoingOn, Refused
  <2>3. \A u \in Tasks : GoingOn(u)' = IF u = t THEN {r} ELSE GoingOn(u)
    <3>1. \A s \in Runs \ {r} : Active(s)' = Active(s)
      BY <1>1 DEF Active
    <3>2. Active(r)'
      BY <1>1 DEF Active, ActiveStatus
    <3>3. \A u \in Tasks : u # t => r \notin OfTask(u)
      BY DEF OfTask
    <3> QED BY <2>1, <2>2, <3>1, <3>2, <3>3 DEF GoingOn, OfTask
  <2>4. (recovery.stopping \cap recovery.todo)' \subseteq recovery.stopping \cap recovery.todo
    BY <1>4, RecoveryShrinks
  <2> HIDE DEF t
  <2>5. [u \in Tasks |-> OfTask(u)]' = [u \in Tasks |-> OfTask(u)]
    BY <2>1
  <2>6. [u \in Tasks |-> GoingOn(u)]' = [[u \in Tasks |-> GoingOn(u)] EXCEPT ![t] = {r}]
    BY <1>2, <2>3
  <2>7. Ledger!TakeUp(t, r)
    BY <1>1, <1>2, <2>2, <2>4, <2>5, <2>6 DEF Ledger!TakeUp, Ledger!Dealt
  <2> QED BY <1>2, <2>7
<1> QED BY <1>3, <1>4

-----------------------------------------------------------------------------
(* The messages of the ledger *)

\* Every step writes the messages the way the ledger allows.
LEMMA WritesInLedger ==
  ASSUME CoreType, CoreType', SentWasDelivered', Next PROVE Ledger!Write
<1> DEFINE States == {"none", "pending", "sent", "dropped"}
           M == [f \in Followups |-> Message(f)]
           D == {f \in Followups : hits[f] > 0}
<1>1. RowsType /\ RowsType'
  BY DEF CoreType
<1>2. \A f \in Followups : Message(f) \in States /\ Message(f)' \in States
  BY <1>1 DEF RowsType, FollowupRows, Message
<1>3. D \subseteq D' /\ D' \subseteq Followups
  BY HitsGrow
<1>4. ASSUME NEW f \in Followups
      PROVE  \/ Message(f)' = Message(f)
             \/ Message(f) = "none" /\ Message(f)' = "pending"
             \/ Message(f) = "pending" /\ Message(f)' \in {"sent", "dropped"}
  <2>1. CASE KeepsFollowups(fup')
    <3>1. /\ fup[f].status \in Settled => fup'[f] = fup[f]
          /\ fup'[f].status = "pending" => fup[f].status = "pending"
          /\ fup[f].status = "none" <=> fup'[f].status = "none"
      BY <2>1 DEF KeepsFollowups
    <3>2. /\ fup[f].status \in {"none", "pending"} \cup Settled
          /\ fup'[f].status \in {"none", "pending"} \cup Settled
      BY <1>1 DEF RowsType, FollowupRows, Settled
    <3> QED BY <3>1, <3>2 DEF Message, Settled
  <2>2. ASSUME NEW mode, AddsFollowup(mode)
        PROVE  fup'[f] = fup[f] \/ (fup[f].status = "none" /\ fup'[f].status = "pending")
    BY <1>1, <2>2 DEF AddsFollowup, NewFollowup, UnusedFollowup, RowsType, FollowupRows
  <2>3. ASSUME NEW t \in Tasks, SendFollowup(t, "steer") PROVE AddsFollowup("steer")
    BY <2>3 DEF SendFollowup, AddsFollowup, OfTask
  <2> QED BY <2>1, <2>2, <2>3, FollowupsChange DEF Message
<1>5. \A f \in Followups : Message(f)' = "sent" => hits'[f] > 0
  BY DEF Message, SentWasDelivered
<1> QED BY <1>2, <1>3, <1>4, <1>5 DEF Ledger!Write, Ledger!MayBecome

-----------------------------------------------------------------------------
(* The refinement *)

\* The run service implements the ledger, for any number of cards, runs, messages
\* and restarts: behind every interleaving of requests, jobs, updates and recovery a
\* reader of the rows sees runs begin, end and be taken up one at a time, and
\* messages that are settled once, as sent only when they were delivered.
THEOREM KeepsLedgerHolds == Spec => KeepsLedger
<1>1. Init => Ledger!Init /\ RunsHaveTasks
  <2> SUFFICES ASSUME Init PROVE Ledger!Init /\ RunsHaveTasks
    OBVIOUS
  <2>1. \A r \in Runs : run[r].task = NoTask /\ run[r].status = "none"
    BY DEF Init
  <2>2. \A t \in Tasks : OfTask(t) = {} /\ GoingOn(t) = {}
    BY <2>1, TasksAssumption DEF OfTask, GoingOn
  <2>3. recovery.stopping = {} /\ recovery.todo = {}
    BY DEF Init, NoRecovery
  <2>4. \A f \in Followups : Message(f) = "none" /\ ~(hits[f] > 0)
    BY DEF Init, Message
  <2>5. Ledger!Init
    BY <2>2, <2>3, <2>4 DEF Ledger!Init
  <2> QED BY <2>1, <2>3, <2>5 DEF RunsHaveTasks
<1>2. IInv /\ RunsHaveTasks /\ [Next]_vars => RunsHaveTasks'
  <2>1. IInv /\ RunsHaveTasks /\ Next => RunsHaveTasks'
    BY TypeParts, TasksStep DEF IInv
  <2>2. RunsHaveTasks /\ UNCHANGED vars => RunsHaveTasks'
    BY DEF RunsHaveTasks, vars
  <2> QED BY <2>1, <2>2
<1>3. IInv /\ IInv' /\ RunsHaveTasks /\ RunsHaveTasks' /\ OneActiveRun /\ SentWasDelivered'
        /\ [Next]_vars => [Ledger!Next]_(Ledger!vars)
  <2>1. ASSUME IInv, IInv', RunsHaveTasks, RunsHaveTasks', OneActiveRun, SentWasDelivered', Next
        PROVE  Ledger!Next
    <3>1. CoreType /\ CoreType' /\ RunChange
      BY <2>1, TypeParts, CoreStep, RunsChange DEF IInv
    <3>2. Ledger!Write
      BY <2>1, <3>1, WritesInLedger
    <3>3. KeepsEnded(run') => (\E T \in SUBSET Tasks : Ledger!End(T)) \/ Ledger!Restart
      BY <2>1, <3>1, EndsInLedger
    <3>4. CreatesRun => \E t \in Tasks, r \in Runs : Ledger!Begin(t, r)
      BY <2>1, <3>1, BeginsInLedger
    <3>5. ResumesRun => (\E t \in Tasks, r \in Runs : Ledger!TakeUp(t, r)) \/ KeepsEnded(run')
      BY <2>1, <3>1, TakenUpInLedger
    <3> QED BY <3>1, <3>2, <3>3, <3>4, <3>5 DEF RunChange, Ledger!Next
  <2>2. ASSUME UNCHANGED vars PROVE UNCHANGED Ledger!vars
    BY <2>2 DEF vars, Ledger!vars, OfTask, GoingOn, Active, Message
  <2> QED BY <2>1, <2>2
<1> QED BY <1>1, <1>2, <1>3, Invariant, OneActiveRunHolds, SentWasDeliveredHolds, PTL
        DEF Spec, KeepsLedger, Ledger!Spec

-----------------------------------------------------------------------------
(***************************************************************************)
(* What is at rest when a run is over: its queue, and the runs of an       *)
(* archived card.                                                          *)
(***************************************************************************)

-----------------------------------------------------------------------------
(* Runs and restarts *)

\* Only a restart counts as one.
LEMMA RestartsCount ==
  ASSUME CoreType, Next
  PROVE  (Restart /\ restarts' # 0) \/ (~Restart /\ restarts' = restarts)
<1>1. ASSUME NEW r \in Runs, RunStep(r) PROVE UNCHANGED restarts
  BY <1>1 DEF RunStep, LaunchOk, LaunchFails, ContinueAnswer, QueueAnswer, TurnRuns, TurnWaits,
     TurnEndsUnseen, TurnEnds, Recover, RecoverNext, ApplyToEnded, ApplyFinished,
     ApplyFinishedSends, ApplyStopped, ApplyFailure, boot
<1>2. ASSUME NEW f \in Followups, SteerStep(f) PROVE UNCHANGED restarts
  BY <1>2 DEF SteerStep, SteerAfterLaunch, SteerSend, SteerAnswer, ResendAnswer, boot
<1>3. ASSUME NEW c \in Calls, CallStep(c) PROVE UNCHANGED restarts
  BY <1>3 DEF CallStep, Resume, Typed, TurnTakes, boot
<1>4. BoardStep \/ AppServerTerminates => UNCHANGED restarts
  BY DEF BoardStep, StartTask, ContinueTask, SendFollowup, StopIdleTask, HandMove, ReworkTask,
     RestoreTask, ArchiveUnstarted, AppServerTerminates, boot
<1>5. RequestStep => UNCHANGED restarts
  BY DEF RequestStep, StopRequest, ArchiveRequest, StopSignals, StopSettles, StopReturns,
     ApplyRequest, CloseSessions, StopAnswer, boot
<1>6. restarts \in Nat
  BY DEF CoreType, BootType
<1>7. Restart => restarts' # 0 /\ restarts' # restarts
  BY <1>6 DEF Restart
<1> QED BY <1>1, <1>2, <1>3, <1>4, <1>5, <1>7, Steps DEF ProviderStep

\* Until the first restart there is nothing to recover.
NotRecovering == restarts = 0 => recovery.todo = {} /\ recovery.stopping = {}

\* Every step keeps it.
LEMMA NotRecoveringStep ==
  ASSUME CoreType, NotRecovering, Next PROVE NotRecovering'
BY RestartsCount, RecoveryShrinks DEF NotRecovering

\* A row that is used stays with its card.
LEMMA UsedRunsStay ==
  ASSUME CoreType, RunsHaveTasks, Next, NEW r \in Runs, run[r].status # "none"
  PROVE  run'[r].status # "none" /\ run'[r].task = run[r].task
<1>1. RunChange /\ recovery.stopping \subseteq Runs
  BY RunsChange DEF CoreType, BootType
<1>2. CASE KeepsEnded(run')
  BY <1>2 DEF KeepsEnded
<1>3. CASE CreatesRun
  BY <1>3 DEF CreatesRun
<1>4. CASE ResumesRun
  BY <1>4 DEF ResumesRun
<1> QED BY <1>1, <1>2, <1>3, <1>4 DEF RunChange

-----------------------------------------------------------------------------
(* Which run a follow-up belongs to *)

SameOwner(f) ==
  /\ fup'[f].run = fup[f].run /\ fup'[f].task = fup[f].task
  /\ fup'[f].status = "none" <=> fup[f].status = "none"
  /\ fup'[f].status = "pending" => fup[f].status = "pending"
  /\ fup'[f].status = "pending" /\ fup[f].run \in Runs =>
       fup'[f].mode = fup[f].mode \/ Active(fup[f].run)'

\* A follow-up is saved on the active run of its card.
Saved(f) ==
  \E r \in Runs :
    /\ fup[f].status = "none" /\ Active(r) /\ Active(r)' /\ run[r].status # "stopping"
    /\ run'[r].status # "stopping"
    /\ fup'[f].run = r /\ fup'[f].task = run[r].task /\ fup'[f].status # "none"

\* A queued follow-up becomes one of the run whose finished update sends it.
SentBy(f) ==
  \E r \in Runs :
    /\ f \in finishing[r] /\ call[<<"queue", r>>] # "none" /\ run[r].status = "running"
    /\ run'[r].status \in {"running", "finished"}
    /\ fup[f].status = "pending" /\ fup'[f].status \in {"sent", "failed"}
    /\ fup'[f].run = r /\ fup'[f].task = fup[f].task

\* A steer is sent again in a new run of its card.
Reopened(f) ==
  \E r \in Runs :
    /\ run[r].status = "none" /\ run'[r].status = "starting" /\ run'[r].task = fup[f].task
    /\ run[fup[f].run].status = "finished" /\ run[fup[f].run].task = fup[f].task
    /\ run'[r].session = run[fup[f].run].session
    /\ fup[f].status = "pending" /\ fup'[f].status = "pending" /\ fup'[f].mode = "queue"
    /\ fup'[f].run = r /\ fup'[f].task = fup[f].task

OwnerChange(f) == SameOwner(f) \/ Saved(f) \/ SentBy(f) \/ Reopened(f)

\* Cancelling and settling follow-ups leaves them with their runs.
LEMMA SameOwners ==
  ASSUME RowsType, NEW f \in Followups
  PROVE  /\ UNCHANGED fup => SameOwner(f)
         /\ \A t, modes : fup' = Cancel(fup, t, modes) => SameOwner(f)
         /\ \A g \in Followups, s \in Settled :
              fup' = Settle(fup, g, s) => SameOwner(f)
         /\ \A r : FailLaunch(fup, r) => SameOwner(f)
         /\ \A g \in Followups, s \in Settled : \A r :
              FailLaunch(Settle(fup, g, s), r) => SameOwner(f)
<1> USE DEF RowsType, FollowupRows, SameOwner, Settled
<1>1. UNCHANGED fup => SameOwner(f)
  OBVIOUS
<1>2. \A t, modes : fup' = Cancel(fup, t, modes) => SameOwner(f)
  BY DEF Cancel
<1>3. \A g \in Followups, s \in Settled : fup' = Settle(fup, g, s) => SameOwner(f)
  BY DEF Settle
<1>4. \A r : FailLaunch(fup, r) => SameOwner(f)
  BY <1>1, <1>2 DEF FailLaunch
<1>5. ASSUME NEW g \in Followups, NEW s \in Settled, NEW r, FailLaunch(Settle(fup, g, s), r)
      PROVE  SameOwner(f)
  <2> DEFINE F == Settle(fup, g, s)
  <2>1. /\ F[f].run = fup[f].run /\ F[f].task = fup[f].task
        /\ F[f].status = "none" <=> fup[f].status = "none"
        /\ F[f].status = "pending" => fup[f].status = "pending" /\ F[f].mode = fup[f].mode
    BY DEF Settle
  <2>2. F \in FollowupRows
    BY SettleRows
  <2>3. fup' = F \/ fup' = Cancel(F, run[r].task, {"queue"})
    BY <1>5 DEF FailLaunch
  <2> HIDE DEF F
  <2> QED BY <2>1, <2>2, <2>3 DEF Cancel
<1> QED BY <1>1, <1>2, <1>3, <1>4, <1>5

\* A steer that is converted stays with its run, or is sent again in a new one.
LEMMA ConvertedOwner ==
  ASSUME RowsType, NEW f \in Followups, NEW g \in Followups, fup[g].status = "pending",
         NEW code, NEW R, NEW T, NEW K, ConvertSteer(g, code, R, T, K),
         fup[g].run \in Runs /\ Active(fup[g].run) => R[fup[g].run].status \in ActiveStatus
  PROVE  SameOwner(f) \/ (Reopened(f) /\ f = g)
<1> USE DEF RowsType, FollowupRows, RunRows, SameOwner, Reopened, Queued
<1>1. CASE run' = R /\ Active(fup[g].run) /\ fup' = Queued(g, code)
  <2>1. fup[g].run \in Runs => Active(fup[g].run)'
    BY <1>1 DEF Active
  <2>2. CASE f = g
    BY <1>1, <2>1, <2>2
  <2>3. CASE f # g
    BY <1>1, <2>3
  <2> QED BY <2>2, <2>3
<1>3. CASE fup' = [Queued(g, code) EXCEPT ![g].status = "failed"]
  BY <1>3
<1>2. ASSUME NEW n \in Runs, UnusedRun(n), ~Active(fup[g].run), CanContinueWith(fup[g].task, fup[g].run),
             run' = NewRun(n, fup[g].task, run[fup[g].run].session),
             fup' = [Queued(g, code) EXCEPT ![g].run = n]
      PROVE  SameOwner(f) \/ (Reopened(f) /\ f = g)
  <2>1. CASE f = g
    <3>1. /\ fup[g].run \in Runs /\ run[fup[g].run].status = "finished"
          /\ run[fup[g].run].task = fup[g].task /\ run[n].status = "none"
      BY <1>2 DEF CanContinueWith, IsLatest, OfTask, UnusedRun
    <3>2. /\ run'[n].status = "starting" /\ run'[n].task = fup[g].task
          /\ run'[n].session = run[fup[g].run].session
      BY <1>2 DEF NewRun
    <3>3. /\ fup'[g].run = n /\ fup'[g].task = fup[g].task
          /\ fup'[g].status = "pending" /\ fup'[g].mode = "queue"
      BY <1>2
    <3> QED BY <2>1, <3>1, <3>2, <3>3
  <2>2. CASE f # g
    BY <1>2, <2>2
  <2> QED BY <2>1, <2>2
<1> QED BY <1>1, <1>2, <1>3 DEF ConvertSteer

\* The updates before an answer leave the active runs active.
LEMMA AnsweredActive ==
  ASSUME RowsType, NEW r \in Runs, Active(r), NEW c, NEW a
  PROVE  AnsweredRun(run, c, a)[r].status \in ActiveStatus
BY DEF RowsType, RunRows, Active, ActiveStatus, AnsweredRun, Running

\* A follow-up that waits behind a continuation is saved on its run.
LEMMA SavedOwner ==
  ASSUME RowsType, NEW f \in Followups, NEW g \in Followups, NEW r \in Runs, NEW mode,
         Active(r), run[r].status # "stopping", Active(r)', run'[r].status # "stopping",
         UnusedFollowup(g), fup' = NewFollowup(g, r, mode)
  PROVE  SameOwner(f) \/ Saved(f)
<1> USE DEF RowsType, FollowupRows
<1>1. CASE f = g
  BY <1>1 DEF Saved, NewFollowup, UnusedFollowup
<1>2. CASE f # g
  BY <1>2 DEF SameOwner, NewFollowup
<1> QED BY <1>1, <1>2

\* What any step may do to the run a follow-up belongs to
LEMMA OwnersChange ==
  ASSUME CoreType, Next, NEW f \in Followups PROVE OwnerChange(f)
<1> USE DEF OwnerChange
<1>1. RowsType
  BY DEF CoreType
<1>2. CASE UNCHANGED fup
  BY <1>1, <1>2, SameOwners
<1>3. CASE \E t, modes : fup' = Cancel(fup, t, modes)
  BY <1>1, <1>3, SameOwners
<1>4. ASSUME NEW r \in Runs, RunStep(r) PROVE OwnerChange(f)
  <2>1. CASE LaunchFails(r)
    BY <1>1, <2>1, SameOwners DEF LaunchFails
  <2>2. ASSUME NEW a \in AnswerKinds, ContinueAnswer(r, a) PROVE OwnerChange(f)
    <3>1. CASE FailLaunch(fup, r)
      BY <1>1, <3>1, SameOwners
    <3>2. ASSUME NEW g \in Followups, run[r].status \notin {"stopping", "stopped"}, a = "waiting",
                 Active(r), run' = AnsweredRun(run, <<"continue", r>>, a),
                 UnusedFollowup(g), fup' = NewFollowup(g, r, "queue")
          PROVE  OwnerChange(f)
      <4>1. run' = Running(run, r, TRUE)
        BY <3>2 DEF AnsweredRun, CallRun
      <4>2. Active(r)' /\ run'[r].status # "stopping"
        BY <1>1, <3>2, <4>1 DEF Running, RowsType, RunRows, Active, ActiveStatus
      <4> QED BY <1>1, <3>2, <4>2, SavedOwner
    <3> QED BY <1>2, <2>2, <3>1, <3>2 DEF ContinueAnswer
  <2>3. ASSUME NEW a \in AnswerKinds, NEW g \in Followups, QueueAnswer(r, g, a)
        PROVE  OwnerChange(f)
    <3>1. CASE QueueLive(r, g) /\ a # "waiting"
      <4>1. fup' = [fup EXCEPT ![g].status = IF Delivered(a) THEN "sent" ELSE "failed", ![g].run = r]
        BY <2>3, <3>1 DEF QueueAnswer, AnswerKinds, Delivered
      <4>2. run' = AnsweredRun(run, <<"queue", r>>, a) \/ FinishRun(run, r)
        BY <2>3 DEF QueueAnswer
      <4>3. run'[r].status \in {"running", "finished"}
        BY <1>1, <3>1, <4>2 DEF AnsweredRun, Running, CallRun, FinishRun, QueueLive, RowsType, RunRows
      <4>4. g \in finishing[r] /\ call[<<"queue", r>>] # "none"
        BY <2>3 DEF QueueAnswer, IsFirst
      <4>5. CASE f = g
        BY <1>1, <3>1, <4>1, <4>3, <4>4, <4>5 DEF SentBy, QueueLive, RowsType, FollowupRows
      <4>6. CASE f # g
        BY <1>1, <4>1, <4>6 DEF SameOwner, RowsType, FollowupRows
      <4> QED BY <4>5, <4>6
    <3>2. CASE ~(QueueLive(r, g) /\ a # "waiting")
      <4>1. a = "waiting" => UNCHANGED fup
        BY <2>3 DEF QueueAnswer, Delivered
      <4>2. ~QueueLive(r, g) => UNCHANGED fup
        BY <2>3 DEF QueueAnswer
      <4> QED BY <1>2, <3>2, <4>1, <4>2
    <3> QED BY <3>1, <3>2
  <2>4. CASE ApplyStopped(r) \/ ApplyFailure(r)
    BY <1>3, <2>4 DEF ApplyStopped, ApplyFailure
  <2> QED
    BY <1>2, <1>4, <2>1, <2>2, <2>3, <2>4
    DEF RunStep, LaunchOk, TurnRuns, TurnWaits, TurnEndsUnseen, TurnEnds, Recover, RecoverNext,
        ApplyToEnded, ApplyFinished, ApplyFinishedSends, db
<1>5. ASSUME NEW g \in Followups, SteerStep(g) PROVE OwnerChange(f)
  <2>1. CASE SteerAfterLaunch(g) \/ SteerSend(g)
    <3>1. Active(fup[g].run) => run[fup[g].run].status \in ActiveStatus
      BY DEF Active
    <3> QED BY <1>1, <1>2, <2>1, <3>1, ConvertedOwner DEF SteerAfterLaunch, SteerSend, db
  <2>2. ASSUME NEW a \in AnswerKinds, SteerAnswer(g, a) PROVE OwnerChange(f)
    <3> DEFINE R == AnsweredRun(run, <<"steer", g>>, a)
    <3>1. fup[g].run \in Runs /\ Active(fup[g].run) => R[fup[g].run].status \in ActiveStatus
      BY <1>1, AnsweredActive
    <3>2. \/ fup[g].status = "pending" /\ \E code, T, K : ConvertSteer(g, code, R, T, K)
          \/ fup' = Settle(fup, g, "sent") \/ UNCHANGED fup
      BY <2>2 DEF SteerAnswer
    <3> HIDE DEF R
    <3> QED BY <1>1, <1>2, <3>1, <3>2, ConvertedOwner, SameOwners DEF Settled
  <2>3. ASSUME NEW a \in AnswerKinds, ResendAnswer(g, a) PROVE OwnerChange(f)
    <3>1. \E s \in Settled : \/ fup' = Settle(fup, g, s) \/ UNCHANGED fup
                             \/ \E r : FailLaunch(Settle(fup, g, s), r)
      BY <2>3 DEF ResendAnswer, Settled
    <3> QED BY <1>1, <3>1, SameOwners
  <2> QED BY <1>5, <2>1, <2>2, <2>3 DEF SteerStep
<1>6. ASSUME NEW c \in Calls, CallStep(c) PROVE OwnerChange(f)
  BY <1>2, <1>6 DEF CallStep, Resume, Typed, TurnTakes, db
<1>7. CASE BoardStep
  <2>1. ASSUME NEW t \in Tasks, NEW mode, SendFollowup(t, mode) PROVE OwnerChange(f)
    <3>1. PICK r \in Runs, g \in Followups :
            /\ Active(r) /\ run[r].status # "stopping"
            /\ UnusedFollowup(g) /\ fup' = NewFollowup(g, r, mode)
      BY <2>1 DEF SendFollowup, OfTask
    <3>2. UNCHANGED run
      BY <2>1 DEF SendFollowup
    <3>3. Active(r)' /\ run'[r].status # "stopping"
      BY <3>1, <3>2 DEF Active
    <3> QED BY <1>1, <3>1, <3>3, SavedOwner
  <2>2. CASE \E t \in Tasks : StartTask(t)
    BY <1>3, <2>2 DEF StartTask
  <2> QED BY <1>2, <1>7, <2>1, <2>2
          DEF BoardStep, ContinueTask, StopIdleTask, HandMove, ReworkTask, RestoreTask, ArchiveUnstarted
<1>8. CASE RequestStep
  BY <1>2, <1>3, <1>8 DEF RequestStep, StopRequest, ArchiveRequest, StopSignals, StopSettles,
     StopReturns, ApplyRequest, CloseSessions, StopAnswer, db
<1>9. CASE Restart
  BY <1>1, <1>9 DEF Restart, InterruptedSteers, RowsType, FollowupRows, SameOwner
<1>10. CASE AppServerTerminates
  BY <1>2, <1>10 DEF AppServerTerminates, db
<1> QED BY <1>4, <1>5, <1>6, <1>7, <1>8, <1>9, <1>10, Steps DEF ProviderStep

-----------------------------------------------------------------------------
(* Segments and events *)

\* What happens to a run from outside the segments of the board
RunEvent(r) ==
  \/ LaunchOk(r) \/ LaunchFails(r) \/ TurnRuns(r) \/ TurnWaits(r) \/ TurnEndsUnseen(r)
  \/ \E s \in EndedStatus : TurnEnds(r, s)
  \/ \E s \in {"running", "finished", "interrupted"} : Recover(r, s)
  \/ \E a \in AnswerKinds : ContinueAnswer(r, a)
  \/ \E a \in AnswerKinds, f \in Followups : QueueAnswer(r, f, a)

SteerEvent(f) == \E a \in AnswerKinds : SteerAnswer(f, a) \/ ResendAnswer(f, a)

RequestEvent(q) ==
  \/ \E t \in Tasks, kind \in {"stop", "move", "archive"}, dest \in CardStatus \cup {NoMove} :
       StopRequest(q, t, kind, dest) /\ (kind = "move" => dest \in HandMoves)
  \/ \E t \in Tasks : ArchiveRequest(q, t)
  \/ CloseSessions(q) \/ \E ok \in BOOLEAN : StopAnswer(q, ok)

EventStep ==
  \/ \E r \in Runs : RunEvent(r)
  \/ \E f \in Followups : SteerEvent(f)
  \/ \E c \in Calls : CallStep(c)
  \/ \E q \in Requests : RequestEvent(q)
  \/ BoardStep \/ AppServerTerminates

\* The segments, by what they work on
RunSegment(r) ==
  \/ ApplyToEnded(r) \/ ApplyFinished(r) \/ ApplyFinishedSends(r)
  \/ ApplyStopped(r) \/ ApplyFailure(r) \/ RecoverNext(r)
RequestSegment(q) == StopSignals(q) \/ StopSettles(q) \/ StopReturns(q) \/ ApplyRequest(q)

SegmentStep ==
  \/ \E r \in Runs : RunSegment(r)
  \/ \E f \in Followups : SteerAfterLaunch(f) \/ SteerSend(f)
  \/ \E q \in Requests : RequestSegment(q)

\* A step is a segment, or a restart, or an event that came while no segment was ready.
LEMMA SegmentOrEvent ==
  ASSUME Next
  PROVE  (SegmentStep \/ (~SegmentReady /\ EventStep) \/ Restart) /\ VersionCheck /\ UNCHANGED setup
<1>1. CASE Segment
  BY <1>1 DEF Segment, SegmentStep, RunSegment, RequestSegment, Next
<1>2. ASSUME Event PROVE EventStep
  <2>1. CASE Board
    <3>1. \A dest \in Destinations : dest \in CardStatus \cup {NoMove}
      BY ColumnsAssumption DEF CardStatus
    <3>2. \A dest \in HandMoves : dest \in CardStatus
      BY ColumnsAssumption
    <3>3. PICK t \in Tasks :
            \/ BoardStep
            \/ \E q \in Requests :
                 \/ \E dest \in Destinations : StopRequest(q, t, "stop", dest)
                 \/ \E dest \in HandMoves \ {"in_progress"} : StopRequest(q, t, "move", dest)
                 \/ StopRequest(q, t, "archive", NoMove)
                 \/ ArchiveRequest(q, t)
      BY <2>1 DEF Board, BoardStep
    <3> QED BY <3>1, <3>2, <3>3 DEF EventStep, RequestEvent
  <2>2. CASE \E c \in Calls : CallAnswer(c)
    <3>1. PICK c \in Calls, a \in AnswerKinds :
            \/ c[1] = "continue" /\ ContinueAnswer(c[2], a)
            \/ c[1] = "queue" /\ \E f \in Followups : QueueAnswer(c[2], f, a)
            \/ c[1] = "steer" /\ SteerAnswer(c[2], a)
            \/ c[1] = "resend" /\ ResendAnswer(c[2], a)
      BY <2>2 DEF CallAnswer
    <3>2. CASE c \in {"continue", "queue"} \X Runs
      BY <3>1, <3>2 DEF EventStep, RunEvent
    <3>3. CASE c \in {"steer", "resend"} \X Followups
      BY <3>1, <3>3 DEF EventStep, SteerEvent
    <3> QED BY <3>2, <3>3 DEF Calls
  <2>3. CASE Session
    BY <2>3 DEF Session, EventStep, RunEvent, CallStep
  <2>4. CASE \E r \in Runs : LaunchAnswer(r) \/ RecoverAnswer(r)
    BY <2>4 DEF LaunchAnswer, RecoverAnswer, EventStep, RunEvent
  <2>5. CASE \E q \in Requests : RequestAnswer(q)
    BY <2>5 DEF RequestAnswer, EventStep, RequestEvent
  <2> QED BY <1>2, <2>1, <2>2, <2>3, <2>4, <2>5 DEF Event
<1> QED BY <1>1, <1>2 DEF Next

\* Jobs, providers and changes of a card leave the requests in a handler alone.
LEMMA RequestsUntouched ==
  /\ \A r \in Runs : RunSegment(r) \/ RunEvent(r) => UNCHANGED req
  /\ \A f \in Followups : SteerAfterLaunch(f) \/ SteerSend(f) \/ SteerEvent(f) => UNCHANGED req
  /\ \A c \in Calls : CallStep(c) => UNCHANGED req
  /\ BoardStep \/ AppServerTerminates => UNCHANGED req
<1>1. ASSUME NEW r \in Runs, RunSegment(r) \/ RunEvent(r) PROVE RunStep(r)
  BY <1>1 DEF RunSegment, RunEvent, RunStep
<1>2. ASSUME NEW f \in Followups, SteerAfterLaunch(f) \/ SteerSend(f) \/ SteerEvent(f) PROVE SteerStep(f)
  BY <1>2 DEF SteerEvent, SteerStep
<1> QED BY <1>1, <1>2, RequestsWait DEF ProviderStep

\* How a request moves on in its handler
RequestMoves(q) ==
  \/ req'[q] = req[q] \/ Restart
  \/ StopSignals(q) \/ StopSettles(q) \/ StopReturns(q) \/ ApplyRequest(q)
  \/ ~SegmentReady /\ RequestEvent(q)

\* Only the handler of a request moves it on.
LEMMA RequestsChange ==
  ASSUME CoreType, Next, NEW q \in Requests PROVE RequestMoves(q)
<1> USE DEF CoreType, RequestsType, Handlers
<1>1. CASE SegmentStep
  <2>1. ASSUME NEW p \in Requests, p # q, RequestSegment(p) PROVE req'[q] = req[q]
    BY <2>1 DEF RequestSegment, StopSignals, StopSettles, StopReturns, ApplyRequest, At, Reply
  <2>2. CASE RequestSegment(q)
    BY <2>2 DEF RequestSegment, RequestMoves
  <2> QED BY <1>1, <2>1, <2>2, RequestsUntouched DEF SegmentStep, RequestMoves
<1>2. CASE ~SegmentReady /\ EventStep
  <2>1. ASSUME NEW p \in Requests, p # q, RequestEvent(p) PROVE req'[q] = req[q]
    BY <2>1 DEF RequestEvent, StopRequest, Waiting, ArchiveRequest, CloseSessions, StopAnswer, At
  <2> QED BY <1>2, <2>1, RequestsUntouched DEF EventStep, RequestMoves
<1>3. CASE Restart
  BY <1>3 DEF Restart, RequestMoves
<1> QED BY <1>1, <1>2, <1>3, SegmentOrEvent

-----------------------------------------------------------------------------
(* Rows that refer to one another *)

\* Only a finished update puts follow-ups on the list it sends.
LEMMA FinishingChange ==
  ASSUME CoreType, Next, NEW r \in Runs
  PROVE  finishing'[r] \subseteq finishing[r] \/ ApplyFinishedSends(r)
<1> USE DEF CoreType, JobsType
<1> DEFINE Goal == finishing'[r] \subseteq finishing[r] \/ ApplyFinishedSends(r)
<1>1. CASE UNCHANGED finishing
  BY <1>1
<1>2. ASSUME NEW s \in Runs, RunStep(s) PROVE Goal
  <2>1. ASSUME NEW a \in AnswerKinds, NEW f \in Followups, QueueAnswer(s, f, a) PROVE Goal
    BY <2>1 DEF QueueAnswer
  <2>2. CASE ApplyFinishedSends(s)
    BY <2>2 DEF ApplyFinishedSends
  <2> QED
    BY <1>1, <1>2, <2>1, <2>2
    DEF RunStep, LaunchOk, LaunchFails, ContinueAnswer, TurnRuns, TurnWaits, TurnEndsUnseen, TurnEnds,
        Recover, RecoverNext, ApplyToEnded, ApplyFinished, ApplyStopped, ApplyFailure, jobs
<1>3. ASSUME NEW f \in Followups, SteerStep(f) PROVE UNCHANGED finishing
  BY <1>3 DEF SteerStep, SteerAfterLaunch, SteerSend, SteerAnswer, ResendAnswer
<1>4. ASSUME NEW c \in Calls, CallStep(c) PROVE UNCHANGED finishing
  BY <1>4 DEF CallStep, Resume, Typed, TurnTakes, jobs
<1>5. BoardStep \/ AppServerTerminates => UNCHANGED finishing
  BY DEF BoardStep, StartTask, ContinueTask, SendFollowup, StopIdleTask, HandMove, ReworkTask,
     RestoreTask, ArchiveUnstarted, AppServerTerminates, jobs
<1>6. RequestStep => UNCHANGED finishing
  BY DEF RequestStep, StopRequest, ArchiveRequest, StopSignals, StopSettles, StopReturns,
     ApplyRequest, CloseSessions, StopAnswer, jobs
<1>7. CASE Restart
  BY <1>7 DEF Restart
<1> QED BY <1>1, <1>2, <1>3, <1>4, <1>5, <1>6, <1>7, Steps DEF ProviderStep

\* Run r is used, and is one of card t.
UsedBy(r, t) == r \in Runs /\ run[r].status # "none" /\ run[r].task = t

\* A follow-up, an update's list and a request refer to a run of their card.
RowsLinked ==
  /\ \A f \in Followups :
       IF fup[f].status = "none" THEN fup[f].run = 0 ELSE UsedBy(fup[f].run, fup[f].task)
  /\ \A r \in Runs : \A f \in finishing[r] : fup[f].status # "none" /\ UsedBy(r, fup[f].task)
  /\ \A q \in Requests :
       req[q].pc # "idle" =>
         \/ UsedBy(req[q].run, req[q].task)
         \/ req[q].kind = "archive" /\ req[q].pc \in {"closing", "apply"} /\ req[q].run = 0
              /\ req[q].task \in Tasks

\* A request that starts to wait is about an active run, or an archive without one.
LEMMA RequestsLinked ==
  ASSUME CoreType, RowsLinked, Next, NEW q \in Requests, req'[q].pc # "idle"
  PROVE  \/ /\ req'[q].run = req[q].run /\ req'[q].task = req[q].task /\ req'[q].kind = req[q].kind
            /\ req[q].pc # "idle"
            /\ req[q].pc \in {"closing", "apply"} => req'[q].pc \in {"closing", "apply"}
         \/ /\ req'[q].run \in Runs /\ Active(req'[q].run) /\ run[req'[q].run].task = req'[q].task
            /\ UNCHANGED run
         \/ req'[q].kind = "archive" /\ req'[q].pc = "closing" /\ req'[q].run = 0 /\ req'[q].task \in Tasks
<1> USE DEF CoreType, RequestsType, Handlers
<1> DEFINE Goal ==
      \/ /\ req'[q].run = req[q].run /\ req'[q].task = req[q].task /\ req'[q].kind = req[q].kind
         /\ req[q].pc # "idle"
         /\ req[q].pc \in {"closing", "apply"} => req'[q].pc \in {"closing", "apply"}
      \/ /\ req'[q].run \in Runs /\ Active(req'[q].run) /\ run[req'[q].run].task = req'[q].task
         /\ UNCHANGED run
      \/ req'[q].kind = "archive" /\ req'[q].pc = "closing" /\ req'[q].run = 0 /\ req'[q].task \in Tasks
<1>1. CASE req'[q] = req[q]
  BY <1>1
<1>2. CASE Restart \/ ApplyRequest(q)
  BY <1>2 DEF IdleRequest, Restart, ApplyRequest, Reply
<1>3. CASE StopSignals(q) \/ StopSettles(q) \/ StopReturns(q)
  <2>1. CASE StopSignals(q)
    BY <2>1 DEF StopSignals, At
  <2>2. CASE StopSettles(q)
    BY <2>2 DEF StopSettles, At, Reply, IdleRequest
  <2>3. CASE StopReturns(q)
    BY <2>3 DEF StopReturns, At, Reply, IdleRequest
  <2> QED BY <1>3, <2>1, <2>2, <2>3
<1>4. CASE RequestEvent(q)
  <2>1. ASSUME NEW t \in Tasks, NEW kind, NEW dest, StopRequest(q, t, kind, dest) PROVE Goal
    <3>1. PICK r \in Runs : run[r].task = t /\ Active(r) /\ Waiting(q, t, r, kind, dest)
      BY <2>1 DEF StopRequest, OfTask
    <3>2. req'[q].run = r /\ req'[q].task = t
      BY <3>1 DEF Waiting, IdleRequest
    <3>3. UNCHANGED run
      BY <2>1 DEF StopRequest, db
    <3> QED BY <3>1, <3>2, <3>3
  <2>2. ASSUME NEW t \in Tasks, ArchiveRequest(q, t) PROVE Goal
    BY <2>2 DEF ArchiveRequest, IdleRequest
  <2>3. CASE CloseSessions(q)
    BY <2>3 DEF CloseSessions, At
  <2>4. ASSUME NEW ok \in BOOLEAN, StopAnswer(q, ok) PROVE Goal
    BY <2>4 DEF StopAnswer
  <2> QED BY <1>4, <2>1, <2>2, <2>3, <2>4 DEF RequestEvent
<1> QED BY <1>1, <1>2, <1>3, <1>4, RequestsChange DEF RequestMoves

\* Every step keeps the references.
LEMMA RowsLinkedStep ==
  ASSUME CoreType, CoreType', RunsHaveTasks, RowsLinked, Next PROVE RowsLinked'
<1>1. \A r : \A t : UsedBy(r, t) => UsedBy(r, t)'
  BY UsedRunsStay DEF UsedBy
<1>2. ASSUME NEW f \in Followups
      PROVE  /\ fup'[f].status = "none" => fup'[f].run = 0
             /\ fup'[f].status # "none" => UsedBy(fup[f].run, fup[f].task)' /\ (fup[f].status # "none" => fup'[f].task = fup[f].task)
  <2>1. CASE SameOwner(f)
    BY <1>1, <2>1 DEF SameOwner, RowsLinked, UsedBy
  <2>2. CASE Saved(f)
    BY <2>2, UsedRunsStay DEF Saved, UsedBy, Active, ActiveStatus
  <2>3. CASE SentBy(f)
    <3>1. PICK r \in Runs : f \in finishing[r] /\ fup'[f].run = r /\ fup'[f].task = fup[f].task
                              /\ fup'[f].status \in {"sent", "failed"}
      BY <2>3 DEF SentBy
    <3>2. UsedBy(r, fup[f].task)'
      BY <1>1, <3>1 DEF RowsLinked, UsedBy
    <3> QED BY <3>1, <3>2 DEF UsedBy
  <2>4. CASE Reopened(f)
    BY <2>4 DEF Reopened, UsedBy
  <2> QED BY <2>1, <2>2, <2>3, <2>4, OwnersChange DEF OwnerChange
<1>3. \A f \in Followups : fup[f].status # "none" => fup'[f].status # "none"
  BY OwnersChange DEF OwnerChange, SameOwner, Saved, SentBy, Reopened
<1>4. ASSUME NEW r \in Runs, NEW f \in finishing'[r] PROVE fup'[f].status # "none" /\ UsedBy(r, fup[f].task)'
  <2>1. f \in Followups
    BY DEF CoreType, JobsType
  <2>2. CASE f \in finishing[r]
    <3>1. fup[f].status # "none" /\ UsedBy(r, fup[f].task)
      BY <2>2 DEF RowsLinked
    <3>2. UsedBy(r, fup[f].task) => run'[r].status # "none" /\ run'[r].task = fup[f].task
      BY UsedRunsStay DEF UsedBy
    <3> QED BY <1>2, <1>3, <2>1, <3>1, <3>2 DEF UsedBy
  <2>3. CASE ApplyFinishedSends(r)
    <3>1. fup'[f] = fup[f] /\ fup[f].task = run[r].task /\ fup[f].status = "pending" /\ run[r].status # "none"
      BY <2>3 DEF ApplyFinishedSends, PendingQueue, Active, ActiveStatus, CoreType, JobsType
    <3> QED BY <3>1, UsedRunsStay DEF UsedBy
  <2> QED BY <2>2, <2>3, FinishingChange
<1>5. ASSUME NEW q \in Requests, req'[q].pc # "idle"
      PROVE  \/ UsedBy(req[q].run, req[q].task)'
             \/ req'[q].kind = "archive" /\ req'[q].pc \in {"closing", "apply"} /\ req'[q].run = 0
                  /\ req'[q].task \in Tasks
  <2>1. CASE /\ req'[q].run = req[q].run /\ req'[q].task = req[q].task /\ req'[q].kind = req[q].kind
             /\ req[q].pc # "idle"
             /\ req[q].pc \in {"closing", "apply"} => req'[q].pc \in {"closing", "apply"}
    <3>1. CASE UsedBy(req[q].run, req[q].task)
      BY <2>1, <3>1, UsedRunsStay DEF UsedBy
    <3>2. CASE ~UsedBy(req[q].run, req[q].task)
      BY <2>1, <3>2 DEF RowsLinked
    <3> QED BY <3>1, <3>2
  <2>2. CASE req'[q].run \in Runs /\ Active(req'[q].run) /\ run[req'[q].run].task = req'[q].task
               /\ UNCHANGED run
    BY <2>2 DEF UsedBy, Active, ActiveStatus
  <2>3. \/ /\ req'[q].run = req[q].run /\ req'[q].task = req[q].task /\ req'[q].kind = req[q].kind
           /\ req[q].pc # "idle"
           /\ req[q].pc \in {"closing", "apply"} => req'[q].pc \in {"closing", "apply"}
        \/ /\ req'[q].run \in Runs /\ Active(req'[q].run) /\ run[req'[q].run].task = req'[q].task
           /\ UNCHANGED run
        \/ req'[q].kind = "archive" /\ req'[q].pc = "closing" /\ req'[q].run = 0 /\ req'[q].task \in Tasks
    BY <1>5, RequestsLinked
  <2> QED BY <2>1, <2>2, <2>3
<1> QED BY <1>2, <1>4, <1>5 DEF RowsLinked

-----------------------------------------------------------------------------
(* The queue of a run that ended *)

Gone == {"failed", "interrupted", "stopped"}
Queue(f) == fup[f].status = "pending" /\ fup[f].mode = "queue"

\* A run ends with its queue canceled, or by a stop that goes on to cancel it.
LEMMA EndsCancel ==
  ASSUME CoreType, Next, NEW r \in Runs, run[r].status \notin Gone, run'[r].status \in Gone
  PROVE  \/ \A f \in Followups : Queue(f)' => fup'[f].task # run[r].task
         \/ \E q \in Requests : req[q].run = r /\ req'[q].run = r /\ req'[q].pc = "stopped"
         \/ run[r].status = "stopping" /\ UNCHANGED <<fup, req>>
<1> USE DEF CoreType, RowsType, FollowupRows, RunRows, Queue, Gone
<1> DEFINE Canceled == \A f \in Followups : Queue(f)' => fup'[f].task # run[r].task
           Goal == \/ Canceled
                   \/ \E q \in Requests : req[q].run = r /\ req'[q].run = r /\ req'[q].pc = "stopped"
                   \/ run[r].status = "stopping" /\ UNCHANGED <<fup, req>>
<1>1. ASSUME NEW F \in FollowupRows, fup' = Cancel(F, run[r].task, {"queue"}) PROVE Canceled
  BY <1>1 DEF Cancel
<1>2. ASSUME NEW F \in FollowupRows, NEW s, FailLaunch(F, s) PROVE Canceled
  <2>1. Active(s) /\ run' = [run EXCEPT ![s].status = "failed"] /\ fup' = Cancel(F, run[s].task, {"queue"})
    BY <1>2 DEF FailLaunch
  <2>2. s = r
    BY <2>1
  <2> QED BY <1>1, <2>1, <2>2
<1>3. \A c : \A a : run' = AnsweredRun(run, c, a) => FALSE
  BY DEF AnsweredRun, Running
<1>4. ASSUME NEW s \in Runs, RunStep(s) PROVE Goal
  <2>1. CASE LaunchFails(s)
    BY <1>2, <2>1 DEF LaunchFails
  <2>2. ASSUME NEW a \in AnswerKinds, ContinueAnswer(s, a) PROVE Goal
    BY <1>2, <1>3, <2>2 DEF ContinueAnswer
  <2>3. ASSUME NEW a \in AnswerKinds, NEW f \in Followups, QueueAnswer(s, f, a) PROVE Goal
    BY <1>3, <2>3 DEF QueueAnswer, FinishRun
  <2>4. CASE ApplyStopped(s)
    <3>1. s = r
      BY <2>4 DEF ApplyStopped, Ended
    <3> QED BY <1>1, <2>4, <3>1 DEF ApplyStopped
  <2>5. CASE ApplyFailure(s)
    <3>1. s = r
      BY <2>5 DEF ApplyFailure
    <3> QED BY <1>1, <2>5, <3>1 DEF ApplyFailure
  <2>6. CASE ApplyFinished(s)
    <3>1. CASE run[s].status = "stopping" /\ run' = Ended(s, "stopped")
      <4>1. s = r
        BY <3>1 DEF Ended
      <4> QED BY <2>6, <3>1, <4>1 DEF ApplyFinished
    <3>2. CASE run' = [Ended(s, "finished") EXCEPT ![s].status = "finished"]
      BY <3>2 DEF Ended
    <3> QED BY <2>6, <3>1, <3>2 DEF ApplyFinished, FinishRun
  <2>7. CASE ApplyFinishedSends(s)
    BY <2>7 DEF ApplyFinishedSends, Ended
  <2>8. CASE ApplyToEnded(s) \/ RecoverNext(s) \/ TurnEndsUnseen(s) \/ \E e \in EndedStatus : TurnEnds(s, e)
    BY <2>8 DEF ApplyToEnded, RecoverNext, TurnEndsUnseen, TurnEnds, db
  <2>9. CASE TurnRuns(s) \/ TurnWaits(s)
    BY <2>9 DEF TurnRuns, TurnWaits, Running
  <2>10. ASSUME NEW e, Recover(s, e) PROVE FALSE
    <3> DEFINE R == Resumed(s)
    <3>1. /\ R \in RunRows
          /\ \A o \in Runs : R[o].status = run[o].status \/ R[o].status = "running"
      BY DEF Resumed, RunStatus, ActiveStatus
    <3>2. run' = run \/ run' = R \/ run' = Running([R EXCEPT ![s].session = SessionOf(s)], s, FALSE)
      BY <2>10 DEF Recover
    <3> HIDE DEF R
    <3> DEFINE Q == [R EXCEPT ![s].session = SessionOf(s)]
    <3>3. \A o \in Runs : Q[o].status = R[o].status
      BY <3>1
    <3>4. Q \in [Runs -> [task : Tasks \cup {NoTask}, status : RunStatus, session : {Q[o].session : o \in Runs},
                         waiting : BOOLEAN]]
      BY <3>1
    <3>6. run' = run \/ run' = R \/ run' = Running(Q, s, FALSE)
      BY <3>2
    <3> HIDE DEF Q
    <3>5. Running(Q, s, FALSE)[r].status \in {Q[r].status, "running"}
      BY <3>4 DEF Running
    <3> QED BY <3>1, <3>3, <3>5, <3>6
  <2>11. CASE LaunchOk(s)
    BY <2>11 DEF LaunchOk
  <2> QED BY <1>4, <2>1, <2>2, <2>3, <2>4, <2>5, <2>6, <2>7, <2>8, <2>9, <2>10, <2>11 DEF RunStep
<1>5. ASSUME NEW f \in Followups, SteerStep(f) PROVE Goal
  <2>1. ASSUME NEW code, NEW R, NEW T, NEW K, R = run \/ \E c, a : R = AnsweredRun(run, c, a),
               ConvertSteer(f, code, R, T, K)
        PROVE  FALSE
    <3>1. \A n : run' # NewRun(n, fup[f].task, run[fup[f].run].session)
      BY DEF NewRun
    <3> QED BY <1>3, <2>1, <3>1 DEF ConvertSteer
  <2>2. CASE SteerAfterLaunch(f) \/ SteerSend(f)
    BY <2>1, <2>2 DEF SteerAfterLaunch, SteerSend, db
  <2>3. ASSUME NEW a \in AnswerKinds, SteerAnswer(f, a) PROVE Goal
    BY <1>3, <2>1, <2>3 DEF SteerAnswer
  <2>4. ASSUME NEW a \in AnswerKinds, ResendAnswer(f, a) PROVE Goal
    <3>1. Settle(fup, f, "failed") \in FollowupRows
      BY SettleRows
    <3>2. \A s : run' = [run EXCEPT ![s].status = "finished"] => FALSE
      OBVIOUS
    <3> QED BY <1>2, <1>3, <2>4, <3>1, <3>2 DEF ResendAnswer
  <2> QED BY <1>5, <2>2, <2>3, <2>4 DEF SteerStep
<1>6. ASSUME NEW c \in Calls, CallStep(c) PROVE Goal
  BY <1>6 DEF CallStep, Resume, Typed, TurnTakes, Running, db
<1>7. CASE BoardStep
  <2>1. ASSUME NEW n, NEW t, NEW e, run' = NewRun(n, t, e) PROVE FALSE
    <3>1. CASE n = r
      BY <2>1, <3>1 DEF NewRun
    <3>2. CASE n # r
      BY <2>1, <3>2 DEF NewRun
    <3> QED BY <3>1, <3>2
  <2>2. ASSUME NEW t \in Tasks, StartTask(t) \/ ContinueTask(t) PROVE FALSE
    <3>1. \E n, e : run' = NewRun(n, t, e)
      BY <2>2 DEF StartTask, ContinueTask
    <3> QED BY <2>1, <3>1
  <2>3. run' # run
    OBVIOUS
  <2> QED BY <1>7, <2>2, <2>3 DEF BoardStep, SendFollowup, StopIdleTask, HandMove, ReworkTask, RestoreTask,
             ArchiveUnstarted
<1>8. CASE RequestStep
  <2>1. ASSUME NEW q \in Requests, StopSettles(q) PROVE Goal
    <3>1. req[q].run = r
      BY <2>1 DEF StopSettles, Ended
    <3>2. req[q].resume \in {"starting", "running"} /\ req \in [Requests -> Handlers]
      BY DEF RequestsType, Handlers
    <3>3. run' # [run EXCEPT ![req[q].run].status = req[q].resume]
      BY <3>2
    <3>4. At(q, "stopped")
      BY <2>1, <3>3 DEF StopSettles
    <3> QED BY <3>1, <3>2, <3>4 DEF At, Handlers
  <2>2. ASSUME NEW q \in Requests, StopSignals(q) PROVE FALSE
    BY <2>2 DEF StopSignals
  <2>3. UNCHANGED run => FALSE
    OBVIOUS
  <2> QED BY <1>8, <2>1, <2>2, <2>3 DEF RequestStep, StopRequest, ArchiveRequest, StopReturns,
             ApplyRequest, CloseSessions, StopAnswer, db
<1>9. CASE Restart \/ AppServerTerminates
  BY <1>9 DEF Restart, AppServerTerminates, db
<1> QED BY <1>4, <1>5, <1>6, <1>7, <1>8, <1>9, Steps DEF ProviderStep

\* A follow-up joins the queue of an active run.
LEMMA QueueGrows ==
  ASSUME CoreType, RowsLinked, Next, NEW f \in Followups, Queue(f)'
  PROVE  \/ Queue(f) /\ fup'[f].run = fup[f].run /\ fup'[f].task = fup[f].task
         \/ fup'[f].run \in Runs /\ Active(fup[f].run)'
<1>1. CASE SameOwner(f)
  <2>1. fup[f].run \in Runs
    BY <1>1 DEF SameOwner, Queue, RowsLinked, UsedBy
  <2> QED BY <1>1, <2>1 DEF SameOwner, Queue
<1>2. CASE Saved(f)
  BY <1>2 DEF Saved
<1>3. CASE SentBy(f)
  BY <1>3 DEF SentBy, Queue
<1>4. CASE Reopened(f)
  BY <1>4 DEF Reopened, Active, ActiveStatus
<1> QED BY <1>1, <1>2, <1>3, <1>4, OwnersChange DEF OwnerChange

\* A run becomes `stopping' by a stop that goes on to settle it.
StopsNow(r) ==
  \E q \in Requests : /\ StopSignals(q) /\ req[q].run = r /\ req'[q].run = r
                      /\ req'[q].pc \in {"stopping", "delivery"}

\* Nothing else makes a run `stopping'.
LEMMA StoppingStarts ==
  ASSUME CoreType, Next, NEW r \in Runs, run[r].status # "stopping", run'[r].status = "stopping"
  PROVE  StopsNow(r)
<1> USE DEF CoreType, RowsType, FollowupRows, RunRows
<1>1. run' # run
  OBVIOUS
<1>2. \A s : \A e \in RunStatus \ {"stopping"} :
        run' # [run EXCEPT ![s].status = e] /\ run' # Ended(s, e)
  BY DEF Ended
<1>3. \A c : \A a : run' # AnsweredRun(run, c, a)
  BY DEF AnsweredRun, Running
<1>4. \A s : \A w : run' # Running(run, s, w)
  BY DEF Running
<1>5. \A n, t, e : run' # NewRun(n, t, e)
  <2> SUFFICES ASSUME NEW n, NEW t, NEW e, run' = NewRun(n, t, e) PROVE FALSE
    OBVIOUS
  <2>1. CASE n = r
    BY <2>1 DEF NewRun
  <2>2. CASE n # r
    BY <2>2 DEF NewRun
  <2> QED BY <2>1, <2>2
<1>6. \A F, s : ~FailLaunch(F, s)
  BY <1>1, <1>2 DEF FailLaunch, RunStatus, EndedStatus
<1>7. ASSUME NEW s \in Runs, RunStep(s) PROVE FALSE
  <2>1. \A F : ~FinishRun(run, s) /\ ~FinishRun(Ended(s, "finished"), s)
    BY DEF FinishRun, Ended
  <2>2. ~(ApplyFinished(s) \/ ApplyFinishedSends(s) \/ ApplyStopped(s) \/ ApplyFailure(s))
    BY <1>2, <2>1 DEF ApplyFinished, ApplyFinishedSends, ApplyStopped, ApplyFailure, RunStatus,
       ActiveStatus, EndedStatus
  <2>3. ASSUME NEW e, Recover(s, e) PROVE FALSE
    <3> DEFINE R == Resumed(s)
    <3>1. R \in RunRows /\ R[r].status # "stopping"
      BY DEF Resumed, RunStatus, ActiveStatus
    <3>2. run' = run \/ run' = R \/ run' = Running([R EXCEPT ![s].session = SessionOf(s)], s, FALSE)
      BY <2>3 DEF Recover
    <3> HIDE DEF R
    <3> QED BY <3>1, <3>2 DEF Running
  <2>4. ~LaunchOk(s) /\ ~TurnRuns(s)
    BY DEF LaunchOk, TurnRuns, Running
  <2>5. ASSUME NEW a \in AnswerKinds, NEW f \in Followups, QueueAnswer(s, f, a) PROVE FALSE
    BY <1>3, <2>1, <2>5 DEF QueueAnswer
  <2>6. ASSUME NEW a \in AnswerKinds, ContinueAnswer(s, a) PROVE FALSE
    BY <1>3, <1>6, <2>6 DEF ContinueAnswer
  <2> QED BY <1>1, <1>4, <1>6, <1>7, <2>2, <2>3, <2>4, <2>5, <2>6
          DEF RunStep, LaunchFails, TurnWaits, TurnEndsUnseen, TurnEnds, RecoverNext, ApplyToEnded, db
<1>8. ASSUME NEW f \in Followups, SteerStep(f) PROVE FALSE
  <2>1. ASSUME NEW code, NEW R, NEW T, NEW K, R = run \/ \E c, a : R = AnsweredRun(run, c, a),
               ConvertSteer(f, code, R, T, K)
        PROVE  FALSE
    BY <1>1, <1>3, <1>5, <2>1 DEF ConvertSteer
  <2>2. CASE SteerAfterLaunch(f) \/ SteerSend(f)
    BY <1>1, <2>1, <2>2 DEF SteerAfterLaunch, SteerSend, db
  <2>3. ASSUME NEW a \in AnswerKinds, SteerAnswer(f, a) PROVE FALSE
    BY <1>3, <2>1, <2>3 DEF SteerAnswer
  <2>4. ASSUME NEW a \in AnswerKinds, ResendAnswer(f, a) PROVE FALSE
    BY <1>1, <1>2, <1>3, <1>6, <2>4 DEF ResendAnswer, RunStatus, EndedStatus
  <2> QED BY <1>8, <2>2, <2>3, <2>4 DEF SteerStep
<1>9. ASSUME NEW c \in Calls, CallStep(c) PROVE FALSE
  BY <1>1, <1>4, <1>9 DEF CallStep, Resume, Typed, TurnTakes, db
<1>10. ~BoardStep
  <2>1. ASSUME NEW t \in Tasks, StartTask(t) \/ ContinueTask(t) PROVE FALSE
    <3>1. StartTask(t) => \E n : run' = NewRun(n, t, 0)
      BY DEF StartTask
    <3>2. ContinueTask(t) => \E last \in OfTask(t), n \in Runs : run' = NewRun(n, t, run[last].session)
      BY DEF ContinueTask
    <3> QED BY <1>5, <2>1, <3>1, <3>2
  <2> QED BY <1>1, <2>1 DEF BoardStep, SendFollowup, StopIdleTask, HandMove, ReworkTask, RestoreTask,
             ArchiveUnstarted
<1>11. ASSUME NEW q \in Requests, StopSettles(q) PROVE FALSE
  <2>1. req[q].resume \in {"starting", "running"} /\ "stopped" \in RunStatus
    BY DEF RequestsType, Handlers, RunStatus, EndedStatus
  <2> QED BY <1>1, <1>2, <1>11, <2>1 DEF StopSettles, RunStatus, ActiveStatus
<1>12. ASSUME NEW q \in Requests, StopSignals(q) PROVE StopsNow(r)
  <2>1. req[q].run = r
    BY <1>1, <1>12 DEF StopSignals
  <2>2. req'[q].run = r /\ req'[q].pc \in {"stopping", "delivery"}
    BY <1>1, <1>12, <2>1 DEF StopSignals, RequestsType, Handlers
  <2> QED BY <1>12, <2>1, <2>2 DEF StopsNow
<1>13. RequestStep => StopsNow(r)
  BY <1>1, <1>11, <1>12 DEF RequestStep, StopRequest, ArchiveRequest, StopReturns, ApplyRequest,
     CloseSessions, StopAnswer, db
<1>14. ~Restart /\ ~AppServerTerminates
  BY <1>1 DEF Restart, AppServerTerminates, db
<1> QED BY <1>7, <1>8, <1>9, <1>10, <1>13, <1>14, Steps DEF ProviderStep

\* A run is `stopping' for a request that will settle it.
StopHasRequest ==
  \A r \in Runs : run[r].status = "stopping" =>
    \E q \in Requests : req[q].run = r /\ req[q].pc \in {"stopping", "delivery"}

\* Every step but a restart keeps it.
LEMMA StopHasRequestStep ==
  ASSUME CoreType, StopHasRequest, Next, ~Restart PROVE StopHasRequest'
<1> SUFFICES ASSUME NEW r \in Runs, run'[r].status = "stopping"
             PROVE  \E q \in Requests : req'[q].run = r /\ req'[q].pc \in {"stopping", "delivery"}
  BY DEF StopHasRequest
<1>1. CASE run[r].status # "stopping"
  BY <1>1, StoppingStarts DEF StopsNow
<1>2. CASE run[r].status = "stopping"
  <2>1. PICK q \in Requests : req[q].run = r /\ req[q].pc \in {"stopping", "delivery"}
    BY <1>2 DEF StopHasRequest
  <2>2. ~StopSettles(q)
    <3>1. ~Over(q) /\ req[q].resume \in {"starting", "running"}
      BY <1>2, <2>1 DEF Over, Active, ActiveStatus, CoreType, RequestsType, Handlers
    <3> QED BY <2>1, <3>1 DEF StopSettles, Ended, CoreType, RowsType, RunRows
  <2>3. ~RequestEvent(q) \/ \E ok \in BOOLEAN : StopAnswer(q, ok)
    BY <2>1 DEF RequestEvent, StopRequest, ArchiveRequest, CloseSessions
  <2>4. (\E ok \in BOOLEAN : StopAnswer(q, ok)) => req'[q].run = r /\ req'[q].pc = "delivery"
    BY <2>1 DEF StopAnswer, CoreType, RequestsType, Handlers
  <2>5. ~StopSignals(q) /\ ~StopReturns(q) /\ ~ApplyRequest(q)
    BY <2>1 DEF StopSignals, StopReturns, ApplyRequest
  <2> QED BY <2>1, <2>2, <2>3, <2>4, <2>5, RequestsChange DEF RequestMoves
<1> QED BY <1>1, <1>2

\* The queue of a run that ended waits for the stop that will cancel it.
QueueIsWatched ==
  \A f \in Followups : Queue(f) /\ run[fup[f].run].status \in Gone =>
    \E q \in Requests : req[q].run = fup[f].run /\ req[q].pc \in {"stopping", "delivery", "stopped"}

\* Every step but a restart keeps it, while recovery has nothing to take up.
LEMMA QueueIsWatchedStep ==
  ASSUME CoreType, CoreType', RowsLinked, StopHasRequest, QueueIsWatched, Next, ~Restart
  PROVE  QueueIsWatched'
<1> SUFFICES ASSUME NEW f \in Followups, Queue(f)', run'[fup'[f].run].status \in Gone
             PROVE  \E q \in Requests : /\ req'[q].run = fup'[f].run
                                        /\ req'[q].pc \in {"stopping", "delivery", "stopped"}
  BY DEF QueueIsWatched
<1> DEFINE r == fup[f].run
<1>1. Queue(f) /\ fup'[f].run = r /\ fup'[f].task = fup[f].task
  BY QueueGrows DEF Active, ActiveStatus, Gone
<1>2. UsedBy(r, fup[f].task)
  BY <1>1 DEF Queue, RowsLinked
<1>3. CASE run[r].status \in Gone
  <2>1. PICK q \in Requests : req[q].run = r /\ req[q].pc \in {"stopping", "delivery", "stopped"}
    BY <1>1, <1>3 DEF QueueIsWatched
  <2>2. req[q].task = fup[f].task
    BY <1>2, <2>1 DEF RowsLinked, UsedBy
  <2>3. ~StopReturns(q)
    BY <2>2, <1>1 DEF StopReturns, Cancel, Queue, CoreType, RowsType, FollowupRows
  <2>4. StopSettles(q) => req'[q].run = r /\ req'[q].pc = "stopped"
    <3>1. Over(q)
      BY <1>3, <2>1 DEF Over, Active, ActiveStatus, Gone
    <3> QED BY <2>1, <3>1 DEF StopSettles, At, CoreType, RequestsType, Handlers
  <2>5. ~RequestEvent(q) \/ \E ok \in BOOLEAN : StopAnswer(q, ok)
    BY <2>1 DEF RequestEvent, StopRequest, ArchiveRequest, CloseSessions
  <2>6. (\E ok \in BOOLEAN : StopAnswer(q, ok)) => req'[q].run = r /\ req'[q].pc = "delivery"
    BY <2>1 DEF StopAnswer, CoreType, RequestsType, Handlers
  <2>7. ~StopSignals(q) /\ ~ApplyRequest(q)
    BY <2>1 DEF StopSignals, ApplyRequest
  <2> QED BY <1>1, <2>1, <2>3, <2>4, <2>5, <2>6, <2>7, RequestsChange DEF RequestMoves
<1>4. CASE run[r].status \notin Gone
  <2>1. r \in Runs /\ run[r].task = fup[f].task
    BY <1>2 DEF UsedBy
  <2>2. CASE \E q \in Requests : req[q].run = r /\ req'[q].run = r /\ req'[q].pc = "stopped"
    BY <1>1, <2>2
  <2>3. CASE run[r].status = "stopping" /\ UNCHANGED <<fup, req>>
    BY <1>1, <2>1, <2>3 DEF StopHasRequest
  <2> QED BY <1>1, <1>4, <2>1, <2>2, <2>3, EndsCancel
<1> QED BY <1>3, <1>4

-----------------------------------------------------------------------------
(* The runs of an archived card *)

\* A card is archived by the request that waited for it, if the card did not change
\* meanwhile, or before it had a run.
LEMMA CardsArchived ==
  ASSUME CoreType, Next, NEW t \in Tasks, ~card[t].archived, card'[t].archived
  PROVE  \/ OfTask(t) = {} /\ UNCHANGED run
         \/ \E q \in fresh : q \in Requests /\ ApplyRequest(q) /\ req[q].task = t
<1> USE DEF CoreType, RowsType, CardRows
<1> DEFINE Goal == \/ OfTask(t) = {} /\ UNCHANGED run
                   \/ \E q \in fresh : q \in Requests /\ ApplyRequest(q) /\ req[q].task = t
<1>1. card' # card
  OBVIOUS
<1>2. \A u, s : card' # MoveTo(u, s)
  BY DEF MoveTo
<1>3. \A u, s : card' # MoveFromInProgress(u, s)
  BY DEF MoveFromInProgress
<1>4. \A F, r : ~FailLaunch(F, r)
  BY <1>1, <1>3 DEF FailLaunch
<1>5. \A R, r : ~FinishRun(R, r)
  BY <1>3 DEF FinishRun
<1>6. ASSUME NEW s \in Runs, RunStep(s) PROVE FALSE
  <2>1. ~(ApplyFinished(s) \/ ApplyFinishedSends(s) \/ ApplyStopped(s) \/ ApplyFailure(s))
    BY <1>1, <1>3, <1>5 DEF ApplyFinished, ApplyFinishedSends, ApplyStopped, ApplyFailure
  <2>2. ASSUME NEW a \in AnswerKinds, NEW f \in Followups, QueueAnswer(s, f, a) PROVE FALSE
    BY <1>1, <1>5, <2>2 DEF QueueAnswer
  <2>3. ASSUME NEW a \in AnswerKinds, ContinueAnswer(s, a) PROVE FALSE
    BY <1>1, <1>4, <2>3 DEF ContinueAnswer
  <2> QED BY <1>1, <1>4, <1>6, <2>1, <2>2, <2>3
          DEF RunStep, LaunchOk, LaunchFails, TurnRuns, TurnWaits, TurnEndsUnseen, TurnEnds, Recover,
              RecoverNext, ApplyToEnded, db
<1>7. ASSUME NEW f \in Followups, SteerStep(f) PROVE FALSE
  <2>1. \A code, R, T, K : ~ConvertSteer(f, code, R, T, K)
    BY <1>1, <1>2 DEF ConvertSteer
  <2>2. ASSUME NEW a \in AnswerKinds, SteerAnswer(f, a) PROVE FALSE
    BY <1>1, <2>1, <2>2 DEF SteerAnswer
  <2>3. ASSUME NEW a \in AnswerKinds, ResendAnswer(f, a) PROVE FALSE
    BY <1>1, <1>3, <1>4, <2>3 DEF ResendAnswer
  <2> QED BY <1>1, <1>7, <2>1, <2>2, <2>3 DEF SteerStep, SteerAfterLaunch, SteerSend, db
<1>8. ASSUME NEW c \in Calls, CallStep(c) PROVE FALSE
  BY <1>1, <1>8 DEF CallStep, Resume, Typed, TurnTakes, db
<1>9. ASSUME BoardStep PROVE Goal
  <2>1. PICK u \in Tasks :
          \/ StartTask(u) \/ ContinueTask(u)
          \/ \E mode \in {"queue", "steer"} : SendFollowup(u, mode)
          \/ \E dest \in Destinations : StopIdleTask(u, dest)
          \/ \E s \in HandMoves : HandMove(u, s)
          \/ ReworkTask(u) \/ RestoreTask(u) \/ ArchiveUnstarted(u)
    BY <1>9 DEF BoardStep
  <2>2. ~StartTask(u) /\ ~ContinueTask(u)
    BY <1>2 DEF StartTask, ContinueTask
  <2>3. ~\E mode \in {"queue", "steer"} : SendFollowup(u, mode)
    BY <1>1 DEF SendFollowup
  <2>4. ~\E dest \in Destinations : StopIdleTask(u, dest)
    BY <1>2 DEF StopIdleTask
  <2>5. ~\E s \in HandMoves : HandMove(u, s)
    BY <1>2 DEF HandMove
  <2>6. ~ReworkTask(u) /\ ~RestoreTask(u)
    BY <1>2 DEF ReworkTask, RestoreTask
  <2>7. ArchiveUnstarted(u) => u = t
    BY DEF ArchiveUnstarted
  <2> QED BY <2>1, <2>2, <2>3, <2>4, <2>5, <2>6, <2>7 DEF ArchiveUnstarted
<1>10. ASSUME NEW q \in Requests, ApplyRequest(q) PROVE Goal
  <2>1. q \in fresh /\ card' = [card EXCEPT ![req[q].task].archived = TRUE]
    BY <1>1, <1>2, <1>10 DEF ApplyRequest
  <2>2. req[q].task = t
    BY <2>1
  <2> QED BY <1>10, <2>1, <2>2
<1>11. RequestStep => Goal
  <2>1. \A q \in Requests : ~StopReturns(q)
    BY <1>1, <1>2 DEF StopReturns
  <2> QED BY <1>1, <1>10, <2>1 DEF RequestStep, StopRequest, ArchiveRequest, StopSignals, StopSettles,
             CloseSessions, StopAnswer, db
<1>12. ~Restart /\ ~AppServerTerminates
  BY <1>1 DEF Restart, AppServerTerminates, db
<1> QED BY <1>6, <1>7, <1>8, <1>9, <1>11, <1>12, Steps DEF ProviderStep

\* A request keeps its run and its card until it is answered.
LEMMA RequestsKept ==
  ASSUME CoreType, Next, NEW q \in Requests, req[q].pc # "idle", req'[q].pc # "idle"
  PROVE  req'[q].run = req[q].run /\ req'[q].task = req[q].task /\ req'[q].kind = req[q].kind
<1> USE DEF CoreType, RequestsType, Handlers
<1>1. ~Restart /\ ~ApplyRequest(q)
  BY DEF Restart, ApplyRequest, Reply, IdleRequest
<1>2. CASE RequestEvent(q)
  <2>1. CloseSessions(q) \/ \E ok \in BOOLEAN : StopAnswer(q, ok)
    BY <1>2 DEF RequestEvent, StopRequest, ArchiveRequest
  <2>2. CASE CloseSessions(q)
    BY <2>2 DEF CloseSessions, At
  <2>3. ASSUME NEW ok \in BOOLEAN, StopAnswer(q, ok)
        PROVE  req'[q].run = req[q].run /\ req'[q].task = req[q].task /\ req'[q].kind = req[q].kind
    BY <2>3 DEF StopAnswer
  <2> QED BY <2>1, <2>2, <2>3
<1>3. CASE StopSignals(q)
  BY <1>3 DEF StopSignals, At
<1>4. CASE StopSettles(q)
  BY <1>4 DEF StopSettles, At, Reply, IdleRequest
<1>5. CASE StopReturns(q)
  BY <1>5 DEF StopReturns, At, Reply, IdleRequest
<1> QED BY <1>1, <1>2, <1>3, <1>4, <1>5, RequestsChange DEF RequestMoves

\* While the version of its card holds, a request knows the active run of the card:
\* the run it is stopping, and none once that is stopped.
RequestsRule ==
  \A q \in fresh : req[q].pc # "idle" =>
    \A r \in OfTask(req[q].task) : Active(r) =>
      r = req[q].run /\ req[q].pc \in {"launch", "stopping", "delivery"}

\* Every step but a restart keeps it, while recovery has nothing to take up.
LEMMA RequestsRuleStep ==
  ASSUME CoreType, fresh \subseteq Requests, RunsHaveTasks, NotRecovering, restarts = 0, OneActiveRun,
         RequestsRule, Next, ~Restart
  PROVE  RequestsRule'
<1> SUFFICES ASSUME NEW q \in fresh', req'[q].pc # "idle", NEW r \in OfTask(req[q].task)', Active(r)'
             PROVE  r = req'[q].run /\ req'[q].pc \in {"launch", "stopping", "delivery"}
  BY DEF RequestsRule
<1> USE DEF CoreType, RequestsType, Handlers
<1>1. q \in Requests /\ r \in Runs
  BY FreshStep DEF OfTask
<1>2. req[q].pc = "idle" \/ (q \in fresh /\ card'[req[q].task] = card[req[q].task])
  BY <1>1, SegmentOrEvent DEF VersionCheck
<1>3. CASE req[q].pc = "idle"
  <2>1. RequestEvent(q)
    BY <1>1, <1>3, RequestsChange
    DEF RequestMoves, StopSignals, StopSettles, StopReturns, ApplyRequest
  <2>2. ASSUME NEW t \in Tasks, NEW kind, NEW dest, StopRequest(q, t, kind, dest)
        PROVE  r = req'[q].run /\ req'[q].pc = "launch"
    <3>1. PICK o \in Runs : run[o].task = t /\ Active(o) /\ Waiting(q, t, o, kind, dest)
      BY <2>2 DEF StopRequest, OfTask
    <3>2. req'[q].run = o /\ req'[q].task = t /\ req'[q].pc = "launch"
      BY <1>1, <3>1 DEF Waiting, IdleRequest
    <3>3. UNCHANGED run
      BY <2>2 DEF StopRequest, db
    <3>4. run[r].task = t /\ Active(r)
      BY <3>2, <3>3 DEF OfTask, Active
    <3> QED BY <1>1, <3>1, <3>2, <3>4 DEF OneActiveRun
  <2>3. ASSUME NEW t \in Tasks, ArchiveRequest(q, t) PROVE FALSE
    <3>1. req'[q].task = t /\ UNCHANGED run
      BY <1>1, <2>3 DEF ArchiveRequest, IdleRequest
    <3> QED BY <1>1, <2>3, <3>1 DEF ArchiveRequest, NoActiveRun, OfTask, Active
  <2> QED BY <1>3, <2>1, <2>2, <2>3 DEF RequestEvent, CloseSessions, StopAnswer
<1>4. CASE req[q].pc # "idle"
  <2>1. req'[q].run = req[q].run /\ req'[q].task = req[q].task
    BY <1>1, <1>4, RequestsKept
  <2>2. run'[r].task = req[q].task
    BY <2>1 DEF OfTask
  <2>3. Active(r) /\ run[r].task = req[q].task
    <3>1. ~ResumesRun
      BY DEF NotRecovering, ResumesRun
    <3>2. CASE KeepsEnded(run')
      BY <1>1, <2>2, <3>2 DEF KeepsEnded, Active
    <3>3. CASE CreatesRun
      <4>1. PICK n \in Runs :
              /\ \A s \in Runs \ {n} : run'[s] = run[s]
              /\ ~card[run'[n].task].archived /\ card[run'[n].task].status # "in_progress"
              /\ card' = MoveTo(run'[n].task, "in_progress")
              /\ run'[n].task \in Tasks
                   \/ \E o \in Runs : run[o].status # "none" /\ run[o].task = run'[n].task
        BY <3>3 DEF CreatesRun
      <4>2. run'[n].task \in Tasks
        BY <4>1 DEF RunsHaveTasks
      <4>3. card'[run'[n].task] # card[run'[n].task]
        BY <4>1, <4>2 DEF MoveTo, RowsType, CardRows
      <4>4. r # n
        BY <1>2, <1>4, <2>2, <4>3
      <4> QED BY <1>1, <2>2, <4>1, <4>4 DEF Active
    <3> QED BY <3>1, <3>2, <3>3, RunsChange DEF RunChange
  <2>4. r = req[q].run /\ req[q].pc \in {"launch", "stopping", "delivery"}
    BY <1>1, <1>2, <1>4, <2>3 DEF RequestsRule, OfTask
  <2>5. StopSignals(q) => req'[q].pc \in {"stopping", "delivery"}
    BY <1>1, <2>3, <2>4 DEF StopSignals
  <2>6. ~StopSettles(q)
    <3>1. StopSettles(q) /\ Confirmed(q) => run'[r].status = "stopped"
      BY <1>1, <2>3, <2>4 DEF StopSettles, Over, Ended, RowsType, RunRows
    <3>2. StopSettles(q) /\ ~Confirmed(q) => req'[q].pc = "idle"
      BY <1>1, <2>3, <2>4 DEF StopSettles, Over, Reply, IdleRequest
    <3> QED BY <3>1, <3>2 DEF Active, ActiveStatus
  <2>7. ~StopReturns(q) /\ ~ApplyRequest(q)
    BY <2>4 DEF StopReturns, ApplyRequest
  <2>8. RequestEvent(q) => req'[q].pc = "delivery"
    <3>1. RequestEvent(q) => \E ok \in BOOLEAN : StopAnswer(q, ok)
      BY <2>4 DEF RequestEvent, StopRequest, ArchiveRequest, CloseSessions
    <3>2. ASSUME NEW ok \in BOOLEAN, StopAnswer(q, ok) PROVE req'[q].pc = "delivery"
      BY <1>1, <3>2 DEF StopAnswer
    <3> QED BY <3>1, <3>2
  <2> QED BY <1>1, <2>1, <2>4, <2>5, <2>6, <2>7, <2>8, RequestsChange DEF RequestMoves
<1> QED BY <1>3, <1>4

\* Every step but a restart leaves an archived card without an active run, while
\* recovery has nothing to take up.
LEMMA ArchivedIsQuietStep ==
  ASSUME CoreType, fresh \subseteq Requests, RunsHaveTasks, NotRecovering, restarts = 0,
         RequestsRule, ArchivedIsQuiet, Next, ~Restart
  PROVE  ArchivedIsQuiet'
<1> SUFFICES ASSUME NEW t \in Tasks, card'[t].archived, NEW r \in Runs, run'[r].task = t, Active(r)'
             PROVE  FALSE
  BY DEF ArchivedIsQuiet, NoActiveRun, OfTask
<1>1. ~ResumesRun
  BY DEF NotRecovering, ResumesRun
<1>2. CASE card[t].archived
  <2>1. NoActiveRun(t)
    BY <1>2 DEF ArchivedIsQuiet
  <2>2. ~KeepsEnded(run')
    BY <2>1 DEF NoActiveRun, OfTask, KeepsEnded, Active
  <2>3. ~CreatesRun
    BY <1>2, <2>1 DEF CreatesRun, NoActiveRun, OfTask, Active
  <2> QED BY <1>1, <2>2, <2>3, RunsChange DEF RunChange
<1>3. CASE ~card[t].archived
  <2>1. CASE OfTask(t) = {} /\ UNCHANGED run
    BY <2>1 DEF OfTask
  <2>2. ASSUME NEW q \in fresh, q \in Requests, ApplyRequest(q), req[q].task = t PROVE FALSE
    <3>1. UNCHANGED run /\ req[q].pc = "apply"
      BY <2>2 DEF ApplyRequest
    <3> QED BY <2>2, <3>1 DEF RequestsRule, OfTask, Active
  <2> QED BY <1>3, <2>1, <2>2, CardsArchived
<1> QED BY <1>2, <1>3

-----------------------------------------------------------------------------
(* What holds of the rows until the first restart *)

UpRows ==
  restarts = 0 => StopHasRequest /\ QueueIsWatched /\ RequestsRule /\ ArchivedIsQuiet

RowsInv ==
  IInv /\ OneActiveRun /\ RunsHaveTasks /\ RowsLinked /\ NotRecovering /\ UpRows

\* The board starts in the invariant.
LEMMA RowsInvInit == Init => RowsInv
<1> SUFFICES ASSUME Init PROVE RowsInv
  OBVIOUS
<1>1. IInv
  BY InitInv
<1>2. OneActiveRun /\ RunsHaveTasks /\ NotRecovering
  BY DEF Init, OneActiveRun, RunsHaveTasks, NotRecovering, NoRecovery, Active, ActiveStatus
<1>3. RowsLinked
  BY DEF Init, RowsLinked, IdleRequest
<1>4. UpRows
  BY DEF Init, UpRows, StopHasRequest, QueueIsWatched, Queue, RequestsRule, ArchivedIsQuiet, NoActiveRun,
     Active, ActiveStatus, IdleRequest
<1> QED BY <1>1, <1>2, <1>3, <1>4 DEF RowsInv

\* Every step keeps the invariant.
LEMMA RowsInvStep == RowsInv /\ OneActiveRun' /\ [Next]_vars => RowsInv'
<1>1. ASSUME RowsInv, OneActiveRun', Next PROVE RowsInv'
  <2>1. CoreType /\ fresh \subseteq Requests
    BY <1>1, TypeParts DEF RowsInv, IInv
  <2>2. IInv' /\ CoreType'
    BY <1>1, <2>1, NextInv, CoreStep DEF RowsInv, IInv
  <2>3. RunsHaveTasks' /\ NotRecovering' /\ RowsLinked'
    BY <1>1, <2>1, <2>2, TasksStep, NotRecoveringStep, RowsLinkedStep DEF RowsInv
  <2>4. ASSUME restarts' = 0
        PROVE  (StopHasRequest /\ QueueIsWatched /\ RequestsRule /\ ArchivedIsQuiet)'
    <3>1. ~Restart /\ restarts = 0
      BY <1>1, <2>1, <2>4, RestartsCount
    <3>2. StopHasRequest /\ QueueIsWatched /\ RequestsRule /\ ArchivedIsQuiet
      BY <1>1, <3>1 DEF RowsInv, UpRows
    <3> QED BY <1>1, <2>1, <2>2, <3>1, <3>2, StopHasRequestStep, QueueIsWatchedStep, RequestsRuleStep,
               ArchivedIsQuietStep DEF RowsInv
  <2> QED BY <1>1, <2>2, <2>3, <2>4 DEF RowsInv, UpRows
<1>2. ASSUME RowsInv, UNCHANGED vars PROVE RowsInv'
  <2>1. IInv'
    BY <1>2, NextInv DEF RowsInv
  <2>2. OneActiveRun' /\ RunsHaveTasks' /\ NotRecovering'
    BY <1>2 DEF RowsInv, OneActiveRun, RunsHaveTasks, NotRecovering, Active, vars
  <2>3. RowsLinked'
    BY <1>2 DEF RowsInv, RowsLinked, UsedBy, vars
  <2>4. UpRows'
    BY <1>2 DEF RowsInv, UpRows, StopHasRequest, QueueIsWatched, Queue, RequestsRule, ArchivedIsQuiet,
       NoActiveRun, OfTask, Active, vars
  <2> QED BY <2>1, <2>2, <2>3, <2>4 DEF RowsInv
<1> QED BY <1>1, <1>2

\* It holds in every state of every behaviour.
LEMMA RowsInvariant == Spec => []RowsInv
BY RowsInvInit, RowsInvStep, OneActiveRunHolds, PTL DEF Spec

\* Until the board is restarted, an archived card has no active run: an archive that
\* waited for a stop and for sessions to close is refused when the card was started or
\* continued meanwhile (archiveTask, VERSION_CONFLICT), for both providers.
THEOREM ArchivedIsQuietHolds == Spec => [](restarts = 0 => ArchivedIsQuiet)
<1>1. RowsInv => (restarts = 0 => ArchivedIsQuiet)
  BY DEF RowsInv, UpRows
<1> QED BY <1>1, RowsInvariant, PTL

\* Until the board is restarted, a run that failed, was interrupted or stopped leaves
\* nothing in the queue but what a stop in its handler is about to cancel, although a
\* steer may join the queue when its answer comes late (cancelQueuedAfterRunEnded).
THEOREM EndedRunKeepsNoQueueHolds == Spec => []EndedRunKeepsNoQueue
<1>1. RowsInv => EndedRunKeepsNoQueue
  <2> SUFFICES ASSUME RowsInv, restarts = 0, NEW f \in Followups, Queue(f), run[fup[f].run].status \in Gone
               PROVE  JobOf(fup[f].run)
    BY DEF EndedRunKeepsNoQueue, Queue, Gone
  <2>1. PICK q \in Requests : req[q].run = fup[f].run /\ req[q].pc \in {"stopping", "delivery", "stopped"}
    BY DEF RowsInv, UpRows, QueueIsWatched
  <2> QED BY <2>1 DEF JobOf
<1> QED BY <1>1, RowsInvariant, PTL

=============================================================================
