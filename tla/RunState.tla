------------------------------- MODULE RunState -------------------------------
(***************************************************************************)
(* State of the run service of the board server (server/runs/service.mjs): *)
(* the rows it keeps in the board database, the memory of the process, and *)
(* the AI sessions outside it.                                             *)
(*                                                                         *)
(* An AI agent works on a card of the board in RUNS.  While a run is       *)
(* active, people add FOLLOW-UPS to it: a `steer' goes into the turn the   *)
(* AI is working on, a `queue' one is sent when that turn has finished.    *)
(* Cards, runs and follow-ups survive a restart of the server; the memory  *)
(* does not.  `turn' and `hits' are the truth about the sessions, which    *)
(* the service only learns from updates and from the answers to its calls. *)
(***************************************************************************)
EXTENDS Integers, FiniteSets, Sequences

CONSTANTS
  Tasks,         \* the cards assigned to the AI agent
  NoTask,        \* the owner of a row that is not used yet
  MaxRuns,       \* bound: runs ever created
  MaxFollowups,  \* bound: follow-ups ever created
  Requests,      \* slots for the requests that wait in the middle of a handler
  HandMoves,     \* the columns people and agents move cards to
  Destinations,  \* the columns asked for with a stop, NoMove included
  Setups         \* the providers, each with the bounds it is explored with

NoMove == "none"

CardStatus ==
  {"backlog", "todo", "in_progress", "in_review", "blocked", "done", "canceled"}

ASSUME TasksAssumption == NoTask \notin Tasks /\ Tasks # {}
ASSUME BoundsAssumption == MaxRuns \in Nat \ {0} /\ MaxFollowups \in Nat
ASSUME ColumnsAssumption ==
  /\ HandMoves \subseteq CardStatus
  /\ Destinations \subseteq {NoMove, "backlog", "todo", "canceled"}

\* The AI is Claude (claude-bg.mjs) or Codex (codex-app.mjs); an interrupt may stay
\* unconfirmed (stop timeout) or not.  The other fields are bounds: the cards that are
\* used, runs and follow-ups created, requests waiting at a time, restarts of the board.
ASSUME SetupsAssumption ==
  Setups \subseteq [provider : {"claude", "codex"}, stopMayFail : BOOLEAN, tasks : SUBSET Tasks,
                    runs : Nat, followups : Nat, requests : Nat, restarts : Nat]

Runs == 1 .. MaxRuns
Followups == 1 .. MaxFollowups

ActiveStatus == {"starting", "running", "stopping"}
EndedStatus == {"finished", "failed", "interrupted", "stopped"}
RunStatus == ActiveStatus \cup EndedStatus \cup {"none"}

\* The provider calls that deliver a message to a session, by the job that makes
\* them: `continue' a task, send the `queue' after a finished turn, `steer' the
\* running turn, `resend' a steer whose turn ended meanwhile.
Calls == ({"continue", "queue"} \X Runs) \cup ({"steer", "resend"} \X Followups)

VARIABLES
  setup,      \* the setup of the behaviour, which never changes
  \* rows of the board database
  card,       \* [Tasks -> [status, archived]]
  run,        \* [Runs -> [task, status, session, waiting]]; a session is named
              \* after the run it was created for, 0 while it is not known
  fup,        \* [Followups -> [task, run, mode, status, code]]
  \* memory of the service
  launch,     \* the runs whose start job has not ended
  steer,      \* the await each steer job is at
  chain,      \* terminal updates of a run, the first one being applied
  finishing,  \* the queue a finished update is sending, empty when none is
  req,        \* stop / move / archive requests waiting in their handler
  fresh,      \* the requests whose card version is still the current one
  recovery,   \* startup recovery
  restarts,
  \* providers and sessions
  call,       \* the message deliveries in flight
  held,       \* Codex: the threads the app-server has loaded;
              \* Claude: the runs the poller follows since the board started
  muted,      \* Claude: the runs the poller keeps silent about (tracked.stopping)
  turn,       \* the turn of a run's session, `none' while there is none
  hits        \* how often a follow-up reached its session: 0, 1 or 2 (more)

db       == <<card, run, fup>>
jobs     == <<launch, steer, chain, finishing>>
boot     == <<recovery, restarts>>
sessions == <<call, held, muted, turn, hits>>
vars     == <<setup, card, run, fup, launch, steer, chain, finishing, req, fresh,
              recovery, restarts, call, held, muted, turn, hits>>

-----------------------------------------------------------------------------
(* Rows *)

Active(r) == run[r].status \in ActiveStatus
OfTask(t) == {r \in Runs : run[r].task = t}
NoActiveRun(t) == \A r \in OfTask(t) : ~Active(r)
IsLatest(r, t) == r \in OfTask(t) /\ \A s \in OfTask(t) : s <= r

UnusedRun(r) ==
  /\ r <= setup.runs /\ run[r].status = "none"
  /\ \A s \in Runs : s < r => run[s].status # "none"
UnusedFollowup(f) ==
  /\ f <= setup.followups /\ fup[f].status = "none"
  /\ \A g \in Followups : g < f => fup[g].status # "none"

IsFirst(x, S) == x \in S /\ \A y \in S : x <= y
First(S) == CHOOSE x \in S : IsFirst(x, S)

PendingQueue(t) ==
  {f \in Followups : fup[f].task = t /\ fup[f].status = "pending" /\ fup[f].mode = "queue"}

\* A terminal update or a stop leaves no permission prompt behind.
Ended(r, s) == [run EXCEPT ![r].status = s, ![r].waiting = FALSE]

\* A fault: a steer that was converted is left out
KeepConverted(F, t, modes) ==
  [f \in Followups |->
     IF F[f].task = t /\ F[f].status = "pending" /\ F[f].mode \in modes /\ F[f].code = "none"
       THEN [F[f] EXCEPT !.status = "canceled"] ELSE F[f]]

\* cancelPendingFollowups applied to the rows F
Cancel(F, t, modes) ==
  [f \in Followups |->
     IF F[f].task = t /\ F[f].status = "pending" /\ F[f].mode \in modes
       THEN [F[f] EXCEPT !.status = "canceled"] ELSE F[f]]

\* settlePendingFollowup: an outcome is only recorded on a pending row
Settle(F, f, s) == IF F[f].status = "pending" THEN [F EXCEPT ![f].status = s] ELSE F

\* moveTask: the card's current version is used, so only an archived card refuses
MoveTo(t, s) ==
  IF card[t].archived THEN card ELSE [card EXCEPT ![t].status = s]

\* moveFromInProgress: a card that left the column, or was archived, stays
MoveFromInProgress(t, s) ==
  IF ~card[t].archived /\ card[t].status = "in_progress"
    THEN [card EXCEPT ![t].status = s] ELSE card

\* A plain or a waiting `running' update, applied at once
Running(R, r, w) ==
  IF R[r].status \in {"starting", "running"}
    THEN [R EXCEPT ![r].status = "running", ![r].waiting = w] ELSE R

NoCalls == [c \in Calls |-> "none"]
IdleRequest == [pc |-> "idle", kind |-> "none", task |-> NoTask, run |-> 0,
                dest |-> NoMove, resume |-> "running", ok |-> FALSE]
NoRecovery == [todo |-> {}, stopping |-> {}, applying |-> FALSE]

Init ==
  /\ setup \in Setups
  /\ card = [t \in Tasks |-> [status |-> "todo", archived |-> FALSE]]
  /\ run = [r \in Runs |-> [task |-> NoTask, status |-> "none",
                            session |-> 0, waiting |-> FALSE]]
  /\ fup = [f \in Followups |-> [task |-> NoTask, run |-> 0, mode |-> "queue",
                                 status |-> "none", code |-> "none"]]
  /\ launch = {}
  /\ steer = [f \in Followups |-> "none"]
  /\ chain = [r \in Runs |-> <<>>]
  /\ finishing = [r \in Runs |-> {}]
  /\ req = [q \in Requests |-> IdleRequest]
  /\ fresh = Requests
  /\ recovery = NoRecovery
  /\ restarts = 0
  /\ call = NoCalls
  /\ held = {}
  /\ muted = {}
  /\ turn = [r \in Runs |-> "none"]
  /\ hits = [f \in Followups |-> 0]

\* The values of the rows, of the updates and of the requests in a handler
CardRows == [Tasks -> [status : CardStatus, archived : BOOLEAN]]
RunRows == [Runs -> [task : Tasks \cup {NoTask}, status : RunStatus,
                     session : Runs \cup {0}, waiting : BOOLEAN]]
FollowupRows ==
  [Followups -> [task : Tasks \cup {NoTask}, run : Runs \cup {0}, mode : {"queue", "steer"},
                 status : {"none", "pending", "sent", "failed", "canceled"},
                 code : {"none", "NOT_DELIVERED", "WAITING_PERMISSION"}]]
Updates == [status : EndedStatus, recovery : BOOLEAN]
Handlers ==
  [pc : {"idle", "launch", "stopping", "delivery", "stopped", "closing", "apply"},
   kind : {"none", "stop", "move", "archive"},
   task : Tasks \cup {NoTask}, run : Runs \cup {0}, dest : CardStatus \cup {NoMove},
   resume : {"starting", "running"}, ok : BOOLEAN]
CallStates == [Calls -> {"none", "open", "starting", "reached", "aborted", "behind"}]
TurnStates == [Runs -> {"none", "busy", "waiting", "idle"}]

TypeOK ==
  /\ setup \in Setups
  /\ card \in CardRows
  /\ run \in RunRows
  /\ fup \in FollowupRows
  /\ launch \subseteq Runs
  /\ steer \in [Followups -> {"none", "launch", "delivery", "typing", "resend"}]
  /\ chain \in [Runs -> Seq(Updates)]
  /\ finishing \in [Runs -> SUBSET Followups]
  /\ req \in [Requests -> Handlers]
  /\ fresh \subseteq Requests
  /\ recovery \in [todo : SUBSET Runs, stopping : SUBSET Runs, applying : BOOLEAN]
  /\ restarts \in Nat
  /\ call \in CallStates
  /\ held \subseteq Runs \cup {0}
  /\ muted \subseteq Runs \cup {0}
  /\ turn \in TurnStates
  /\ hits \in [Followups -> 0 .. 2]
=============================================================================
