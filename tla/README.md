# Verification of the automate-taskboard server

The board keeps cards that people assign to AI agents, starts an agent (Claude
Code or Codex) on a card, carries messages between the people and the running
agent, and moves the card as the work proceeds. People use it on the PC, from
paired phones, and shared with others through a cloud worker. This directory
models the parts of it whose correctness depends on orders of events, checks them
with TLC on small instances, and proves the central promises with TLAPS for every
instance.

`PROJECT.json` lists the components, runs, faults, hazards and theorems, and the
source lines every definition stands for.

## 1. The system

| Component | State it keeps | Operations | Interacts with | Correct when |
|---|---|---|---|---|
| Run service, `server/runs/service.mjs` | launch jobs, deliveries, update chains, results posted (memory); runs and follow-ups (database) | start, continue, steer, queue, stop, archive, rework, apply an update, recover | called by the routes and the scheduler; calls a provider; is called back with updates | one active run per card; outcomes final; messages sent once, and never into a stopped run; the card is where its run says |
| Claude provider, `server/runs/claude-bg.mjs` | followed runs, session locks, stop epochs, gates | start, sendFollowup, stop, recover, poll | types into background sessions through a helper, reads transcripts | a stop and a delivery to one session exclude each other |
| Codex provider, `server/runs/codex-app.mjs` | phase and turn of each run, run of each thread, threads loaded | the same | one app-server process, JSON-RPC | one turn per thread, followed as long as it works and reported once; a stop that is confirmed has ended the turn |
| Codex app-server connection, `server/codex-app-server.mjs` | pending requests, child process | request, notify, terminate | child process | every request answered or rejected exactly once |
| Scheduler, `server/runs/scheduler.mjs` + `server/app.mjs:2226-2266` | the tick in flight, generation | tick, start, stop | database, provider check, run service | never more automatic starts than the project allows; none after stop; none forgotten |
| Routes, `server/app.mjs` | what a waiting handler read; event streams; the tailnet listener | HTTP API | all of the above | an old card version is refused |
| Database, `server/database.mjs` | cards, relations, runs, follow-ups, chat runs | synchronous transactions | | versions, one active run |
| Ordering, `shared/task-order.mjs`, relations `shared/task-relations.mjs` | pure | orderTasks, isBlockedByOpenDependency | scheduler, views | a total order; a blocked card is never claimed |
| Mobile pairing, `server/mobile/*` | challenges, attempts, sessions, hand-off tokens (database), the switch (file) | show, approve, complete, revoke, hand off, log out, remove, turn on and off | remote listener, event streams | single use; nothing survives a removal; off is off |
| AI chat, `server/ai-chat*.mjs` | active turns (memory), runs and threads (database), attachments (files) | start a turn, interrupt, complete, delete | CLI processes, an app-server | one active turn per thread, finished once; no files left |
| Revision polling, `web/src/revisionPolling.mjs` | last revision seen, socket, pending check | push, poll, reconnect | board or cloud | no change is missed; "live" is true |
| Cloud worker and proxy, `cloud/src/index.mjs`, `server/cloud-proxy.mjs` | the shared board: rows in D1, objects in R2, the revision | routes | web clients | parents are a forest, relations stay in a project, files have rows and objects, cursors skip nothing |
| Command line, injector, desktop shell, updater, Jira, folder picker, summaries | little | requests and I/O | | see section 7 |

The server is one Node process: code runs undisturbed from one `await` to the
next. The worker runs many requests at once, each atomic only within a batch of
its database. What is hard is what happens in between:

* **Concurrency.** Start, continue, stop, archive and recovery of one card overlap
  at every `await` of a provider call that may take seconds. A steer waits for a
  launch, then for a delivery, then for its own answer; a stop waits for the
  launch, for the provider and for the delivery. A phone's request is let in and
  then waits for its body; a chat turn waits for its context, its files, its
  thread and its turn.
* **Callbacks.** Updates come when a poll or a notification sees something, also
  after the run they belong to was ended by a request; a turn may end before the
  request that started it is answered.
* **Failure.** Stops that are not confirmed, deliveries that reached the session
  but were not confirmed and are retried, requests that time out, an app-server
  that exits, sockets that break, broadcasts that fail, a worker that is cut off
  between an object and its row.
* **Restart.** Rows survive, jobs do not, Claude sessions go on without the board,
  Codex turns do not; recovery runs while requests are already served.

## 2. Modules

| Module | Models |
|---|---|
| `RunState` | the constants, variables, rows and the helpers on rows |
| `RunProviders` | what the providers do between a call and its answer, the turns of the sessions and the updates they cause |
| `RunService` | the run service with the routes that use it: one action per segment between two awaits; restart and recovery; `Next`, `Spec`, fairness |
| `RunLedger` | what the rows tell whoever reads the board: the abstract specification |
| `RunProperties` | the promises, and the refinement mapping to `RunLedger` |
| `RunServiceProofs` | for both providers: type correctness with the invariant `IInv`, the safety theorems, the refinement, and what is at rest when a run is over |
| `RunClaudeProofs` | for Claude: stopped runs, messages that are typed once, runs that go on |
| `Scheduler`, `SchedulerProofs` | the auto-claim scheduler as `app.mjs` wires it, the people and agents that change the board meanwhile, start and end of the process |
| `CodexConnection` | the JSON-RPC connection to a child that is spawned, dies and is replaced |
| `CodexTurns`, `CodexTurnsProofs` | the Codex provider on that connection, for one thread and its runs; composes with `CodexConnection` |
| `MobileAccess`, `MobileAccessProofs` | pairing, sessions, hand-offs, the switch, event streams and the tailnet listener |
| `RevisionSync`, `RevisionSyncProofs` | the revision of the cloud, its broadcast, sockets, and the two revision clients of the browser |
| `AiChat`, `AiChatProofs` | one chat conversation over CLI processes and an app-server |
| `CloudBoard`, `CloudBoardProofs` | the rows and objects of the worker and its requests, split at their awaits |
| `SharedBoard` | what the people who share a board see of those rows: the abstract specification that `CloudBoard` implements |
| `MC...` | the modules TLC is given, with the values of the constants |

Definitions that a comment marks as *a fault* (`AnyAnswer`, `NoIndex`, ...)
are not part of the model. Each is a plausible bug, written beside the definition
it would replace; with it in place TLC violates the property named for it in
`PROJECT.json`. They show that the properties can fail.

`Scheduler` stands beside the `Run` modules and does not compose with them: it sees
a run only as a card in `active`. What it abstracts there are actions of
`RunService`: `StartTask` is what `Checked` does to `card` and `active`, and the
ends of runs are `RunEnds`. Both are taken without a launch, a message or a
provider answer in between, which the scheduler cannot tell apart. In the same
way `RunProviders` says of Codex what the run service can tell apart (a phase, a
resume before a turn, a stop), and `CodexTurns` models the same code message by
message, with the run service as the one who calls it.

### State and code

| Variable | Code |
|---|---|
| `card` | `tasks.status`, `archived_at` |
| `run` | rows of `task_runs`: task, status, the session references (the session is named after the run that created it), and whether the run's error is the permission prompt |
| `fup` | rows of `task_run_followups`: mode, status, and the error code that tells an unconfirmed steer |
| `launch` | `launchesByRun`, the jobs of `startTask` |
| `call` | the awaits of `provider.sendFollowup`: by a continuation (`deliveriesByRun`), by `applyFinished`, by a steer, by a steer resent; `open`, then `starting` (Codex: turn/start sent), `reached` the session, or `aborted` by a stop or by the end of the app-server; `behind`: called off by a stop while it waited for earlier ones |
| `steer` | the await a `deliverSteer` job is at |
| `chain`, `finishing` | `terminalUpdateChains`, and the follow-ups `applyFinished` iterates over |
| `req`, `fresh` | handlers of stop, move and archive inside their awaits, and whether the card version they read is still current |
| `recovery` | the list `recoverOnStartup` read, and which of its runs it had read as `stopping` |
| `held`, `muted` | Claude: runs the poller tracks, and those it keeps silent about (`tracked.stopping`); Codex: threads the app-server has loaded |
| `turn`, `hits` | the truth about the sessions: is a turn running, and how often a follow-up got into it |

### Actions and code

`StartTask`, `LaunchOk`, `LaunchFails` are `startTask`'s request and its
background job; `ContinueTask`, `ContinueAnswer` are `continueTask` and
`deliverContinuation`; `SendFollowup`, `SteerAfterLaunch`, `SteerSend`,
`SteerAnswer`, `ResendAnswer` are `sendFollowup` and the segments of
`deliverSteer` with `sendQueuedAfterRunEnded`; `ApplyToEnded`, `ApplyFinished`,
`ApplyFinishedSends`, `QueueAnswer`, `ApplyStopped`, `ApplyFailure` apply the
terminal updates of a run, one at a time; `StopRequest`, `StopSignals`,
`StopAnswer`, `StopSettles`, `StopReturns`, `ArchiveRequest`, `CloseSessions`,
`ApplyRequest` are the segments of the stop, move and archive handlers;
`HandMove`, `ReworkTask`, `RestoreTask`, `ArchiveUnstarted`, `StopIdleTask` change a
card without waiting; `Restart`, `Recover`, `RecoverNext` are the restart and
`recoverOnStartup`. `Resume`, `Typed`, `TurnTakes`, `TurnRuns`, `TurnWaits`,
`TurnEnds`, `TurnEndsUnseen`, `AppServerTerminates` are what the sessions do.

Node resolves an await before it turns to the next event of the outside, so
`Next` takes a `Segment` that is ready before any other event. Among ready
segments, and among events, every order is possible. The restart may come
anywhere. A session of Claude serves its messages and stops first come, first served
(`withSessionLock`): a stop calls off the messages that came before it and are not
entered, so a message that is open while its run is being stopped came later, after a
stop that failed and before another one that still waits, and is entered behind the
latter (`BehindStop`). `VersionCheck` is a conjunct of every step: a write to a card makes the
requests that read its version before stale.

### The scheduler

| Variable | Code |
|---|---|
| `card`, `assignee`, `blockedBy`, `active` | `tasks.status`, the assignee's provider, `blocks` relations, cards with an active run |
| `automation` | rows of `project_automation`: `enabled`, `max_parallel`, `order_mode` |
| `up` | what `providerAvailability` answers, from the cache or from the provider |
| `timer`, `generation` | `timer`, `generation` of `createScheduler` |
| `tick` | `inFlight` and the local variables of `runTick` and `runProject`: where it is (`pc`), the generation and the settings it read (`gen`, `left`, `max`, `mode`), the candidates not attempted (`todo`), the claims left (`room`), the card and provider being checked |
| `recovering`, `started`, `closing`, `closed` | `startupTask`, `schedulerStarted`, `closing`, and whether `close()` is past them |

`TimerFires`, `NextProject`, `ListTodo`, `NextCandidate`, `Recounted` and `Checked`
are the segments of a tick; `RecoveryEnds`, `Close` and `Closed` those of
`listen()` and `close()`; `SetAutomation` is the request that nudges. The others
are requests of people and ends of runs. The functions the scheduler is given
may be asynchronous (its comment says so), so a request may come at every await,
although the database's answers are ready at once; only the availability check
really takes time. From its answer to the new run nothing can come in between,
as `app.mjs:2241` says. The claim order is the number of a card, or its reverse
in manual mode. A card that a request archives, or whose workspace is missing,
fails like one that is not in todo.

### Codex turns

| Variable | Code |
|---|---|
| `child`, `starting`, `closing`, `proc` | `child`, `starting`, `closing` of `CodexAppServer`, and whether each process is alive |
| `request`, `inbox`, `out` | `pending`, the lines written to a child, and the lines it wrote that nobody has read |
| `run`, `bound`, `loaded` | `runs`, `runByThread`, `loadedThreads` of the provider; `run[r].row` is `codexTurnId` in the run's row (0: the row has no thread either) |
| `job`, `stop` | the await each `start` or `sendFollowup` is at; the stop request of each run with the promise it waits on |
| `turn`, `ended`, `late`, `crossed` | the turns of the app-server; how often the end of each was reported; whether some request timed out; whether a message was accepted before the turn of an earlier one was begun |

`Start`, `Followup`, `ThreadAnswered`, `TurnAnswered`, `JobFails` are the segments of
`start` and `sendFollowup`; `Stop`, `InterruptAnswered`, `StopTimesOut`, `Close` those of
`stop` and `close`; `ReadStarted`, `ReadCompleted`,
`Terminated` what a line or the end of the child causes. A
request that is settled is `resolved` or `rejected` until the code behind its
`await` runs; lines of the same chunk, and the end of the child, come before it.
A thread is new, or known from an earlier boot, where run 1 had a turn of it.

### Mobile access

`chal`, `attempts`, `sess`, `handoff` are the rows of `pairing_challenges` and
`device_sessions`; `enabled` is the settings file; `phone` holds the requests that
passed `assertRemoteEnabled` and wait for their body, and those for an event stream
that were let in (`asker` says for which session, `AsksStream`) and wait for
`cloudConfig.read()` before they get it (`Connect`); `desk` holds those that turn access
on or off and wait for the tailnet; `stream`, `wanted`, `syncer`, `bound` are the
event hub and the tailnet listener of `app.mjs`. `removed` and `voided` remember
what was removed and which tokens were declared void, `late` the streams that were opened
without the right to them since the streams were last looked at. Every method of the pairing
service is one transaction and one action; what interleaves is the routes, the
streams and the listener.

### Revisions

`rev`, `due`, `lost` are `global_revision` and the broadcasts still to be made and
lost; `link` and `queue` the socket from the first dial to the hub's push; `known`,
`check`, `timer`, `live` the variables of `createRevisionWebSocketClient` and of the
polling client; `viewed` how new the data of the view is at least. A change is
`Commit`ted and broadcast later; a push may be overtaken by a check; a socket may
break at every stage.

### AI chat

`row` is the table `ai_chat_runs` of one conversation, `active` the map `this.active`,
`call` the requests for a turn with what they hold while they await the context,
the files, the thread and the turn; `files` the temporary directories; `stop` the
interrupts; `epoch`, `asked`, `interrupts`, `turn`, `out` the app-server and what is on
its way to and from it. `left` remembers that a turn may go on that nobody waits
for: an interrupt gave up, or the app-server was replaced under it.

### The cloud board

`projects`, `task`, `rel`, `comment`, `rows` are the tables of D1, `objects` the
bucket, `revision` is `global_revision`, moved by the triggers of
`migrations/0001_initial.sql`. A `request` keeps what it read; each of its steps is
one read, one batch or one call of R2. `reader` is a client that lists the comments of a card and
then asks by cursor. `broken` remembers the files a failing request had in hand; a
D1 that fails may have carried out the statement before. `Refuses` is what the database itself refuses: the triggers,
checks, keys and unique indexes. `offered` and `Starts` only choose the board a
run of TLC begins with. `ShownComments` and `ShownFiles` are what people see of
`comment` and `rows`; with `projects`, `task` and `rel` as they are, they are the state
of `SharedBoard`. Requests, objects, revisions and readers are hidden there: each of its
changes is one batch of the worker, whatever the request had read before.

### Abstractions

A message is its follow-up; prompts, result texts and comments are left out, and so are
the file that carries a long one, which is written between the look at the stop epoch and
the session lock (`claude-bg.mjs:1142`), and messages of other runs of a session, which the
lock orders as well. A
field edit of a card only bumps its version, so it could only make a request
stale, which the model reaches through moves. A launch that the restart cut short
is the choice `born` in `Restart`: a session exists or not. What a person may do
with the AI session outside the board shows as the spontaneous steps of `turn`.

In `MobileAccess` a code is right or wrong; labels, the home-screen mark, the address
shown, and what one request is checked for alone (origin, cookies, CSRF) are left
out. In `RevisionSync` the reload of the view is one step with the news that causes it
(the view counts its reloads, `App.tsx:1666-1676`). In `AiChat` settings, the creation and compaction of
threads and `close()` are left out; in `CodexTurns` items, texts, usage, steers (which
change nothing in the provider) and the stop of a run it does not know. In
`CloudBoard` titles, labels, sort orders, identifiers, activities, project READMEs
and the origin of a relation are left out; where the origin decides, both outcomes
are possible. A request that the first row it reads refuses changes nothing and is
not begun.

## 3. Properties

| Property | Promise |
|---|---|
| `OneActiveRun` | a card never has two active runs |
| `KeepsLedger` | the run service implements `RunLedger`: one run at a time, ended runs and settled messages stay (recovery of a run whose stop was cut off excepted), and what is shown as sent was delivered |
| `LiveRunsWork` | an active run of Claude nobody is dealing with has an AI that works or asks (one request at a time, stops that are confirmed, no restart) |
| `ParkedIsIdle` | until a restart an archived card, or one of Claude that waits in todo (one request at a time, nobody drags cards there), is not being worked on |
| `QuietWhileUp` | two requests at a time and failing stops leave no active run on an archived card and no queue on an ended run; nor a session at work on a stopped run, unless a stop failed before another one |
| `StoppedGetsNoMessage`, `AtMostOnce` | until a restart no message enters the session of a stopped run of Claude, unless a stop fails before another one; and none enters twice, unless a stop fails |
| `EndedRunKeepsNoQueue`, `PendingSteerHasJob` | no message is left behind by the jobs that should settle it |
| `SteersSettle`, `RequestsAnswered`, `UpdatesApplied` | progress of steers, of requests, of updates and recovery |
| `ClaimsAreCurrent` | an automatic claim is right when it is made: project turned on, within its limit, card not blocked and an agent's, whatever the tick read before |
| `ClosedIsQuiet` | when `close()` goes on no tick is in flight, and none can come from the interval, a nudge or a late recovery |
| `FrontIsClaimed` | once people leave the settings alone, no card stays for ever the first that could be claimed |
| `RunningIsReal`, `TurnIsFollowed` | a Codex run shown as running has a turn or the news of its end on the way; a turn that works is followed by a run, as long as no request timed out (both as long as no two messages crossed) |
| `EndReportedOnce`, `StoppedHasEnded` | the end of a turn is reported once; who is told that a turn was stopped can rely on it (likewise) |
| `CallsEnd` | every start, follow-up and stop is answered |
| `UsedOnce`, `VoidedIsUseless` | a code pairs one phone and a token starts one page; a void one starts none, also for a request that was let in before |
| `RemovedStaysOut`, `StreamsAreUsable` | a removed session takes with it whatever it let in; a stream without the right to it is there only while turning off waits for the tailnet, or from a late opening to the next event or keep-alive |
| `PausedIsClosed` | once access stays off the listener is closed in the end |
| `LiveIsCurrent`, `ViewIsKnown` | a board shown as live is not behind; the view is as new as the revision the client counts from |
| `GoesLive`, `PollCatchesUp` | a client gets a live connection; a polling client learns of every change |
| `RunningIsWatched`, `FinishedStays` | a chat run is shown as running exactly while one entry watches it; one of the racing ends decides |
| `FilesAreInUse` | a turn's attachments exist exactly as long as the turn needs them |
| `TurnsMatchRuns` | a turn of the app-server belongs to a run that waits for it |
| `InterruptEnds` | a run that is interrupted ends |
| `ParentsAreTrees` | parents form a forest, although requests look before others write |
| `KeepsBoard` | the worker implements `SharedBoard`: each change takes place whole, in one step, on a card or comment that is there then; relations stay in a project and rows refer to rows that there are |
| `RowsHaveObjects`, `ObjectsAreOwned` | a file shown has its object; an object without a row will be removed; the exceptions are the files of requests that failed, and of a comment deleted during the upload |
| `CursorMissesNothing` | a client that follows comments by cursor misses no change |

## 4. Runs

| Run | Instance | Shows |
|---|---|---|
| `Runs` | Claude: 1 card, 2 runs, 2 follow-ups, 1 request; Codex: 1 follow-up | the safety of one card when stops are confirmed and the board is not restarted |
| `Races` | Claude: 2 requests at a time, with stops that fail or are confirmed; or 2 runs with stops that fail; or a restart with requests served during recovery | which promises survive that |
| `Progress` | five small instances with fairness: steers, stops that fail, Codex, recovery of two cards, recovery against a request | liveness, type correctness, and the refinement of `RunLedger` |
| `Claims` | 2 cards of 1 project, limits 1 and 2, both orders | the scheduler against people who start, move, reassign, block and switch at any await, a provider that comes and goes, and a close at any point |
| `CodexTurns` | 2 runs of one thread, 2 turns, 2 children, 4 requests | the Codex provider against late, lost and reordered answers |
| `Mobile` | 1 challenge, 3 sessions, 1 stream, 2 attempts, 1 request of a phone and 2 of the PC in flight | pairing, hand-off to a page and to a page of that page, removal, and the switch |
| `Revisions` | 3 changes | both clients against a worker that is overtaken, fails and breaks connections |
| `AiChat` | 2 requests for a turn, 2 runs, 2 app-servers | a turn that is prepared while another one runs, ends or is interrupted |
| `CloudBoard` | 3 cards with every forest of parents, 2 requests; cards and projects that come and go, 3 requests; a card with comments and files, 3 requests and a reader | the worker's requests against one another, and against a failing D1 or R2; the refinement of `SharedBoard` |
| `LeftoverQueue`, `CodexStop`, `ArchiveRecovery` | | section 6 |

**Bounds.** Interference in the run service needs two runs of one card (the one that ends and the one
that follows) and either one follow-up or, for the order inside a queue, two; two
requests cover every pair of handlers; one restart meets every segment. Cards
only interact through recovery, which goes through them one after the other, so
one instance of `Progress` has two. `MaxRuns`, `MaxFollowups` and the bounds of a
setup limit what is created, not what happens to it: a request that would need a new row past
the bound is refused. `hits` counts to two, "more than once". For the scheduler
two cards are enough to overrun a limit of one, to fill a limit of two and to block
each other; one automatic and one manual start race for the last place. On a Codex
thread two turns are the old one and the new one, and two children the old one and its
replacement; four requests are what a start, a follow-up and a stop take, with one to
spare. A hand-off chain of three sessions has a session in its middle, behind which
removal could stop; `MaxStreams` limits the streams that are asked for, because the
property is about each one alone. Three changes are the one known, the one overtaken and the one
overtaking. Three cards hold the cycles of two and of three; two requests are enough
to look and be overtaken, and the third one of the files plays the second failure.

A property that is proved for every instance is checked where it is hardest to keep
and not repeated in every run. Liveness is checked on smaller instances than
safety, because the strong fairness of many answers is costly, and mostly with Claude,
whose stops wait for more (the session lock, the delivery) than those of Codex.
Symmetry is used among requests in `Races` and `CloudBoard`, which have no liveness
and treat their requests alike.

**Deadlock** is checked where the system cannot stop. `CodexTurns`, `AiChat` and
`CloudBoard` serve a bounded number of requests or processes and may stop after
them.

**Fairness.** The run service's `FairSpec` asks for weak fairness of the segments
(Node runs what is ready), of the answers to launches and of the routes' calls, and
for strong fairness of the answers to deliveries and of recovery. The code justifies
it with timeouts on every call: the requests to the app-server
(`codex-app-server.mjs:168`), the helper and the CLI commands
(`claude-bg.mjs:858-863`). It is strong because other segments, which go first,
disable an answer for a moment and again. Nothing is assumed of people, and
nothing of the AI: a turn may run for ever, a permission prompt may stay
unanswered. The scheduler's `FairSpec` asks for weak fairness of the tick's steps
(its promises resolve; the availability check has a timeout), of the interval, of
the end of recovery and of the end of `close()`. `CodexTurns` asks that lines are
read, ready code runs and timers go off, never that the child answers. `MobileAccess`
asks the same of the lookup of the tailnet and of the listener. `AiChat` asks that an
interrupt's own waits end and that a killed process ends. `RevisionSync` asks for more,
because its promise is about the network: a stage of a connection, and a request for
the revision, that is tried again and again succeeds once.

## 5. Proofs

All results hold for every value of the constants, from the assumptions named in
the modules that declare them.

**Run service.** `RunServiceProofs` proves `TypeCorrect`, `OneActiveRun`, `SettledRunsStay`,
`SettledFollowupsStay`, `PendingSteerHasJob` and `SentWasDelivered` for any cards,
requests and bounds, both providers, failing stops, restarts.

`TypeOK` is not inductive, for three reasons that each say something about the
code. `Tail` of a chain is only a sequence when the chain has a head, so a queue
call must belong to an update that is being applied (`Sending`). A move writes
its destination into the card, so a request of that kind must have one (`Moving`).
A call made for a follow-up reads the run of that follow-up, so work under way
must be on a follow-up that was saved (`Owned`). `IInv` is `TypeOK` with these
three; `Steps` divides `Next` into the steps of runs, steers, calls, board,
requests, restart and providers, and each group has its lemmas.

The safety theorems rest on two lemmas about single steps. `RunsChange`: a step
leaves ended runs as they are and makes none active, or creates a run of a card
without an active one, or resumes a run that recovery had read as stopping and
that no other active run bars. `OneActiveRun` and `SettledRunsStay` follow.
`FollowupsChange` says the same of follow-ups. `PendingSteerHasJob` needs in
addition that a steer that is being resent is already a queued one
(`ResentIsQueued`), and `SentWasDelivered` that a call that reached the session
carries a follow-up that was hit (`ReachedWasHit`).

**Ledger.** The same module proves that `RunService` implements `RunLedger` under the
mapping of `RunProperties` (`KeepsLedger`): `RunsChange` becomes `Begin`, `End` or
`TakeUp`, `FollowupsChange` becomes `Write`, and a restart makes doubtful only runs that
were going on. It needs that a row belongs to a card exactly when it is used
(`RunsHaveTasks`).

**Runs that are over.** `ArchivedIsQuiet` (until a restart: `ArchiveRecovery` shows what
recovery does) and `EndedRunKeepsNoQueue` are proved for both providers from `RowsInv`.
It adds to `IInv` how rows refer to one another (`RowsLinked`) and, until the first
restart: a run is `stopping` for a request that will settle it (`StopHasRequest`), the
queue of a run that ended waits for the stop that will cancel it (`QueueIsWatched`), and
a request whose card version is current knows the active run of its card
(`RequestsRule`), which is why a version conflict is enough to keep an archive from
overtaking a start.

**Claude: a stopped run.** `RunClaudeProofs` proves `StoppedGetsNoMessage` and
`QuietWhileUp` from `ClaudeInv`, for any number of runs, messages and requests. What is
proved of a stopped run holds while the board is `Calm`: not restarted, and with no stop that
fails before another one (`NoStopFailsBeforeAnother`: one request at a time, or stops that
are confirmed). Without that the code breaks it (section 6). Its heart is what the session lock, the update chain and the stop epoch
keep true of pairs of jobs: nothing else happens to a run while it is launched
(`LaunchesAlone`), the first update of a chain finds its session alone and its turn over
(`UpdatesInOrder`), so does a stop that was answered (`StopsAlone`), and no message is
open for a run that is being stopped (`StopCallsOff`). `StopsFirst` is what `Calm` buys:
while a stop waits for the session its run stays `stopping` or has ended, so no message is
accepted behind it, and the poller is `muted` or finds the turn over. The other two parts of
`QuietWhileUp` follow from the theorems above and hold also for stops that fail. That a segment which is ready
runs before the next event (`SegmentReady`) is needed in nearly every step: without it a
poll could come between the answer of a stop and the code behind it.

**Claude: a message is typed once.** `AtMostOnce` needs to know, of a message that
reached its session without being recorded, who will record it (`ReachedIsKnown`): the
answer of a call that carries it (`Carries`), or the stop that made that answer void
and goes on to cancel the queue (`Halting`). Everybody else who may send it looks for
it in the transcript first (`Looked`). `OnceInv` adds to this that a call is the only one
with its message (`SteerCalls`, `Sends`) and that an active run is the latest of its card
(`ActiveIsLatest`). A stop that fails breaks `Halting`, a restart `Carries`: both are in
the hypothesis of `AtMostOnce`, and both are real.

**Claude: runs that go on.** With one request in its handler at a time, a request that
stops a run keeps it to itself (`StopsOwn`), so a card in todo has no active run
(`ParkedIsIdle`), and what a finished update is about to send is settled by nobody else
(`QueuePending`). Then an active run is launched, waits for its first message, has an
update to apply or has a session at work that the poller follows (`Works`,
`WorkIsFollowed`), and every answer, update and stop hands it from one of these to
the next or ends it: `LiveRunsWork`. With two stops of one card, or a stop that fails,
`StopsOwn` and `QueuePending` are false, and TLC finds runs without work.

**Scheduler.** `SchedulerProofs` proves `TypeOK`, `ClaimsAreCurrent`, `StopEndsClaims` and
`ClosedIsQuiet` for any cards, projects and settings; the finiteness of `Tasks` makes active runs
countable. Its `IInv` adds to `TypeOK` that a tick which has picked a card has
room for it (`CardPicked`: otherwise counting down could leave the naturals) and
that a closing board stays quiet (`ClosingIsQuiet`, which is stronger than
`ClosedIsQuiet`: between `Close` and `Closed` a tick may be in flight, but neither
interval nor nudge can begin another). `ClaimsAreCurrent` needs little of it: the
claim adds exactly one run to those `MayClaim` has just counted.

**Mobile access.** Each step of `MobileAccess` either shrinks (sessions end, tokens go) or mints
one session for one challenge or one open token (`Shrinks`, `Mints`). The inductive
part is `Families`: a session without a row has left no trace, one that was paired has
consumed its challenge, one that derives from another has used its token, so `UsedOnce`
and `VoidedIsUseless` survive a minting. `RemovedStaysOut` needs that the tree of a session only grows
below sessions that are active.

**Revisions.** `LiveIsCurrent` alone is not inductive: what makes a board live is the
answer to a check that was read some time ago. `Current` adds that a check which was read
for the present socket leaves nothing unaccounted for; `Sound` ties timers, sockets and
checks together, `Ordered` says that nothing is newer than the cloud.

**AI chat.** `Effects` sums up what a step does to rows and entries: it begins a run, ends
one, or leaves the rows alone. `RunningIsWatched` is inductive with it and
`Entries`; `FinishedStays` follows from the same lemma. `FilesAreInUse` needs that the call
of a run is not prepared any more (`Owned`), so that a directory has one holder.
`TurnsMatchRuns` is a statement about two sides that only exchange messages. `ServerInv`
is what the app-server can be relied on for: it is asked once for the turn of a run,
begins it or says that it does not, and writes its end once, wherever in `out` these lines
are (`AskedOnce`, `Answered`, `OneTurn`, `EndsOnce`). `MatchInv` adds to the property that
an end nobody has read belongs to a run that is waited for. A refusal ends a run of which
the app-server has nothing (`Refused`); an end that names only the thread ends the one run
that listens, which is the run of that turn (`EndIsRead`).

**Cloud board.** `ParentsAreTrees` and `RelationsStayInProject` are inductive with the
types once it is known what one new relation does (`ForestGrows`: a row that
`CycleTrigger` and the index accept keeps a forest a forest) and that a request only
writes endpoints of its own kind (`Aimed`). A cycle is excluded by the sets that are
closed under parents, so no induction over paths is needed. `FilesHold` says of every file who will
bring its row or remove its object; `CursorHolds` that no revision is ahead of the global one.

`KeepsBoardHolds` proves the refinement: every step of `CloudBoard` is one change of
`SharedBoard` or changes nothing people see. Two things are needed besides the forest.
`RowsFit` says that the rows refer to one another as the foreign keys demand, for each
batch including its cascades: stored cards are in projects there are, live comments on
stored cards, shown files on stored owners. `RequestsReadRight` says what a request may
still rely on when it writes: it replaces a relation only to set a parent, and a file it
has put is shown on what it was put for. What else it has read may be stale by then, and
the proof shows that the condition of the batch, not the reading, decides.
`RelationsStayInProject` is one of the conjuncts of `Fits`, hence implied, and proved on
its own.

**Codex turns.** `CodexTurnsProofs` proves `RunningIsReal`, `EndReportedOnce`, `TurnIsFollowed` and
`StoppedHasEnded` for any number of runs, turns, children and requests. The difficulty is that
the child, the connection and the provider each know a part of what a turn has come to. The
invariant `IInv` is `TypeOK` and, until two messages cross, `Good`, which has two halves.

`Connected` is what the connection can be relied on for: the current child is the only one that may
live (`OneChild`), every request is written to one child and answered there at most once (`Asked`,
`AnswersKnown`), an interrupt names the turn of its run (`InterruptsName`), and the lines of a child come
in the order of the turns (`InOrder`): the answer that names a turn before
the news of its end, the end of a turn before the begin of the next. The provider depends on
that order: an end that overtook its answer would find no run with that turn.

The other half is about the provider. The turns of a thread follow one another
(`TurnsInOrder`, `NewsKnown`), a call owns the request it awaits and was made for the thread as it is loaded
(`JobsOwn`, `FirstRequest`, `LoadedFirst`), one run has the thread (`OneFollower`). `Phases` is
`RunningIsReal` with what it needs of a run that is starting; `AnswersFit` says that an answer which
still waits to be used names a turn that works, whose end is on the way, or which is the `last` one
of its run, the one case in which `startTurnFor` must not begin to follow it
(`codex-app.mjs`, `completedTurnId`); `EndsReported` counts the reports of a turn against
who could still make one; `StopsFit` ties a stop to the turn it was made for, which
`StoppedHasEnded` needs. `Followed` is `TurnIsFollowed` with the request of a turn that is
about to begin; it alone has `~late` in its hypothesis.

`Good` cannot be had without `~crossed`: once a message is accepted before the turn of the earlier one
has begun, two requests of one run are under way and the provider keeps one `last` turn for both
(section 6). A state in which they crossed is not lost: `TypeOK` holds there, and the run
service's theorems do not depend on it. `Steps` and `Moves` say once what each action does
to requests, lines and turns; each conjunct of `Good` has its lemma on a step, and `InvStep`
puts them together.

**Model-checked only.** The liveness properties: `SteersSettle`, `RequestsAnswered`, `UpdatesApplied`,
`FrontIsClaimed`, `CallsEnd`, `PausedIsClosed`, `GoesLive`, `PollCatchesUp` and `InterruptEnds`. The prover has
no rules for fairness of this kind and none for `ENABLED`. Every safety invariant and action property a
passing run checks is proved.

## 6. Where code and comments disagree

* **A message of a stopped run is sent later** (`LeftoverQueue`). The comment at
  `server/runs/service.mjs:292` excludes it. A stop that is confirmed saves the run as
  stopped (749), and only after `stopTask` has awaited it is the queue cancelled, in
  a write of its own (825). If the board exits between the two writes the message stays
  pending, recovery does not look at a run that has ended, and the next continuation
  sends it.
* **A Codex stop does not stop a thread being resumed** (`CodexStop`).
  `codex-app.mjs:445` answers "no turn is running" while `sendFollowup` awaits
  thread/resume with the phase still `idle`; the turn starts after the stop was
  confirmed, against `service.mjs:728`.
* **Recovery revives a stopped run of an archived card** (`ArchiveRecovery`).
  `service.mjs:1019` uses the status it read before the await, against the comment
  at `app.mjs:4145`.

Met on the way, where the code promises nothing that contradicts them, and
therefore visible as properties that some runs leave out:

* Of two stops of one Claude run that wait for its session the first may fail. It clears
  the flag both of them share (`claude-bg.mjs:1257`) and puts the run back to `running`
  (`service.mjs:751`), so the poller speaks again, and a message accepted now takes
  the stop epoch after the second stop has raised it (1123, 1248), waits behind that stop
  at the session lock (1150), and is entered although that stop was confirmed: a
  stopped run whose session works (`StoppedGetsNoMessage`, the last part of `QuietWhileUp` and
  the theorems on them say `NoStopFailsBeforeAnother`; without it TLC violates both).
* An event stream is opened without a second look at its session, which may have been removed
  since the request was let in (`app.mjs:2553`, `3108`, `3498`). The next event or
  keep-alive, every 20 seconds, closes it before it writes (`StreamsAreUsable` says `late`).
* When D1 inserts the row of an uploaded file and its answer is lost, the catch removes the
  object, and a file is shown that cannot be read (`cloud/src/index.mjs:2284-2286`;
  `RowsHaveObjects` says `broken`).
* With failing stops a message delivered while `applyFinished` was interrupted by
  the stop stays pending and is sent again (`AtMostOnce` says `~setup.stopMayFail`).
* With failing stops, or on Codex in the phase turn-starting, a run whose delivery
  was called off goes back to `starting` and stays so (`LiveRunsWork` says so of Claude
  with stops that are confirmed).
* A second stop of a card may cancel a message that `applyFinished` is about to send
  next: nothing ends the run then (`LiveRunsWork` says `setup.requests < 2`).
* The end of a stop moves the card and cancels follow-ups of a run started
  meanwhile by another request (`ParkedIsIdle` says `setup.requests < 2` of a card in todo).
* An undelivered queued message finishes the run and leaves the rest of the queue
  pending (`service.mjs:461-466`).
* With Codex a turn that was begun by a turn/start that timed out works on and no run
  follows it (`TurnIsFollowed` says `~late`).
* While a Codex thread is being resumed its run is idle, so a second message is accepted
  and starts a turn as well (`codex-app.mjs:402-419`); so does one that follows a turn/start
  that timed out before the app-server took it up. The provider remembers one ended turn
  and keeps a run's old child: it may revive a turn that has ended, report an end twice,
  confirm a stop of a turn that works, or follow none (the first four properties of
  `CodexTurns` say `~crossed`; without it, and with one request more, each is violated).
* An app-server whose handshake timed out stays the current child, and every later
  request is sent to it without the handshake (`codex-app-server.mjs:149`).
* Turning remote access off while it is being turned on is undone by the latter
  (`mobile/index.mjs:146-149`), and a listener that could not be opened is not tried
  again before the next change.
* After an interrupt of a chat turn gave up, the end of that turn may end the next run,
  whose turn is not known yet (`ai-chat.mjs:1091-1097`; `TurnsMatchRuns` says `~left`).
* A file that is uploaded to a comment between the two statements of `deleteComment`
  leaves its object in the bucket (`cloud/src/index.mjs:2196`).
* A board with an open websocket does not learn of a change whose broadcast failed
  until the next one (`cloud/src/index.mjs:2856`).

## 7. What is left

In the order in which it would be worth doing:

1. **Claude provider** in detail: session lock, stop epoch, gate, poller and sweeps, as a
   refinement of what `RunProviders` says of it.
2. **Codex turns**: a refinement of the Codex part of `RunProviders`, for which the two modules
   would have to agree on one run per thread.
3. **Task order**: `orderTasks` with priorities, dates and ages against a reference order.
4. **AI chat**: settings that change while a turn is prepared, compaction, `close()`.
5. **Cloud board**: identifiers and activities, whose rows are written under conditions on
   version and time; project READMEs; the resumable migration to the cloud.

Not modelled, and why: the Jira client, folder picker and project summary (one call
each, no state to interleave); the injector (drives a foreign user interface); the web
views and the command line (their effects are the requests); the desktop shell and the
supervisor (operating system calls; the restart they cause is in `RunService` and
`AiChat`); the updater and release scripts (run by one person, one step after the
other); input validation and formatting; the synchronous routes of the local board (one
transaction each). These are most of the repository's lines, above all the views and
the injector.
