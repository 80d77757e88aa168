------------------------------- MODULE Scheduler -------------------------------
(***************************************************************************)
(* The auto-claim scheduler (server/runs/scheduler.mjs) as the board wires *)
(* it up (server/app.mjs).  In every project that has auto-claim turned on *)
(* a TICK claims cards that wait in todo, in order, until the project runs *)
(* as many as it may.  A tick reads the board at its awaits, so people may *)
(* start, move and assign cards, change the project and close the board in *)
(* the middle of it.  An action is one segment between two awaits.         *)
(***************************************************************************)
EXTENDS Integers, FiniteSets, Functions

CONSTANTS
  Tasks,        \* cards, numbered in the suggested order
  Projects,
  ProjectOf,    \* [Tasks -> Projects]
  Settings,     \* what people save as a project's automation: [enabled, max, mode]
  Assigned,     \* [Tasks -> Assignees], whom the cards belong to at first
  Dependencies, \* the pairs <<card, blocker>> people may set
  HandMoves,    \* the columns people move cards to
  Assignments,  \* whom people assign cards to
  Flaky         \* the providers that come and go

Assignees == {"claude", "codex", "person"}
Providers == Assignees \ {"person"}
CardStatus == {"todo", "in_progress", "in_review", "done"}

ASSUME TasksAssumption == Tasks \subseteq Nat /\ IsFiniteSet(Tasks)
ASSUME ProjectsAssumption == ProjectOf \in [Tasks -> Projects]
ASSUME SettingsAssumption ==
  Settings \subseteq [enabled : BOOLEAN, max : Nat \ {0}, mode : {"suggested", "manual"}]
ASSUME MovesAssumption ==
  HandMoves \subseteq CardStatus \ {"in_progress"} /\ Dependencies \subseteq Tasks \X Tasks
ASSUME AssigneesAssumption ==
  Assigned \in [Tasks -> Assignees] /\ Assignments \subseteq Assignees /\ Flaky \subseteq Providers

VARIABLES
  \* the board database and the providers
  card,        \* [Tasks -> CardStatus]
  assignee,    \* [Tasks -> Assignees]
  blockedBy,   \* the dependencies that are set
  automation,  \* [Projects -> [enabled, max, mode]]
  active,      \* the cards with an active run
  up,          \* the providers the availability check, cached for a while, finds
  \* the scheduler
  timer,       \* the interval is set
  generation,  \* counts stop()
  tick,        \* the tick in flight
  \* the life of the board process
  recovering,  \* recoverOnStartup has not ended
  started,     \* schedulerStarted
  closing,
  closed       \* close() has waited for the scheduler and the startup

board == <<card, assignee, blockedBy, automation, active, up>>
life  == <<recovering, started, closing, closed>>
vars  == <<card, assignee, blockedBy, automation, active, up, timer, generation,
           tick, recovering, started, closing, closed>>

-----------------------------------------------------------------------------
(* Reading the board *)

Running(p) == {t \in active : ProjectOf[t] = p}
Full(p) == Cardinality(Running(p)) >= automation[p].max

\* isBlockedByOpenDependency: a blocker that was canceled blocks too
Blocked(t) == \E d \in blockedBy : d[1] = t /\ card[d[2]] # "done"

\* isSchedulerCandidate
Candidate(t) == card[t] = "todo" /\ assignee[t] \in Providers /\ ~Blocked(t)

\* runService.startTask accepts the card.
Startable(t) == card[t] = "todo" /\ t \notin active

\* orderTasks: `manual' stands for an order of its own, here the reverse one
IsFirst(t, S, mode) ==
  t \in S /\ \A s \in S : IF mode = "manual" THEN s <= t ELSE t <= s

-----------------------------------------------------------------------------
(* A tick *)

NoProject == "none"
Idle == [pc |-> "idle", gen |-> 0, left |-> << >>, project |-> NoProject, max |-> 0,
         mode |-> "suggested", count |-> 0, todo |-> {}, room |-> 0, again |-> FALSE, task |-> 0,
         provider |-> "person"]

\* The scheduler was not stopped since the tick began.
Current == tick.gen = generation

\* The projects with auto-claim turned on, with their settings of this moment
Enabled(settings) == Restrict(settings, {p \in Projects : settings[p].enabled})

\* tick(), up to the first await of runTick; while a tick is in flight no other begins.
Tick(settings) ==
  tick' = IF tick.pc = "idle"
            THEN [Idle EXCEPT !.pc = "projects", !.gen = generation, !.left = Enabled(settings)]
            ELSE tick

\* The interval fires.
TimerFires ==
  /\ timer /\ tick.pc = "idle"
  /\ Tick(automation)
  /\ UNCHANGED <<board, timer, generation, life>>

\* runTick goes on to a project of its snapshot, whose settings may have changed
\* since, and counts its active runs; or it ends.
NextProject ==
  /\ tick.pc = "projects"
  /\ \/ /\ Current
        /\ \E p \in DOMAIN tick.left :
             tick' = [tick EXCEPT !.pc = "counted", !.project = p,
                                  !.left = Restrict(@, DOMAIN @ \ {p}),
                                  !.max = tick.left[p].max, !.mode = tick.left[p].mode,
                                  !.count = Cardinality(Running(p)), !.again = FALSE]
     \/ /\ ~Current \/ DOMAIN tick.left = {}
        /\ tick' = Idle
  /\ UNCHANGED <<board, timer, generation, life>>

\* available > 0
HasRoom == tick.count < tick.max

\* runProject has the count: it lists the todo cards of a project with room.
ListTodo ==
  /\ tick.pc = "counted"
  /\ tick' = IF ~HasRoom THEN [tick EXCEPT !.pc = "projects"]
             ELSE [tick EXCEPT !.pc = "claims", !.room = tick.max - tick.count,
                               !.todo = {t \in Tasks : ProjectOf[t] = tick.project /\ Candidate(t)}]
  /\ UNCHANGED <<board, timer, generation, life>>

\* A card is attempted once in a tick.
Attempted(t) == tick.todo \ {t}

\* A fault: any failure ends the project's loop
ProjectEnds == "projects"

\* An error that does not concern the whole project: the next card is tried.
AfterFailure == "claims"

\* startTask of app.mjs up to the availability check
Attempt(t) ==
  tick' = [tick EXCEPT !.pc = IF assignee[t] \in Providers THEN "checking" ELSE AfterFailure,
                       !.todo = Attempted(t), !.again = TRUE, !.task = t, !.provider = assignee[t]]

\* The head of runProject's loop: the first attempt goes ahead, before any other
\* the active runs are counted again.
NextCandidate ==
  /\ tick.pc = "claims"
  /\ \/ /\ ~Current \/ tick.room = 0 \/ tick.todo = {}
        /\ tick' = [tick EXCEPT !.pc = "projects"]
     \/ /\ Current /\ tick.room > 0
        /\ \E t \in tick.todo :
             /\ IsFirst(t, tick.todo, tick.mode)
             /\ IF tick.again
                  THEN tick' = [tick EXCEPT !.pc = "recounted", !.task = t,
                                            !.count = Cardinality(Running(tick.project))]
                  ELSE Attempt(t)
  /\ UNCHANGED <<board, timer, generation, life>>

Recounted ==
  /\ tick.pc = "recounted"
  /\ IF ~HasRoom \/ ~Current
       THEN tick' = [tick EXCEPT !.pc = "projects"]
       ELSE Attempt(tick.task)
  /\ UNCHANGED <<board, timer, generation, life>>

\* A fault: the tick relies on what it read before the availability check
Trusted(p) == TRUE

\* DBG-06/07: automation and active runs are read again after the check.
MayClaim(p) == automation[p].enabled /\ ~Full(p)

\* The availability check answers.  From here to createRun nothing interleaves.
Checked ==
  LET t == tick.task
      p == ProjectOf[t]
      refused == tick.provider \notin up \/ assignee[t] # tick.provider IN
  /\ tick.pc = "checking"
  /\ \/ /\ refused
        /\ tick' = [tick EXCEPT !.pc = AfterFailure]
        /\ UNCHANGED <<card, active>>
     \/ /\ ~refused /\ ~MayClaim(p)
        /\ tick' = [tick EXCEPT !.pc = "projects"]
        /\ UNCHANGED <<card, active>>
     \/ /\ ~refused /\ MayClaim(p) /\ (Blocked(t) \/ ~Startable(t))
        /\ tick' = [tick EXCEPT !.pc = AfterFailure]
        /\ UNCHANGED <<card, active>>
     \/ /\ ~refused /\ MayClaim(p) /\ ~Blocked(t) /\ Startable(t)
        /\ tick' = [tick EXCEPT !.pc = "claims", !.room = @ - 1]
        /\ card' = [card EXCEPT ![t] = "in_progress"]
        /\ active' = active \cup {t}
  /\ UNCHANGED <<assignee, blockedBy, automation, up, timer, generation, life>>

TickStep == NextProject \/ ListTodo \/ NextCandidate \/ Recounted \/ Checked

-----------------------------------------------------------------------------
(* What happens on the board meanwhile; requests are served until the very end *)

\* Runs that people start or continue are not limited (D9).
ManualStart(t) ==
  /\ assignee[t] \in Providers
  /\ Startable(t) \/ (card[t] = "in_review" /\ t \notin active)
  /\ card' = [card EXCEPT ![t] = "in_progress"]
  /\ active' = active \cup {t}
  /\ UNCHANGED <<assignee, blockedBy, automation, up, timer, generation, tick, life>>

\* A run ends: the card goes to review, or after a stop to todo, or stays.
RunEnds(t) ==
  /\ t \in active
  /\ active' = active \ {t}
  /\ \/ card[t] = "in_progress" /\ card' = [card EXCEPT ![t] = "in_review"]
     \/ card' = [card EXCEPT ![t] = "todo"]
     \/ UNCHANGED card
  /\ UNCHANGED <<assignee, blockedBy, automation, up, timer, generation, tick, life>>

\* A plain move, by a person or by the agent that works on the card
MoveByHand(t, s) ==
  /\ s # card[t]
  /\ card' = [card EXCEPT ![t] = s]
  /\ UNCHANGED <<assignee, blockedBy, automation, active, up, timer, generation, tick, life>>

Assign(t, a) ==
  /\ a # assignee[t]
  /\ assignee' = [assignee EXCEPT ![t] = a]
  /\ UNCHANGED <<card, blockedBy, automation, active, up, timer, generation, tick, life>>

SetDependency(d) ==
  /\ blockedBy' = IF d \in blockedBy THEN blockedBy \ {d} ELSE blockedBy \cup {d}
  /\ UNCHANGED <<card, assignee, automation, active, up, timer, generation, tick, life>>

ProviderChanges(v) ==
  /\ up' = IF v \in up THEN up \ {v} ELSE up \cup {v}
  /\ UNCHANGED <<card, assignee, blockedBy, automation, active, timer, generation, tick, life>>

\* nudgeScheduler
MayNudge == started /\ ~closing

\* PUT automation: a project that is (still) turned on gets a tick at once.
SetAutomation(p, settings) ==
  /\ settings # automation[p]
  /\ automation' = [automation EXCEPT ![p] = settings]
  /\ IF settings.enabled /\ MayNudge THEN Tick(automation') ELSE UNCHANGED tick
  /\ UNCHANGED <<card, assignee, blockedBy, active, up, timer, generation, life>>

-----------------------------------------------------------------------------
(* Start and end of the board process *)

\* A fault: the startup does not notice that the board is closing
AlwaysStarted == TRUE

MayStart == ~closing

\* startupTask: the scheduler starts once recovery has ended.
RecoveryEnds ==
  /\ recovering /\ recovering' = FALSE
  /\ IF MayStart THEN started' = TRUE /\ timer' = TRUE /\ Tick(automation)
                 ELSE UNCHANGED <<started, timer, tick>>
  /\ UNCHANGED <<board, generation, closing, closed>>

\* close() up to `await scheduler.stop()'
Close ==
  /\ ~closing /\ closing' = TRUE
  /\ started' = FALSE /\ timer' = FALSE
  /\ generation' = generation + 1
  /\ UNCHANGED <<board, tick, recovering, closed>>

\* stop() resolves when the tick in flight has ended.
Settled == tick.pc = "idle"

\* close() has waited for stop() and for startupTask, and goes on.
Closed ==
  /\ closing /\ ~closed /\ Settled /\ ~recovering
  /\ closed' = TRUE
  /\ UNCHANGED <<board, timer, generation, tick, recovering, started, closing>>

Init ==
  /\ card \in [Tasks -> {"todo", "in_progress"}]
  /\ active = {t \in Tasks : card[t] = "in_progress"}
  /\ assignee = Assigned
  /\ blockedBy = {}
  /\ automation \in [Projects -> Settings]
  /\ up = Providers
  /\ timer = FALSE /\ generation = 0 /\ tick = Idle
  /\ recovering = TRUE /\ started = FALSE /\ closing = FALSE /\ closed = FALSE

People ==
  \/ \E t \in Tasks :
       \/ ManualStart(t) \/ RunEnds(t)
       \/ \E s \in HandMoves : MoveByHand(t, s)
       \/ \E a \in Assignments : Assign(t, a)
  \/ \E d \in Dependencies : SetDependency(d)
  \/ \E v \in Flaky : ProviderChanges(v)
  \/ \E p \in Projects, settings \in Settings : SetAutomation(p, settings)

Next == TimerFires \/ TickStep \/ People \/ RecoveryEnds \/ Close \/ Closed

Spec == Init /\ [][Next]_vars

\* Promises of the tick resolve, the availability check has a timeout, the
\* interval keeps firing and recovery ends.  Nothing is asked of people.
Fairness == WF_vars(TickStep) /\ WF_vars(TimerFires) /\ WF_vars(RecoveryEnds) /\ WF_vars(Closed)

FairSpec == Spec /\ Fairness

-----------------------------------------------------------------------------
(* Properties *)

\* A tick's list of projects: some of them, with the settings they had
Snapshots == UNION {[P -> Settings] : P \in SUBSET Projects}

TickType ==
  [pc : {"idle", "projects", "counted", "claims", "recounted", "checking"},
   gen : Nat, left : Snapshots, project : Projects \cup {NoProject},
   max : Nat, mode : {"suggested", "manual"}, count : Nat, todo : SUBSET Tasks, room : Nat,
   again : BOOLEAN, task : Tasks \cup {0}, provider : Assignees]

\* Every variable keeps its kind of value: a tick never counts its room below zero.
TypeOK ==
  /\ card \in [Tasks -> CardStatus]
  /\ assignee \in [Tasks -> Assignees]
  /\ blockedBy \subseteq Dependencies
  /\ automation \in [Projects -> Settings]
  /\ active \subseteq Tasks /\ up \subseteq Providers
  /\ timer \in BOOLEAN /\ generation \in Nat
  /\ tick \in TickType
  /\ recovering \in BOOLEAN /\ started \in BOOLEAN /\ closing \in BOOLEAN /\ closed \in BOOLEAN

\* The card the scheduler claims in a step
Claims(t) == tick.pc = "checking" /\ tick'.pc = "claims" /\ t \in active' \ active

\* A claim is right at the moment it is made, whatever the tick read earlier: the
\* project has auto-claim turned on and stays within its limit with the new run,
\* and the card is not blocked and belongs to an agent (DBG-06/07 in app.mjs).
ClaimsAreCurrent ==
  [][\A t \in Tasks : Claims(t) =>
       /\ automation[ProjectOf[t]].enabled
       /\ Cardinality(Running(ProjectOf[t])') <= automation[ProjectOf[t]].max
       /\ ~Blocked(t) /\ assignee[t] \in Providers]_vars

\* Once the scheduler was stopped the tick in flight begins no other claim
\* (contract of stop() in scheduler.mjs).
StopEndsClaims ==
  [][tick.gen # generation /\ tick.pc # "checking" => tick'.pc # "checking"]_vars

\* When close() goes on past the scheduler no tick is in flight and none can come,
\* neither from the interval, nor from a nudge, nor from a late startup.
ClosedIsQuiet == closed => tick.pc = "idle" /\ ~timer /\ ~started

\* The card could be claimed now, and no card before it in the project's order could.
Front(t) ==
  LET p == ProjectOf[t]
      able == {s \in Tasks : ProjectOf[s] = p /\ Candidate(s) /\ Startable(s) /\ assignee[s] \in up} IN
  /\ started /\ automation[p].enabled /\ ~Full(p)
  /\ IsFirst(t, able, automation[p].mode)

\* Once people leave the settings alone a card does not wait at the front for ever:
\* cards before it that cannot be started, a tick that has old settings, and nudges
\* that come while a tick is in flight do not keep it from being claimed.
FrontIsClaimed ==
  <>[][UNCHANGED automation]_automation => \A t \in Tasks : []<>~Front(t)
=============================================================================
