---------------------------- MODULE SchedulerProofs ----------------------------
(***************************************************************************)
(* The safety properties of the auto-claim scheduler hold for every board: *)
(* any number of cards and projects, any settings, any order in which      *)
(* people, ticks and the end of the process take their steps.              *)
(***************************************************************************)
EXTENDS Scheduler, FiniteSetTheorems, TLAPS

USE TasksAssumption, ProjectsAssumption, SettingsAssumption, MovesAssumption,
    AssigneesAssumption

-----------------------------------------------------------------------------
(* The invariant *)

\* A tick that has picked a card has room for it, so counting down stays in Nat.
CardPicked == tick.pc \in {"recounted", "checking"} => tick.task \in Tasks /\ tick.room > 0

\* From the moment close() begins nothing sets the interval or begins a tick; once
\* it has waited for the tick in flight and for recovery none is left.
ClosingIsQuiet ==
  /\ closing => ~timer /\ ~started
  /\ closed => closing /\ ~recovering /\ tick.pc = "idle"

IInv == TypeOK /\ CardPicked /\ ClosingIsQuiet

-----------------------------------------------------------------------------
(* Helpers *)

\* The active runs of a project can be counted.
LEMMA RunningCounted ==
  ASSUME NEW p, active \subseteq Tasks
  PROVE  IsFiniteSet(Running(p)) /\ Cardinality(Running(p)) \in Nat
<1>1. Running(p) \subseteq Tasks
  BY DEF Running
<1>2. IsFiniteSet(Running(p))
  BY <1>1, FS_Subset
<1> QED
  BY <1>2, FS_CardinalityType

\* A snapshot keeps the settings of some projects.
LEMMA SnapshotTaken ==
  ASSUME NEW settings \in [Projects -> Settings]
  PROVE  Enabled(settings) \in Snapshots
<1> DEFINE P == {p \in Projects : settings[p].enabled}
<1>1. Enabled(settings) \in [P -> Settings]
  BY DEF Enabled, Restrict
<1> QED
  BY <1>1 DEF Snapshots

\* Going on to a project takes it off the snapshot.
LEMMA SnapshotShrinks ==
  ASSUME NEW f \in Snapshots, NEW p \in DOMAIN f
  PROVE  /\ p \in Projects /\ f[p] \in Settings
         /\ Restrict(f, DOMAIN f \ {p}) \in Snapshots
<1>1. PICK P \in SUBSET Projects : f \in [P -> Settings]
  BY DEF Snapshots
<1>2. Restrict(f, DOMAIN f \ {p}) \in [P \ {p} -> Settings]
  BY <1>1 DEF Restrict
<1> QED
  BY <1>1, <1>2 DEF Snapshots

\* The snapshot of no project
LEMMA SnapshotEmpty == << >> \in Snapshots
<1>1. << >> \in [{} -> Settings]
  OBVIOUS
<1> QED
  BY <1>1 DEF Snapshots

\* The idle tick, and the tick that begins, are ticks.
LEMMA TickBegins ==
  ASSUME tick \in TickType, generation \in Nat, NEW settings \in [Projects -> Settings],
         Tick(settings)
  PROVE  /\ tick' \in TickType
         /\ tick'.pc = IF tick.pc = "idle" THEN "projects" ELSE tick.pc
         /\ tick.pc # "idle" => tick' = tick
<1>1. Idle \in TickType
  BY SnapshotEmpty DEF Idle, TickType, NoProject, Assignees
<1>2. Enabled(settings) \in Snapshots
  BY SnapshotTaken
<1> QED
  BY <1>1, <1>2 DEF Tick, TickType
-----------------------------------------------------------------------------
(* The invariant is inductive *)

LEMMA InitInv == Init => IInv
<1> SUFFICES ASSUME Init PROVE IInv
  OBVIOUS
<1>1. Idle \in TickType
  BY SnapshotEmpty DEF Idle, TickType, NoProject, Assignees
<1>2. tick.pc = "idle"
  BY DEF Init, Idle
<1>3. TypeOK
  BY <1>1 DEF Init, TypeOK, CardStatus, Providers
<1> QED
  BY <1>2, <1>3 DEF Init, IInv, CardPicked, ClosingIsQuiet

\* An attempt leaves a tick behind, with the card it is about.
LEMMA AttemptMade ==
  ASSUME TypeOK, NEW t \in Tasks, Attempt(t), tick.room > 0
  PROVE  tick' \in TickType /\ CardPicked'
<1>1. tick \in TickType /\ assignee[t] \in Assignees
  BY DEF TypeOK
<1>2. CASE assignee[t] \in Providers
  BY <1>1, <1>2 DEF Attempt, Attempted, TickType, CardPicked
<1>3. CASE assignee[t] \notin Providers
  BY <1>1, <1>3 DEF Attempt, Attempted, AfterFailure, TickType, CardPicked
<1> QED BY <1>2, <1>3

\* Every segment of a tick leaves a tick behind, and picks a card only with room.
LEMMA TickMoves ==
  ASSUME IInv, TickStep
  PROVE  tick' \in TickType /\ CardPicked'
<1> USE DEF IInv, TypeOK
<1>1. CASE NextProject
  <2>1. CASE tick' = Idle
    BY <2>1, SnapshotEmpty DEF Idle, TickType, NoProject, Assignees, CardPicked
  <2>2. CASE tick' # Idle
    <3>1. PICK p \in DOMAIN tick.left :
            tick' = [tick EXCEPT !.pc = "counted", !.project = p,
                                 !.left = Restrict(@, DOMAIN @ \ {p}),
                                 !.max = tick.left[p].max, !.mode = tick.left[p].mode,
                                 !.count = Cardinality(Running(p)), !.again = FALSE]
      BY <1>1, <2>2 DEF NextProject
    <3>2. tick.left \in Snapshots
      BY DEF TickType
    <3>3. p \in Projects /\ tick.left[p] \in Settings /\ Restrict(tick.left, DOMAIN tick.left \ {p}) \in Snapshots
      BY <3>2, SnapshotShrinks
    <3>4. tick.left[p].max \in Nat /\ tick.left[p].mode \in {"suggested", "manual"}
      BY <3>3
    <3>5. Cardinality(Running(p)) \in Nat
      BY RunningCounted
    <3> QED
      BY <3>1, <3>3, <3>4, <3>5 DEF TickType, CardPicked
  <2> QED BY <2>1, <2>2
<1>2. CASE ListTodo
  <2>1. CASE HasRoom
    <3>1. tick.max - tick.count \in Nat
      BY <2>1 DEF HasRoom, TickType
    <3>2. PICK todo \in SUBSET Tasks :
            tick' = [tick EXCEPT !.pc = "claims", !.room = tick.max - tick.count, !.todo = todo]
      BY <1>2, <2>1 DEF ListTodo
    <3> QED BY <3>1, <3>2 DEF TickType, CardPicked
  <2>2. CASE ~HasRoom
    BY <1>2, <2>2 DEF ListTodo, TickType, CardPicked
  <2> QED BY <2>1, <2>2
<1>3. CASE NextCandidate
  <2>1. Cardinality(Running(tick.project)) \in Nat
    BY RunningCounted
  <2>2. CASE tick' = [tick EXCEPT !.pc = "projects"]
    BY <2>2 DEF TickType, CardPicked
  <2>3. CASE tick' # [tick EXCEPT !.pc = "projects"]
    <3>1. PICK t \in tick.todo :
            IF tick.again
              THEN tick' = [tick EXCEPT !.pc = "recounted", !.task = t,
                                        !.count = Cardinality(Running(tick.project))]
              ELSE Attempt(t)
      BY <1>3, <2>3 DEF NextCandidate
    <3>2. t \in Tasks /\ tick.room > 0
      BY <1>3, <2>3 DEF NextCandidate, TickType
    <3>3. CASE tick.again
      <4>1. tick' = [tick EXCEPT !.pc = "recounted", !.task = t,
                                 !.count = Cardinality(Running(tick.project))]
        BY <3>1, <3>3
      <4> HIDE DEF IInv, TypeOK
      <4>2. tick \in TickType
        BY DEF IInv, TypeOK
      <4> QED
        BY <2>1, <3>2, <4>1, <4>2 DEF TickType, CardPicked
    <3>4. CASE ~tick.again
      BY <3>1, <3>2, <3>4, AttemptMade
    <3> QED BY <3>3, <3>4
  <2> QED BY <2>2, <2>3
<1>4. CASE Recounted
  <2>1. CASE tick' = [tick EXCEPT !.pc = "projects"]
    BY <2>1 DEF TickType, CardPicked
  <2>2. CASE tick' # [tick EXCEPT !.pc = "projects"]
    <3>1. Attempt(tick.task) /\ tick.task \in Tasks /\ tick.room > 0
      BY <1>4, <2>2 DEF Recounted, CardPicked
    <3> QED BY <3>1, AttemptMade
  <2> QED BY <2>1, <2>2
<1>5. CASE Checked
  <2>1. CASE tick' = [tick EXCEPT !.pc = "projects"]
    BY <2>1 DEF TickType, CardPicked
  <2>2. CASE tick' = [tick EXCEPT !.pc = AfterFailure]
    BY <2>2 DEF AfterFailure, TickType, CardPicked
  <2>3. CASE tick' = [tick EXCEPT !.pc = "claims", !.room = @ - 1]
    <3>1. tick.room - 1 \in Nat
      BY <1>5 DEF Checked, CardPicked, TickType
    <3> QED BY <2>3, <3>1 DEF TickType, CardPicked
  <2> QED BY <1>5, <2>1, <2>2, <2>3 DEF Checked
<1> QED
  BY <1>1, <1>2, <1>3, <1>4, <1>5 DEF TickStep

LEMMA NextInv == IInv /\ [Next]_vars => IInv'
<1> SUFFICES ASSUME IInv, [Next]_vars PROVE IInv'
  OBVIOUS
<1> USE DEF IInv, TypeOK, board, life
<1>1. CASE TimerFires
  <2>1. tick' \in TickType /\ tick'.pc = "projects"
    BY <1>1, TickBegins DEF TimerFires
  <2>2. TypeOK'
    BY <1>1, <2>1 DEF TimerFires
  <2> QED
    BY <1>1, <2>1, <2>2 DEF TimerFires, CardPicked, ClosingIsQuiet
<1>2. CASE TickStep
  <2>1. tick' \in TickType /\ CardPicked'
    BY <1>2, TickMoves
  <2>2. tick.pc # "idle"
    BY <1>2 DEF TickStep, NextProject, ListTodo, NextCandidate, Recounted, Checked
  <2>3. UNCHANGED <<assignee, blockedBy, automation, up, timer, generation, life>>
    BY <1>2 DEF TickStep, NextProject, ListTodo, NextCandidate, Recounted, Checked
  <2>4. card' \in [Tasks -> CardStatus] /\ active' \subseteq Tasks
    BY <1>2 DEF TickStep, NextProject, ListTodo, NextCandidate, Recounted, Checked, CardPicked, CardStatus
  <2> QED
    BY <2>1, <2>2, <2>3, <2>4 DEF ClosingIsQuiet
<1>3. CASE People
  <2>1. UNCHANGED <<timer, generation, life>>
    BY <1>3 DEF People, ManualStart, RunEnds, MoveByHand, Assign, SetDependency, ProviderChanges,
                SetAutomation
  <2>2. ASSUME NEW t \in Tasks, ManualStart(t) \/ RunEnds(t) PROVE IInv'
    BY <2>2, <2>1 DEF ManualStart, RunEnds, CardStatus, CardPicked, ClosingIsQuiet
  <2>3. ASSUME NEW t \in Tasks, NEW s \in HandMoves, MoveByHand(t, s) PROVE IInv'
    BY <2>3, <2>1 DEF MoveByHand, CardPicked, ClosingIsQuiet
  <2>4. ASSUME NEW t \in Tasks, NEW a \in Assignments, Assign(t, a) PROVE IInv'
    BY <2>4, <2>1 DEF Assign, CardPicked, ClosingIsQuiet
  <2>5. ASSUME NEW d \in Dependencies, SetDependency(d) PROVE IInv'
    BY <2>5, <2>1 DEF SetDependency, CardPicked, ClosingIsQuiet
  <2>6. ASSUME NEW v \in Flaky, ProviderChanges(v) PROVE IInv'
    BY <2>6, <2>1 DEF ProviderChanges, CardPicked, ClosingIsQuiet
  <2>7. ASSUME NEW p \in Projects, NEW settings \in Settings, SetAutomation(p, settings) PROVE IInv'
    <3>1. automation' \in [Projects -> Settings]
      BY <2>7 DEF SetAutomation
    <3>2. CASE tick' = tick
      BY <2>7, <2>1, <3>1, <3>2 DEF SetAutomation, CardPicked, ClosingIsQuiet
    <3>3. CASE tick' # tick
      <4>1. started /\ ~closing /\ Tick(automation')
        BY <2>7, <3>3 DEF SetAutomation, MayNudge
      <4>2. tick' \in TickType /\ tick'.pc = "projects"
        BY <3>1, <3>3, <4>1, TickBegins
      <4> QED
        BY <2>7, <2>1, <3>1, <4>1, <4>2 DEF SetAutomation, CardPicked, ClosingIsQuiet
    <3> QED BY <3>2, <3>3
  <2> QED
    BY <1>3, <2>2, <2>3, <2>4, <2>5, <2>6, <2>7 DEF People
<1>4. CASE RecoveryEnds
  <2>1. CASE closing
    BY <1>4, <2>1 DEF RecoveryEnds, MayStart, CardPicked, ClosingIsQuiet
  <2>2. CASE ~closing
    <3>1. timer' /\ started' /\ Tick(automation) /\ ~recovering'
      BY <1>4, <2>2 DEF RecoveryEnds, MayStart
    <3>2. tick' \in TickType /\ CardPicked'
      BY <3>1, TickBegins DEF CardPicked
    <3>3. TypeOK'
      BY <1>4, <3>1, <3>2 DEF RecoveryEnds
    <3>4. ~closing' /\ ~closed'
      BY <1>4, <2>2 DEF RecoveryEnds, ClosingIsQuiet
    <3>5. ClosingIsQuiet'
      BY <3>4 DEF ClosingIsQuiet
    <3> QED
      BY <3>2, <3>3, <3>5
  <2> QED BY <2>1, <2>2
<1>5. CASE Close
  <2>1. TypeOK'
    <3>1. UNCHANGED <<card, assignee, blockedBy, automation, active, up, tick, recovering, closed>>
      BY <1>5 DEF Close
    <3>2. generation' \in Nat
      BY <1>5 DEF Close
    <3>3. closing' \in BOOLEAN /\ started' \in BOOLEAN /\ timer' \in BOOLEAN
      BY <1>5, Zenon DEF Close
    <3> QED BY <3>1, <3>2, <3>3
  <2>2. CardPicked'
    BY <1>5 DEF Close, CardPicked
  <2>3. ~timer' /\ ~started' /\ closing' /\ ~closed'
    BY <1>5 DEF Close, ClosingIsQuiet
  <2>4. ClosingIsQuiet'
    BY <2>3 DEF ClosingIsQuiet
  <2> QED BY <2>1, <2>2, <2>4
<1>6. CASE Closed
  BY <1>6 DEF Closed, Settled, CardPicked, ClosingIsQuiet
<1>7. CASE UNCHANGED vars
  BY <1>7 DEF vars, CardPicked, ClosingIsQuiet
<1> QED
  BY <1>1, <1>2, <1>3, <1>4, <1>5, <1>6, <1>7 DEF Next

\* The invariant holds of every board.
THEOREM Invariant == Spec => []IInv
<1> QED
  BY InitInv, NextInv, PTL DEF Spec

-----------------------------------------------------------------------------
(* What a reader should know of *)

\* Every variable keeps its kind of value; a tick that counts its claims down never
\* goes below zero (startedHere of runProject stays within available).
THEOREM TypeCorrect == Spec => []TypeOK
<1>1. IInv => TypeOK
  BY DEF IInv
<1> QED
  BY <1>1, Invariant, PTL

\* When close() goes on past the scheduler no tick is in flight and none can come.
THEOREM ClosedIsQuietHolds == Spec => []ClosedIsQuiet
<1>1. IInv => ClosedIsQuiet
  BY DEF IInv, ClosingIsQuiet, ClosedIsQuiet
<1> QED
  BY <1>1, Invariant, PTL

\* After stop() the tick in flight begins no other claim.
THEOREM StopEndsClaimsHolds == Spec => StopEndsClaims
<1> DEFINE A == tick.gen # generation /\ tick.pc # "checking" => tick'.pc # "checking"
<1>1. ASSUME IInv, [Next]_vars PROVE A
  <2> SUFFICES ASSUME tick.gen # generation, tick.pc # "checking" PROVE tick'.pc # "checking"
    OBVIOUS
  <2> USE DEF IInv, TypeOK
  <2>1. ASSUME TickStep PROVE tick'.pc # "checking"
    <3> USE <1>1, <2>1 DEF TickType
    <3>1. CASE NextProject
      <4>1. CASE tick' = Idle
        BY <4>1 DEF Idle
      <4>2. CASE tick' # Idle
        BY <3>1, <4>2 DEF NextProject, Current
      <4> QED BY <4>1, <4>2
    <3>2. CASE ListTodo
      BY <3>2 DEF ListTodo
    <3>3. CASE NextCandidate
      BY <3>3 DEF NextCandidate, Current
    <3>4. CASE Recounted
      BY <3>4 DEF Recounted, Current
    <3>5. CASE Checked
      BY <3>5 DEF Checked, AfterFailure
    <3> QED BY <3>1, <3>2, <3>3, <3>4, <3>5 DEF TickStep
  <2>2. ASSUME NEW settings \in [Projects -> Settings], Tick(settings) PROVE tick'.pc # "checking"
    BY <1>1, <2>2, TickBegins
  <2>3. ASSUME People PROVE tick'.pc # "checking"
    <3>1. CASE tick' = tick
      BY <3>1
    <3>2. CASE tick' # tick
      <4>1. PICK p \in Projects, settings \in Settings : SetAutomation(p, settings)
        BY <2>3, <3>2 DEF People, ManualStart, RunEnds, MoveByHand, Assign, SetDependency,
                          ProviderChanges
      <4>2. automation' \in [Projects -> Settings] /\ Tick(automation')
        BY <1>1, <3>2, <4>1 DEF SetAutomation
      <4> QED BY <4>2, <2>2
    <3> QED BY <3>1, <3>2
  <2> QED
    BY <1>1, <2>1, <2>2, <2>3 DEF Next, TimerFires, RecoveryEnds, Close, Closed, vars, board
<1> QED
  BY <1>1, Invariant, PTL DEF Spec, StopEndsClaims

\* A claim is right at the moment it is made, however old what the tick read is.
THEOREM ClaimsAreCurrentHolds == Spec => ClaimsAreCurrent
<1> DEFINE A == \A t \in Tasks : Claims(t) =>
                  /\ automation[ProjectOf[t]].enabled
                  /\ Cardinality(Running(ProjectOf[t])') <= automation[ProjectOf[t]].max
                  /\ ~Blocked(t) /\ assignee[t] \in Providers
<1>1. ASSUME IInv, [Next]_vars PROVE A
  <2> SUFFICES ASSUME NEW t \in Tasks, Claims(t)
               PROVE  /\ automation[ProjectOf[t]].enabled
                      /\ Cardinality(Running(ProjectOf[t])') <= automation[ProjectOf[t]].max
                      /\ ~Blocked(t) /\ assignee[t] \in Providers
    OBVIOUS
  <2> DEFINE p == ProjectOf[t]
  <2>1. Checked
    <3>1. tick' # tick /\ tick.pc = "checking" /\ active' # active
      BY DEF Claims
    <3> QED
      BY <1>1, <3>1 DEF Next, TimerFires, TickStep, NextProject, ListTodo, NextCandidate, Recounted,
         People, ManualStart, RunEnds, MoveByHand, Assign, SetDependency, ProviderChanges,
         SetAutomation, RecoveryEnds, Close, Closed, vars, board
  <2>2. /\ t = tick.task /\ t \notin active /\ active' = active \cup {t}
        /\ MayClaim(p) /\ ~Blocked(t) /\ tick.provider = assignee[t] /\ assignee[t] \in up
    BY <2>1 DEF Claims, Checked
  <2>3. up \subseteq Providers /\ automation[p] \in Settings
    BY <1>1 DEF IInv, TypeOK
  <2>4. IsFiniteSet(Running(p)) /\ Cardinality(Running(p)) \in Nat
    BY <1>1, RunningCounted DEF IInv, TypeOK
  <2>5. Running(p)' = Running(p) \cup {t} /\ t \notin Running(p)
    BY <2>2 DEF Running
  <2>6. Cardinality(Running(p)') = Cardinality(Running(p)) + 1
    BY <2>4, <2>5, FS_AddElement
  <2>7. ~(Cardinality(Running(p)) >= automation[p].max) /\ automation[p].max \in Nat
    BY <2>2, <2>3 DEF MayClaim, Full
  <2> QED
    BY <2>2, <2>3, <2>4, <2>6, <2>7 DEF MayClaim
<1> QED
  BY <1>1, Invariant, PTL DEF Spec, ClaimsAreCurrent
=============================================================================
