--------------------------- MODULE CodexTurnsProofs ---------------------------
(***************************************************************************)
(* Theorems about the turns of one Codex thread, for any runs of it and    *)
(* any number of requests, turns and processes.                            *)
(***************************************************************************)
EXTENDS CodexTurns, FiniteSetTheorems, SequenceTheorems, TLAPS

USE ConnectionAssumption, TurnsAssumption

-----------------------------------------------------------------------------
(* Types *)

RequestStates == {"free", "queued", "sent", "resolved", "rejected", "done"}
Methods == {"none", "thread/start", "thread/resume", "turn/start", "turn/interrupt"}
RequestType == [state : RequestStates, child : Children \cup {0}, method : Methods,
                turn : Turns \cup {0}]
MessageType == [kind : {"result", "error", "started", "completed"},
                id : Requests \cup {0}, turn : Turns \cup {0}]
RunType == [tracked : BOOLEAN, phase : {"idle", "turn-starting", "running"},
            child : Children \cup {0}, turn : Turns \cup {0}, last : Turns \cup {0},
            row : Turns \cup {0}]
JobType == [step : {"none", "thread", "resume", "turn"}, id : Requests \cup {0}, starts : BOOLEAN]
StopType == [step : {"none", "interrupt", "told", "wait"}, id : Requests \cup {0},
             on : Runs \cup {0}, turn : Turns \cup {0}, stopped : BOOLEAN]

ConnectionTypes ==
  /\ child \in Children \cup {0} /\ starting \in Children \cup {0} /\ closing \in BOOLEAN
  /\ proc \in [Children -> {"none", "up", "gone"}]
  /\ request \in [Requests -> RequestType]
  /\ inbox \in [Children -> SUBSET Requests] /\ out \in [Children -> Seq(MessageType)]
ProviderTypes ==
  /\ run \in [Runs -> RunType] /\ bound \in Runs \cup {0} /\ loaded \in Children \cup {0}
  /\ job \in [Runs -> JobType] /\ stop \in [Runs -> StopType]
  /\ turn \in [Turns -> {"none", "busy", "done"}]
  /\ late \in BOOLEAN /\ crossed \in BOOLEAN

\* A call at an await has made a request.
IdsKnown ==
  /\ \A r \in Runs : job[r].step # "none" => job[r].id \in Requests
  /\ \A r \in Runs : stop[r].step \in {"interrupt", "told"} => stop[r].id \in Requests

TypeOK == ConnectionTypes /\ ProviderTypes /\ IdsKnown

LEMMA Numbers ==
  /\ 0 \notin Runs /\ 0 \notin Children /\ 0 \notin Requests /\ 0 \notin Turns
  /\ 1 \in Runs /\ 1 \in Turns /\ 1 \in Requests
BY DEF Children, Requests, Turns

LEMMA Values ==
  /\ NoRequest \in RequestType /\ NoRun \in RunType /\ NoJob \in JobType /\ NoStop \in StopType
  /\ NoRequest.state = "free" /\ NoRequest.method = "none" /\ NoRequest.turn = 0
  /\ NoJob.step = "none" /\ NoStop.step = "none"
BY DEF NoRequest, RequestType, RequestStates, Methods, NoRun, RunType, NoJob, JobType, NoStop,
       StopType

LEMMA MessageValues ==
  ASSUME NEW i \in Requests, NEW ok \in BOOLEAN, NEW k \in Turns \cup {0},
         NEW kind \in {"started", "completed"}
  PROVE  /\ Answer(i, ok, k) \in MessageType /\ News(kind, k) \in MessageType
         /\ Answer(i, ok, k).id = i /\ Answer(i, ok, k).turn = k
         /\ Answer(i, ok, k).kind = IF ok THEN "result" ELSE "error"
         /\ News(kind, k).id = 0 /\ News(kind, k).turn = k /\ News(kind, k).kind = kind
BY DEF Answer, News, MessageType
\* Records that are changed keep their type.
LEMMA RunParts ==
  ASSUME NEW x \in RunType
  PROVE  /\ x.phase \in {"idle", "turn-starting", "running"}
         /\ x.turn \in Turns \cup {0} /\ x.last \in Turns \cup {0} /\ x.row \in Turns \cup {0}
         /\ x.child \in Children \cup {0} /\ x.tracked \in BOOLEAN
         /\ [x EXCEPT !.tracked = FALSE] \in RunType
BY DEF RunType

LEMMA RunMarked ==
  ASSUME NEW x \in RunType, NEW k \in Turns \cup {0}
  PROVE  /\ [x EXCEPT !.turn = k, !.phase = "running", !.row = k] \in RunType
         /\ [x EXCEPT !.phase = "idle", !.turn = k, !.last = k] \in RunType
         /\ [x EXCEPT !.phase = "idle", !.last = k] \in RunType
BY DEF RunType

LEMMA RunPhased ==
  ASSUME NEW x \in RunType, NEW phase \in {"idle", "turn-starting", "running"}
  PROVE  /\ [x EXCEPT !.phase = phase] \in RunType
         /\ \A c \in Children \cup {0} : [x EXCEPT !.phase = phase, !.child = c] \in RunType
BY DEF RunType

LEMMA RunFresh ==
  ASSUME NEW c \in Children \cup {0}, NEW k \in Turns \cup {0}, NEW l \in Turns \cup {0}
  PROVE  [NoRun EXCEPT !.tracked = TRUE, !.child = c, !.turn = k, !.last = l, !.row = k] \in RunType
BY DEF RunType, NoRun

LEMMA StopValues ==
  ASSUME NEW x \in StopType
  PROVE  /\ [x EXCEPT !.step = "wait"] \in StopType /\ [x EXCEPT !.step = "wait"].step = "wait"
         /\ x.stopped \in BOOLEAN
         /\ \A stopped \in BOOLEAN :
              /\ [x EXCEPT !.step = "told", !.stopped = stopped] \in StopType
              /\ [x EXCEPT !.step = "told", !.stopped = stopped].step = "told"
              /\ [x EXCEPT !.step = "told", !.stopped = stopped].id = x.id
BY DEF StopType

LEMMA OverValues ==
  ASSUME NEW stopped \in BOOLEAN
  PROVE  Over(stopped) \in StopType /\ Over(stopped).step = "none" /\ Over(stopped).stopped = stopped
BY Values DEF StopType, Over, NoStop

LEMMA RequestValues ==
  ASSUME NEW x \in RequestType, NEW state \in RequestStates
  PROVE  /\ [x EXCEPT !.state = state] \in RequestType
         /\ \A k \in Turns \cup {0} : [x EXCEPT !.state = state, !.turn = k] \in RequestType
BY DEF RequestType

LEMMA RequestParts ==
  ASSUME NEW x \in RequestType
  PROVE  /\ x.state \in RequestStates /\ x.turn \in Turns \cup {0} /\ x.method \in Methods
         /\ x.child \in Children \cup {0}
BY DEF RequestType

\* The methods of the connection keep its types.
LEMMA AskTypes ==
  ASSUME ConnectionTypes, NEW i \in Requests, NEW j, NEW method \in Methods, NEW t \in Turns \cup {0},
         Ask(i, j, method, t)
  PROVE  ConnectionTypes'
<1>1. ASSUME NEW state \in RequestStates, NEW c \in Children \cup {0},
             Request(i, j, [state |-> state, child |-> c, method |-> method, turn |-> t])
      PROVE  request' \in [Requests -> RequestType]
  <2>1. [state |-> state, child |-> c, method |-> method, turn |-> t] \in RequestType
    BY DEF RequestType
  <2>2. \A k \in Requests : [request[k] EXCEPT !.state = "done"] \in RequestType
    BY RequestValues DEF ConnectionTypes, RequestStates
  <2> QED BY <1>1, <2>1, <2>2 DEF Request, ConnectionTypes
<1>2. {"rejected", "sent", "queued"} \subseteq RequestStates
  BY DEF RequestStates
<1>3. request' \in [Requests -> RequestType]
  BY <1>1, <1>2 DEF Ask, ConnectionTypes
<1>4. /\ child' \in Children \cup {0} /\ starting' \in Children \cup {0}
      /\ proc' \in [Children -> {"none", "up", "gone"}]
  <2>1. \/ UNCHANGED <<child, starting, proc>>
        \/ \E c \in Children : /\ child' = c /\ starting' = c
                               /\ proc' = [proc EXCEPT ![c] = "up"]
    BY DEF Ask
  <2> QED BY <2>1 DEF ConnectionTypes
<1>5. inbox' \in [Children -> SUBSET Requests]
  <2>1. inbox' = inbox \/ inbox' = [inbox EXCEPT ![child] = @ \cup {i}]
    BY DEF Ask
  <2>2. inbox \in [Children -> SUBSET Requests]
    BY DEF ConnectionTypes
  <2> QED BY <2>1, <2>2
<1>6. closing' \in BOOLEAN /\ out' \in [Children -> Seq(MessageType)]
  <2>1. closing' = closing /\ out' = out
    BY DEF Ask
  <2>2. closing \in BOOLEAN /\ out \in [Children -> Seq(MessageType)]
    BY DEF ConnectionTypes
  <2> QED BY <2>1, <2>2
<1> QED BY <1>3, <1>4, <1>5, <1>6 DEF ConnectionTypes

LEMMA DoneTypes ==
  ASSUME ConnectionTypes, NEW j, Done(j)
  PROVE  ConnectionTypes'
<1>1. \A i \in Requests : [request[i] EXCEPT !.state = "done"] \in RequestType
  BY RequestValues DEF ConnectionTypes, RequestStates
<1> QED BY <1>1 DEF Done, ConnectionTypes

LEMMA HandshakeTypes ==
  ASSUME ConnectionTypes, NEW ok \in BOOLEAN, Handshake(ok)
  PROVE  ConnectionTypes'
<1>1. \A i \in Requests, state \in RequestStates : [request[i] EXCEPT !.state = state] \in RequestType
  BY RequestValues DEF ConnectionTypes
<1>2. request' \in [Requests -> RequestType]
  BY <1>1 DEF Handshake, ConnectionTypes, RequestStates
<1>3. inbox' \in [Children -> SUBSET Requests]
  BY DEF Handshake, ConnectionTypes
<1> QED BY <1>2, <1>3 DEF Handshake, ConnectionTypes

LEMMA ExitTypes ==
  ASSUME ConnectionTypes, Exit, closing' \in BOOLEAN
  PROVE  ConnectionTypes'
<1>1. \A i \in Requests : [request[i] EXCEPT !.state = "rejected"] \in RequestType
  BY RequestValues DEF ConnectionTypes, RequestStates
<1>2. request' \in [Requests -> RequestType]
  BY <1>1 DEF Exit, RejectPending, ConnectionTypes
<1>3. <<>> \in Seq(MessageType)
  OBVIOUS
<1> QED BY <1>2, <1>3 DEF Exit, NoStart, ConnectionTypes

LEMMA WritesTypes ==
  ASSUME ConnectionTypes, NEW c \in Children, NEW i, NEW m \in Seq(MessageType), Writes(c, i, m)
  PROVE  ConnectionTypes'
<1>1. out[c] \o m \in Seq(MessageType)
  BY ConcatProperties DEF ConnectionTypes
<1> QED BY <1>1 DEF Writes, ConnectionTypes

\* The line that is read
LEMMA LineRead ==
  ASSUME ConnectionTypes, NEW m, Reads(m)
  PROVE  /\ child \in Children /\ m \in MessageType /\ Tail(out[child]) \in Seq(MessageType)
         /\ out[child] # <<>> /\ m = Head(out[child])
         /\ m.id \in Requests \cup {0} /\ m.turn \in Turns \cup {0}
<1>1. child \in Children /\ out[child] \in Seq(MessageType) /\ out[child] # <<>>
      /\ m = Head(out[child])
  BY DEF Reads, ConnectionTypes
<1>2. m \in MessageType /\ Tail(out[child]) \in Seq(MessageType)
  BY <1>1, HeadTailProperties
<1> QED BY <1>1, <1>2 DEF MessageType

LEMMA ReadTypes ==
  ASSUME ConnectionTypes, NEW m, ReadAnswer(m) \/ ReadNews(m)
  PROVE  ConnectionTypes'
<1>1. Reads(m)
  BY DEF ReadAnswer, ReadNews
<1>2. /\ child \in Children /\ m \in MessageType /\ Tail(out[child]) \in Seq(MessageType)
      /\ m.turn \in Turns \cup {0}
  BY <1>1, LineRead
<1>3. out' \in [Children -> Seq(MessageType)]
  BY <1>2 DEF ReadAnswer, ReadNews, Read, ConnectionTypes
<1>4. request' \in [Requests -> RequestType]
  <2>1. ASSUME NEW i \in Requests PROVE request'[i] \in RequestType
    <3>1. request[i] \in RequestType
      BY DEF ConnectionTypes
    <3>2. request'[i] = request[i] \/ \E state \in {"resolved", "rejected"} :
            request'[i] = [request[i] EXCEPT !.state = state, !.turn = m.turn]
      <4>1. request \in [Requests -> RequestType]
        BY DEF ConnectionTypes
      <4>2. \/ request' = request
            \/ \E state \in {"resolved", "rejected"} :
                 request' = [request EXCEPT ![m.id].state = state, ![m.id].turn = m.turn]
        BY DEF ReadAnswer, ReadNews
      <4> QED BY <4>1, <4>2
    <3>3. {"resolved", "rejected"} \subseteq RequestStates
      BY DEF RequestStates
    <3>4. \A state \in RequestStates : [request[i] EXCEPT !.state = state, !.turn = m.turn] \in RequestType
      BY <1>2, <3>1, RequestValues
    <3> QED BY <3>1, <3>2, <3>3, <3>4
  <2>2. request' = [i \in Requests |-> request'[i]]
    BY DEF ReadAnswer, ReadNews, ConnectionTypes
  <2> QED BY <2>1, <2>2
<1> QED BY <1>3, <1>4 DEF ReadAnswer, ReadNews, ConnectionTypes

-----------------------------------------------------------------------------
(* What the process does *)

\* A request is refused, or agreed to without a turn.
Refuses(c, i) ==
  i \in inbox[c] /\ Writes(c, i, <<Answer(i, FALSE, 0)>>) /\ UNCHANGED turn
Agrees(c, i) ==
  /\ i \in inbox[c] /\ request[i].method \in {"thread/start", "thread/resume", "turn/interrupt"}
  /\ Writes(c, i, <<Answer(i, TRUE, 0)>>) /\ UNCHANGED turn

\* Turn n is begun, and may be over at once.
Begins(c, i, n) ==
  /\ i \in inbox[c] /\ request[i].method = "turn/start" /\ ~Busy /\ NextTurn(n)
  /\ \/ /\ turn' = [turn EXCEPT ![n] = "busy"]
        /\ \/ Writes(c, i, <<News("started", n), Answer(i, TRUE, n)>>)
           \/ Writes(c, i, <<Answer(i, TRUE, n), News("started", n)>>)
     \/ /\ turn' = [turn EXCEPT ![n] = "done"]
        /\ Writes(c, i, <<News("started", n), News("completed", n), Answer(i, TRUE, n)>>)

\* Turn k ends, by itself or on an interrupt.
Ends(c, i, k) ==
  /\ turn[k] = "busy" /\ turn' = [turn EXCEPT ![k] = "done"]
  /\ \/ i = 0 /\ Writes(c, i, <<News("completed", k)>>)
     \/ /\ i \in inbox[c] /\ request[i].method = "turn/interrupt"
        /\ \/ Writes(c, i, <<Answer(i, TRUE, 0), News("completed", k)>>)
           \/ Writes(c, i, <<News("completed", k), Answer(i, TRUE, 0)>>)

\* The requests that were sent and that no child has handled
Inbox == UNION {inbox[c] : c \in Children}

\* An interrupt names the turn.
InterruptsName ==
  \A i \in Requests :
    request[i].method = "turn/interrupt" /\ (request[i].state \in {"queued", "sent"} \/ i \in Inbox)
      => request[i].turn # 0

LEMMA ChildDoes ==
  ASSUME TypeOK, InterruptsName, Child
  PROVE  /\ UNCHANGED <<provider, ended, history>>
         /\ \E c \in Children :
              \/ \E i \in Requests : \/ Refuses(c, i) \/ Agrees(c, i)
                                      \/ \E n \in Turns : Begins(c, i, n)
              \/ \E i \in Requests \cup {0}, k \in Turns : Ends(c, i, k)
<1>1. ASSUME NEW c \in Children, NEW i \in Requests, ChildHandles(c, i)
      PROVE  \/ Refuses(c, i) \/ Agrees(c, i) \/ \E n \in Turns : Begins(c, i, n)
             \/ \E k \in Turns : Ends(c, i, k)
  <2>1. i \in inbox[c] /\ request[i] \in RequestType
    BY <1>1 DEF ChildHandles, TypeOK, ConnectionTypes
  <2>2. request[i].method = "turn/interrupt" => request[i].turn \in Turns
    BY <2>1 DEF InterruptsName, Inbox, RequestType
  <2> QED BY <1>1, <2>1, <2>2 DEF ChildHandles, Refuses, Agrees, Begins, Ends
<1>2. ASSUME NEW c \in Children, NEW k \in Turns, TurnEnds(c, k) PROVE Ends(c, 0, k)
  BY <1>2 DEF TurnEnds, Ends
<1>3. UNCHANGED <<provider, ended, history>>
  BY DEF Child, ChildHandles, TurnEnds
<1> QED BY <1>1, <1>2, <1>3 DEF Child

\* What the process writes is of the right kind.
LEMMA ChildTypes ==
  ASSUME TypeOK, Child
  PROVE  ConnectionTypes' /\ turn' \in [Turns -> {"none", "busy", "done"}]
<1>1. turn \in [Turns -> {"none", "busy", "done"}] /\ ConnectionTypes
  BY DEF TypeOK, ProviderTypes
<1>2. ASSUME NEW i \in Requests, NEW k \in Turns \cup {0}, NEW ok \in BOOLEAN,
             NEW kind \in {"started", "completed"}, NEW l \in Turns \cup {0}
      PROVE  /\ <<Answer(i, ok, k)>> \in Seq(MessageType) /\ <<News(kind, k)>> \in Seq(MessageType)
             /\ <<News(kind, k), Answer(i, ok, l)>> \in Seq(MessageType)
             /\ <<Answer(i, ok, l), News(kind, k)>> \in Seq(MessageType)
             /\ <<News("started", k), News("completed", k), Answer(i, ok, l)>> \in Seq(MessageType)
  <2>1. /\ Answer(i, ok, k) \in MessageType /\ News(kind, k) \in MessageType
        /\ Answer(i, ok, l) \in MessageType
        /\ News("started", k) \in MessageType /\ News("completed", k) \in MessageType
    BY MessageValues
  <2> QED BY <2>1
<1>3. ASSUME NEW c \in Children, NEW i \in Requests, ChildHandles(c, i)
      PROVE  ConnectionTypes' /\ turn' \in [Turns -> {"none", "busy", "done"}]
  <2>1. request[i].turn \in Turns \cup {0}
    BY <1>1 DEF ConnectionTypes, RequestType
  <2>2. \E m \in Seq(MessageType) : Writes(c, i, m)
    BY <1>2, <1>3, <2>1 DEF ChildHandles
  <2>3. turn' \in [Turns -> {"none", "busy", "done"}]
    BY <1>1, <1>3 DEF ChildHandles
  <2> QED BY <1>1, <2>2, <2>3, WritesTypes
<1>4. ASSUME NEW c \in Children, NEW k \in Turns, TurnEnds(c, k)
      PROVE  ConnectionTypes' /\ turn' \in [Turns -> {"none", "busy", "done"}]
  <2>1. <<News("completed", k)>> \in Seq(MessageType)
    BY <1>2, Numbers
  <2> QED BY <1>1, <1>4, <2>1, WritesTypes DEF TurnEnds
<1> QED BY <1>3, <1>4 DEF Child

-----------------------------------------------------------------------------
(* Types over a step *)

LEMMA TypeParts ==
  ASSUME TypeOK
  PROVE  /\ ConnectionTypes
         /\ run \in [Runs -> RunType] /\ bound \in Runs \cup {0} /\ loaded \in Children \cup {0}
         /\ job \in [Runs -> JobType] /\ stop \in [Runs -> StopType]
         /\ turn \in [Turns -> {"none", "busy", "done"}]
         /\ late \in BOOLEAN /\ crossed \in BOOLEAN
         /\ child \in Children \cup {0} /\ request \in [Requests -> RequestType]
BY DEF TypeOK, ProviderTypes, ConnectionTypes

\* A step keeps the types if it keeps those of the parts it changes.
LEMMA TypeFrom ==
  ASSUME TypeOK, ConnectionTypes',
         run' \in [Runs -> RunType], bound' \in Runs \cup {0}, loaded' \in Children \cup {0},
         job' \in [Runs -> JobType], stop' \in [Runs -> StopType],
         turn' \in [Turns -> {"none", "busy", "done"}], late' \in BOOLEAN, crossed' \in BOOLEAN,
         \A r \in Runs : \/ job'[r] = job[r] \/ job'[r].step = "none" \/ job'[r].id \in Requests,
         \A r \in Runs : \/ stop'[r].step \notin {"interrupt", "told"}
                         \/ stop[r].step \in {"interrupt", "told"} /\ stop'[r].id = stop[r].id
                         \/ stop'[r].id \in Requests
  PROVE  TypeOK'
<1>1. IdsKnown'
  BY DEF TypeOK, IdsKnown
<1> QED BY <1>1 DEF TypeOK, ProviderTypes

\* Telling the waiters of a run
LEMMA ToldTypes ==
  ASSUME NEW S \in [Runs -> StopType], NEW s, NEW stopped \in BOOLEAN
  PROVE  /\ Told(S, s, stopped) \in [Runs -> StopType]
         /\ \A q \in Runs :
              \/ Told(S, s, stopped)[q] = S[q]
              \/ Told(S, s, stopped)[q].step = "none" /\ S[q].step = "wait" /\ S[q].on = s
              \/ /\ S[q].step = "interrupt" /\ S[q].on = s
                 /\ Told(S, s, stopped)[q].step = "told"
                 /\ Told(S, s, stopped)[q].id = S[q].id
<1>1. Over(stopped) \in StopType /\ Over(stopped).step = "none"
  BY OverValues
<1>2. ASSUME NEW q \in Runs
      PROVE  /\ [S[q] EXCEPT !.step = "told", !.stopped = stopped] \in StopType
             /\ [S[q] EXCEPT !.step = "told", !.stopped = stopped].step = "told"
             /\ [S[q] EXCEPT !.step = "told", !.stopped = stopped].id = S[q].id
  <2>1. S[q] \in StopType
    OBVIOUS
  <2> QED BY <2>1, StopValues
<1> QED BY <1>1, <1>2 DEF Told

LEMMA ToldStops ==
  ASSUME stop \in [Runs -> StopType], NEW s, NEW stopped \in BOOLEAN,
         stop' = stop \/ stop' = Told(stop, s, stopped)
  PROVE  /\ stop' \in [Runs -> StopType]
         /\ \A r \in Runs : \/ stop'[r].step \notin {"interrupt", "told"}
                            \/ stop[r].step \in {"interrupt", "told"} /\ stop'[r].id = stop[r].id
<1>1. CASE stop' = stop
  BY <1>1
<1>2. CASE stop' = Told(stop, s, stopped)
  BY <1>2, ToldTypes
<1> QED BY <1>1, <1>2

LEMMA RunTypes ==
  ASSUME NEW R \in [Runs -> RunType], NEW r \in Runs, NEW k \in Turns \cup {0},
         NEW phase \in {"idle", "turn-starting", "running"}, NEW c \in Children \cup {0}
  PROVE  /\ MarkRunning(R, r, k) \in [Runs -> RunType] /\ EndTurn(R, r, k) \in [Runs -> RunType]
         /\ Forgotten(R, r) \in [Runs -> RunType]
         /\ [R EXCEPT ![r].phase = phase] \in [Runs -> RunType]
         /\ [R EXCEPT ![r].phase = phase, ![r].child = c] \in [Runs -> RunType]
<1>1. /\ [R[r] EXCEPT !.turn = k, !.phase = "running", !.row = k] \in RunType
      /\ [R[r] EXCEPT !.phase = "idle", !.turn = k, !.last = k] \in RunType
      /\ [R[r] EXCEPT !.tracked = FALSE] \in RunType
      /\ [R[r] EXCEPT !.phase = phase] \in RunType
      /\ [R[r] EXCEPT !.phase = phase, !.child = c] \in RunType
  <2>1. R[r] \in RunType
    OBVIOUS
  <2> QED BY <2>1, RunMarked, RunPhased, RunParts
<1> QED BY <1>1 DEF MarkRunning, EndTurn, Forgotten

LEMMA TypeStep == TypeOK /\ [Next]_vars => TypeOK'
<1> SUFFICES ASSUME TypeOK, [Next]_vars PROVE TypeOK'
  OBVIOUS
<1> USE DEF provider, truth, history
<1>1. /\ ConnectionTypes
      /\ run \in [Runs -> RunType] /\ bound \in Runs \cup {0} /\ loaded \in Children \cup {0}
      /\ job \in [Runs -> JobType] /\ stop \in [Runs -> StopType]
      /\ turn \in [Turns -> {"none", "busy", "done"}]
      /\ late \in BOOLEAN /\ crossed \in BOOLEAN
      /\ child \in Children \cup {0} /\ request \in [Requests -> RequestType]
  BY TypeParts
<1>2. ASSUME NEW m, ReadStarted(m) PROVE TypeOK'
  <2>1. ConnectionTypes' /\ m.turn \in Turns \cup {0}
    BY <1>1, <1>2, ReadTypes, LineRead DEF ReadStarted, ReadNews
  <2>2. run' \in [Runs -> RunType]
    BY <1>1, <1>2, <2>1, RunTypes DEF ReadStarted, Hears
  <2> QED BY <1>1, <1>2, <2>1, <2>2, TypeFrom DEF ReadStarted
<1>3. ASSUME NEW m, ReadCompleted(m) PROVE TypeOK'
  <2>1. ConnectionTypes' /\ m.turn \in Turns \cup {0}
    BY <1>1, <1>3, ReadTypes, LineRead DEF ReadCompleted, ReadNews
  <2>2. \/ UNCHANGED <<run, stop>>
        \/ bound \in Runs /\ run' = EndTurn(run, bound, m.turn) /\ stop' = Told(stop, bound, TRUE)
    BY <1>1, <1>3 DEF ReadCompleted, Hears
  <2>3. \A r \in Runs : EndTurn(run, r, m.turn) \in [Runs -> RunType]
    BY <1>1, <2>1, RunTypes, Numbers
  <2>4. run' \in [Runs -> RunType]
    BY <1>1, <2>2, <2>3
  <2>5. UNCHANGED <<bound, loaded, job, turn, late, crossed>>
    BY <1>3 DEF ReadCompleted
  <2> QED BY <1>1, <2>1, <2>2, <2>4, <2>5, ToldStops, TypeFrom
<1>4. ASSUME NEW m, ReadAnswer(m), UNCHANGED <<provider, truth, history>> PROVE TypeOK'
  <2>1. ConnectionTypes'
    BY <1>1, <1>4, ReadTypes
  <2> QED BY <1>1, <1>4, <2>1, TypeFrom
<1>5. ASSUME NEW r \in Runs, NEW i \in Requests, ThreadAnswered(r, i) PROVE TypeOK'
  <2>1. ConnectionTypes'
    BY <1>1, <1>5, AskTypes DEF ThreadAnswered, Methods
  <2>2. run' \in [Runs -> RunType]
    <3>1. run' = [run EXCEPT ![r].phase = "turn-starting", ![r].child = child]
      BY <1>5 DEF ThreadAnswered
    <3>2. child \in Children \cup {0} /\ run[r] \in RunType
      BY <1>1 DEF ConnectionTypes
    <3>3. [run[r] EXCEPT !.phase = "turn-starting", !.child = child] \in RunType
      BY <3>2, RunPhased
    <3> QED BY <1>1, <3>1, <3>3
  <2>3. [job[r] EXCEPT !.step = "turn", !.id = i] \in JobType
    <3>1. job[r] \in JobType
      BY <1>1
    <3> QED BY <3>1 DEF JobType
  <2>4. job' \in [Runs -> JobType] /\ \A s \in Runs : job'[s] = job[s] \/ job'[s].id \in Requests
    BY <1>1, <1>5, <2>3 DEF ThreadAnswered, JobType
  <2> QED BY <1>1, <1>5, <2>1, <2>2, <2>4, TypeFrom DEF ThreadAnswered
<1>6. ASSUME NEW r \in Runs, TurnAnswered(r) PROVE TypeOK'
  <2>1. ConnectionTypes' /\ job[r].id \in Requests
    BY <1>1, <1>6, DoneTypes DEF TurnAnswered, TypeOK, IdsKnown
  <2>2. request[job[r].id].turn \in Turns \cup {0}
    BY <1>1, <2>1 DEF RequestType
  <2>3. run' \in [Runs -> RunType]
    BY <1>1, <1>6, <2>2, RunTypes DEF TurnAnswered, Begun
  <2> QED BY <1>1, <1>6, <2>1, <2>3, Values, TypeFrom DEF TurnAnswered
<1>7. ASSUME NEW r \in Runs, JobFails(r) PROVE TypeOK'
  <2>1. ConnectionTypes'
    BY <1>1, <1>7, DoneTypes DEF JobFails
  <2> DEFINE phase == IF job[r].step = "turn" /\ run[r].phase = "turn-starting"
                        THEN "idle" ELSE run[r].phase
             idle == [run EXCEPT ![r].phase = phase]
  <2>2. phase \in {"idle", "turn-starting", "running"}
    BY <1>1 DEF RunType
  <2>3. idle = [run EXCEPT ![r].phase = IF job[r].step = "turn" /\ @ = "turn-starting"
                                          THEN "idle" ELSE @]
    BY <1>1
  <2> HIDE DEF phase
  <2>4. idle \in [Runs -> RunType]
    BY <1>1, <2>2, RunTypes
  <2>5. Forgotten(idle, r) \in [Runs -> RunType]
    BY <2>4, RunTypes, Numbers
  <2> HIDE DEF idle
  <2>6. \/ run' = idle /\ UNCHANGED <<bound, stop>>
        \/ run' = Forgotten(idle, r) /\ bound' = Unbound(r) /\ stop' = Told(stop, r, FALSE)
    BY <1>7, <2>3 DEF JobFails
  <2>7. /\ run' \in [Runs -> RunType] /\ bound' \in Runs \cup {0}
        /\ stop' = stop \/ stop' = Told(stop, r, FALSE)
    BY <1>1, <2>4, <2>5, <2>6 DEF Unbound
  <2>8. UNCHANGED <<loaded, turn, late, crossed>> /\ job' = [job EXCEPT ![r] = NoJob]
    BY <1>7 DEF JobFails
  <2> QED BY <1>1, <2>1, <2>7, <2>8, Values, ToldStops, TypeFrom
<1>8. ASSUME NEW r \in Runs, InterruptAnswered(r) PROVE TypeOK'
  <2>1. ConnectionTypes'
    BY <1>1, <1>8, DoneTypes DEF InterruptAnswered
  <2>2. /\ \A b \in BOOLEAN : Over(b) \in StopType /\ Over(b).step = "none"
        /\ [stop[r] EXCEPT !.step = "wait"] \in StopType
        /\ [stop[r] EXCEPT !.step = "wait"].step = "wait"
        /\ stop[r].stopped \in BOOLEAN
    BY <1>1, OverValues, StopValues
  <2>3. \E x \in StopType : stop' = [stop EXCEPT ![r] = x] /\ x.step \in {"none", "wait"}
    BY <1>1, <1>8, <2>2 DEF InterruptAnswered, AwaitEnd
  <2> QED BY <1>1, <1>8, <2>1, <2>3, TypeFrom DEF InterruptAnswered
<1>9. CASE Child
  <2>1. UNCHANGED <<provider, ended, history>>
    BY <1>9 DEF Child, ChildHandles, TurnEnds
  <2> QED BY <1>1, <1>9, <2>1, ChildTypes, TypeFrom
<1>10. ASSUME NEW i \in Requests, RequestTimesOut(i) PROVE TypeOK'
  <2>1. ConnectionTypes'
    <3>1. \A j \in Requests : [request[j] EXCEPT !.state = "rejected"] \in RequestType
      BY <1>1, RequestValues DEF RequestStates
    <3> QED BY <1>1, <1>10, <3>1 DEF RequestTimesOut, TimesOut, ConnectionTypes
  <2> QED BY <1>1, <1>10, <2>1, TypeFrom DEF RequestTimesOut
<1>11. ASSUME NEW r \in Runs, StopTimesOut(r) PROVE TypeOK'
  <2>1. ConnectionTypes'
    BY <1>1, <1>11 DEF StopTimesOut, connection, ConnectionTypes
  <2>2. Over(FALSE) \in StopType /\ Over(FALSE).step = "none"
    BY OverValues
  <2> QED BY <1>1, <1>11, <2>1, <2>2, TypeFrom DEF StopTimesOut
<1>12. ASSUME NEW ok \in BOOLEAN, HandshakeEnds(ok) PROVE TypeOK'
  <2>1. ConnectionTypes'
    BY <1>1, <1>12, HandshakeTypes DEF HandshakeEnds
  <2> QED BY <1>1, <1>12, <2>1, TypeFrom DEF HandshakeEnds
<1>13. ASSUME NEW i \in Requests, Start(i) PROVE TypeOK'
  <2>1. ConnectionTypes'
    BY <1>1, <1>13, AskTypes, Numbers DEF Start, Methods
  <2>2. /\ [NoRun EXCEPT !.tracked = TRUE, !.phase = "turn-starting"] \in RunType
        /\ [step |-> "thread", id |-> i, starts |-> TRUE] \in JobType
    BY Values DEF RunType, JobType
  <2> QED BY <1>1, <1>13, <2>1, <2>2, TypeFrom DEF Start
<1>14. ASSUME NEW r \in Runs, NEW i \in Requests, Stop(r, i) PROVE TypeOK'
  <2>1. StateOf(r) \in Runs
    BY <1>1, <1>14 DEF Stop, StateOf
  <2>2. run[StateOf(r)].turn \in Turns \cup {0}
    BY <1>1, <2>1 DEF RunType
  <2>3. ConnectionTypes'
    BY <1>1, <1>14, <2>2, AskTypes DEF Stop, Methods
  <2>4. [step |-> "interrupt", id |-> i, on |-> StateOf(r), turn |-> run[StateOf(r)].turn,
         stopped |-> FALSE] \in StopType
    BY <2>1, <2>2 DEF StopType
  <2> QED BY <1>1, <1>14, <2>3, <2>4, TypeFrom DEF Stop
<1>15. ASSUME NEW r \in Runs, NEW q \in Runs, NEW i \in Requests, Followup(r, q, i) PROVE TypeOK'
  <2>1. ConnectionTypes'
    <3>1. \E method \in Methods : Ask(i, 0, method, 0)
      BY <1>15 DEF Followup, Methods
    <3> QED BY <1>1, <3>1, AskTypes
  <2>2. \E x \in RunType : run' = [Bound(run, r) EXCEPT ![r] = x]
    <3> DEFINE b == IF bound = 0 THEN NoRun ELSE run[bound]
               row == run[IF run[r].row = 0 THEN q ELSE r].row
               fresh == [NoRun EXCEPT !.tracked = TRUE, !.child = b.child, !.turn = row,
                                      !.last = b.last, !.row = row]
               mine == IF run[r].tracked THEN run[r] ELSE fresh
    <3>0. run[r] \in RunType /\ run[q] \in RunType /\ b \in RunType
      BY <1>1, Values
    <3>1. b \in RunType /\ row \in Turns \cup {0} /\ b.child \in Children \cup {0}
          /\ b.last \in Turns \cup {0}
      BY <3>0, RunParts
    <3>2. fresh \in RunType
      BY <3>1, RunFresh
    <3>3. mine \in RunType /\ [mine EXCEPT !.phase = "turn-starting"] \in RunType
      BY <3>0, <3>2, RunPhased
    <3>4. \/ run' = [Bound(run, r) EXCEPT ![r] = mine]
          \/ run' = [Bound(run, r) EXCEPT ![r] = [mine EXCEPT !.phase = "turn-starting"]]
      BY <1>15 DEF Followup
    <3> QED BY <3>3, <3>4
  <2>3. Bound(run, r) \in [Runs -> RunType]
    <3>1. \A s \in Runs : [run[s] EXCEPT !.tracked = FALSE] \in RunType
      BY <1>1, RunParts
    <3> QED BY <1>1, <3>1 DEF Bound
  <2>4. run' \in [Runs -> RunType]
    BY <2>2, <2>3
  <2>5. stop' = stop \/ stop' = Told(stop, bound, TRUE)
    BY <1>15 DEF Followup, BoundStops
  <2>6. \E step \in {"turn", "resume"} :
          job' = [job EXCEPT ![r] = [step |-> step, id |-> i, starts |-> FALSE]]
    BY <1>15 DEF Followup
  <2>7. /\ job' \in [Runs -> JobType]
        /\ \A s \in Runs : job'[s] = job[s] \/ job'[s].id \in Requests
    BY <1>1, <2>6 DEF JobType
  <2>8. crossed' \in BOOLEAN /\ bound' = r /\ UNCHANGED <<loaded, turn, late>>
    BY <1>1, <1>15 DEF Followup, Ahead
  <2> QED BY <1>1, <2>1, <2>4, <2>5, <2>7, <2>8, ToldStops, TypeFrom
<1>16. ASSUME NEW r \in Runs, Close(r) PROVE TypeOK'
  <2>1. StateOf(r) \in Runs
    BY <1>1, <1>16 DEF Close, StateOf
  <2>2. ConnectionTypes'
    BY <1>1, <1>16 DEF Close, connection, ConnectionTypes
  <2>3. run' \in [Runs -> RunType] /\ bound' \in Runs \cup {0}
    BY <1>1, <1>16, <2>1, RunTypes, Numbers DEF Close, Unbound
  <2>4. stop' = Told(stop, StateOf(r), FALSE) /\ UNCHANGED <<loaded, job, turn, late, crossed>>
    BY <1>16 DEF Close
  <2> QED BY <1>1, <2>2, <2>3, <2>4, ToldStops, TypeFrom
<1>17. CASE ChildExits
  <2>1. ConnectionTypes'
    BY <1>1, <1>17, ExitTypes DEF ChildExits, ConnectionTypes
  <2>2. turn' \in [Turns -> {"none", "busy", "done"}] /\ loaded' = 0
    BY <1>1, <1>17 DEF ChildExits, Terminated
  <2>3. run' \in [Runs -> RunType]
    <3>1. ASSUME NEW s \in Runs
          PROVE  [run[s] EXCEPT !.phase = "idle", !.last = run[s].turn] \in RunType
      <4>1. run[s] \in RunType
        BY <1>1
      <4>2. run[s].turn \in Turns \cup {0}
        BY <4>1, RunParts
      <4> QED BY <4>1, <4>2, RunMarked
    <3> QED BY <1>1, <1>17, <3>1 DEF ChildExits, Terminated
  <2>4. /\ DOMAIN stop' = Runs /\ stop' = [s \in Runs |-> stop'[s]]
        /\ \A s \in Runs : stop'[s] = stop[s] \/ \E t : stop'[s] = Told(stop, t, TRUE)[s]
    BY <1>17 DEF ChildExits, Terminated
  <2>5. /\ stop' \in [Runs -> StopType]
        /\ \A s \in Runs : \/ stop'[s].step \notin {"interrupt", "told"}
                           \/ stop[s].step \in {"interrupt", "told"} /\ stop'[s].id = stop[s].id
    <3>1. ASSUME NEW s \in Runs
          PROVE  /\ stop'[s] \in StopType
                 /\ \/ stop'[s].step \notin {"interrupt", "told"}
                    \/ stop[s].step \in {"interrupt", "told"} /\ stop'[s].id = stop[s].id
      <4>1. CASE stop'[s] = stop[s]
        BY <1>1, <4>1
      <4>2. ASSUME NEW t, NEW stopped \in BOOLEAN, stop'[s] = Told(stop, t, stopped)[s]
            PROVE  /\ stop'[s] \in StopType
                   /\ \/ stop'[s].step \notin {"interrupt", "told"}
                      \/ stop[s].step \in {"interrupt", "told"} /\ stop'[s].id = stop[s].id
        <5>1. /\ Told(stop, t, stopped)[s] \in StopType
              /\ \/ Told(stop, t, stopped)[s] = stop[s]
                 \/ Told(stop, t, stopped)[s].step = "none"
                 \/ /\ stop[s].step = "interrupt"
                    /\ Told(stop, t, stopped)[s].step = "told"
                    /\ Told(stop, t, stopped)[s].id = stop[s].id
          BY <1>1, ToldTypes
        <5> QED BY <4>2, <5>1
      <4> QED BY <2>4, <4>1, <4>2
    <3> QED BY <2>4, <3>1
  <2>6. UNCHANGED <<bound, job, late, crossed>>
    BY <1>17 DEF ChildExits
  <2> QED BY <1>1, <2>1, <2>2, <2>3, <2>5, <2>6, TypeFrom
<1>18. CASE Dispose
  <2>1. ConnectionTypes'
    <3>1. CASE Exit /\ closing' = TRUE
      BY <1>1, <3>1, ExitTypes
    <3>2. CASE UNCHANGED <<child, starting, proc, request, inbox, out>> /\ closing' = TRUE
      BY <1>1, <3>2 DEF ConnectionTypes
    <3> QED BY <1>18, <3>1, <3>2 DEF Dispose, Closes
  <2>2. turn' \in [Turns -> {"none", "busy", "done"}] /\ loaded' = 0 /\ bound' = 0
    BY <1>1, <1>18 DEF Dispose
  <2>3. run' \in [Runs -> RunType]
    <3>1. \A s \in Runs : [run[s] EXCEPT !.tracked = FALSE] \in RunType
      BY <1>1, RunParts
    <3> QED BY <1>18, <3>1 DEF Dispose
  <2>4. /\ DOMAIN stop' = Runs /\ stop' = [s \in Runs |-> stop'[s]]
        /\ \A s \in Runs : stop'[s] = Told(stop, stop[s].on, FALSE)[s]
    BY <1>18 DEF Dispose
  <2>5. /\ stop' \in [Runs -> StopType]
        /\ \A s \in Runs : \/ stop'[s].step \notin {"interrupt", "told"}
                           \/ stop[s].step \in {"interrupt", "told"} /\ stop'[s].id = stop[s].id
    <3>1. ASSUME NEW s \in Runs
          PROVE  /\ stop'[s] \in StopType
                 /\ \/ stop'[s].step \notin {"interrupt", "told"}
                    \/ stop[s].step \in {"interrupt", "told"} /\ stop'[s].id = stop[s].id
      <4>1. CASE stop'[s] = stop[s]
        BY <1>1, <4>1
      <4>2. ASSUME NEW t, NEW stopped \in BOOLEAN, stop'[s] = Told(stop, t, stopped)[s]
            PROVE  /\ stop'[s] \in StopType
                   /\ \/ stop'[s].step \notin {"interrupt", "told"}
                      \/ stop[s].step \in {"interrupt", "told"} /\ stop'[s].id = stop[s].id
        <5>1. /\ Told(stop, t, stopped)[s] \in StopType
              /\ \/ Told(stop, t, stopped)[s] = stop[s]
                 \/ Told(stop, t, stopped)[s].step = "none"
                 \/ /\ stop[s].step = "interrupt"
                    /\ Told(stop, t, stopped)[s].step = "told"
                    /\ Told(stop, t, stopped)[s].id = stop[s].id
          BY <1>1, ToldTypes
        <5> QED BY <4>2, <5>1
      <4> QED BY <2>4, <4>1, <4>2
    <3> QED BY <2>4, <3>1
  <2>6. UNCHANGED <<job, late, crossed>>
    BY <1>18 DEF Dispose
  <2> QED BY <1>1, <2>1, <2>2, <2>3, <2>5, <2>6, TypeFrom
<1>19. CASE UNCHANGED vars
  <2>1. ConnectionTypes'
    BY <1>1, <1>19 DEF vars, ConnectionTypes
  <2> QED BY <1>1, <1>19, <2>1, TypeFrom DEF vars
<1>20. CASE Line
  BY <1>2, <1>3, <1>4, <1>20 DEF Line
<1>21. CASE Continuation
  BY <1>5, <1>6, <1>7, <1>8, <1>21 DEF Continuation
<1>22. CASE Event
  BY <1>10, <1>11, <1>12, <1>13, <1>14, <1>15, <1>16, <1>17, <1>18, <1>22 DEF Event, Timeout
<1> QED BY <1>9, <1>19, <1>20, <1>21, <1>22 DEF Next

-----------------------------------------------------------------------------
(* The connection *)

Answers == {"result", "error"}

\* Only the current child is up, and only it has lines and requests in its pipes.
OneChild ==
  /\ \A c \in Children : /\ proc[c] = "up" <=> c = child
                         /\ c # child => inbox[c] = {} /\ out[c] = <<>>
  /\ closing => child = 0
  /\ starting # 0 => starting = child /\ Inbox = {} /\ Lines = {}

\* A request waits for the handshake, or was sent to the current child, or is over.
Shaken == child # 0 /\ starting = 0
Asked ==
  /\ \A i \in Requests :
       /\ request[i].state = "queued" => starting # 0 /\ request[i].child = child
       /\ request[i].state = "sent" => Shaken /\ request[i].child = child
       /\ request[i].state = "resolved" => Shaken
       /\ request[i].state = "free" => \A j \in Requests : i < j => request[j].state = "free"
  /\ \A i \in Inbox : request[i].state \in {"sent", "rejected", "done"}

\* y may be written behind x.
Behind(x, y) ==
  /\ x # y
  /\ x.kind \in Answers /\ y.kind \in Answers => x.id # y.id
  /\ x.turn # 0 /\ y.turn # 0 => x.turn <= y.turn
  /\ x.turn = y.turn => ~(x.kind = "completed" /\ y.kind = "started")
InOrder == \A c \in Children : \A a, b \in DOMAIN out[c] : a < b => Behind(out[c][a], out[c][b])

\* An answer is about a request that the child has handled.
AnswersKnown ==
  \A x \in Lines : x.kind \in Answers =>
    /\ x.id \in Requests /\ request[x.id].state \in {"sent", "rejected", "done"}
    /\ x.id \notin Inbox
    /\ x.turn # 0 <=> x.kind = "result" /\ request[x.id].method = "turn/start"

Connected == OneChild /\ Asked /\ InOrder /\ AnswersKnown /\ InterruptsName

LEMMA Pipes ==
  ASSUME ConnectionTypes, OneChild
  PROVE  /\ Inbox \subseteq Requests /\ Lines \subseteq MessageType
         /\ child = 0 => Inbox = {} /\ Lines = {}
         /\ child # 0 => /\ child \in Children /\ Inbox = inbox[child]
                         /\ Lines = {out[child][n] : n \in DOMAIN out[child]}
<1>1. Inbox \subseteq Requests
  BY DEF Inbox, ConnectionTypes
<1>2. child # 0 => child \in Children
  BY DEF ConnectionTypes
<1>3. Lines \subseteq MessageType
  <2>1. child # 0 => out[child] \in Seq(MessageType)
    BY <1>2 DEF ConnectionTypes
  <2>2. \A s \in Seq(MessageType) : \A n \in DOMAIN s : s[n] \in MessageType
    OBVIOUS
  <2> QED BY <2>1, <2>2 DEF Lines
<1>4. child = 0 => Inbox = {} /\ Lines = {}
  BY Numbers DEF Inbox, Lines, OneChild
<1>5. child # 0 => Inbox = inbox[child] /\ Lines = {out[child][n] : n \in DOMAIN out[child]}
  <2>1. ASSUME child # 0 PROVE Inbox = inbox[child]
    <3>1. \A c \in Children : c # child => inbox[c] = {}
      BY DEF OneChild
    <3>2. \A x : x \in Inbox <=> \E c \in Children : x \in inbox[c]
      BY DEF Inbox
    <3> QED BY <1>2, <2>1, <3>1, <3>2
  <2> QED BY <2>1 DEF Lines
<1> QED BY <1>1, <1>2, <1>3, <1>4, <1>5

(* What the steps of the connection do *)

Same(k) == request'[k].method = request[k].method /\ request'[k].turn = request[k].turn

\* A request is made, by the code behind request j or by code behind none.
Asking(i, j, method, t) ==
  /\ i \in Requests /\ i # j
  /\ request[i].state = "free" /\ request'[i].state \in {"queued", "sent", "rejected"}
  /\ request'[i].method = method /\ request'[i].turn = t
  /\ \A k \in Requests \ {i} :
       Same(k) /\ request'[k].state = IF k = j THEN "done" ELSE request[k].state
  /\ Lines' = Lines /\ Inbox \subseteq Inbox' /\ Inbox' \subseteq Inbox \cup {i}
  /\ i \in Inbox' => request'[i].state = "sent"
  /\ Shaken => request'[i].state = "sent"
  /\ child # 0 => UNCHANGED <<child, starting>>
  /\ closing' = closing

\* A request is in its next state.
Settling(j, state) ==
  /\ \A k \in Requests : Same(k) /\ request'[k].state = IF k = j THEN state ELSE request[k].state
  /\ Lines' = Lines /\ Inbox' = Inbox /\ UNCHANGED <<child, starting, closing>>

Shaking ==
  /\ starting # 0 /\ starting' = 0 /\ UNCHANGED <<child, closing>>
  /\ Lines = {} /\ Lines' = {} /\ Inbox = {}
  /\ \A k \in Requests :
       /\ Same(k)
       /\ \/ request'[k].state = request[k].state
          \/ request[k].state = "queued" /\ request'[k].state \in {"sent", "rejected"}
  /\ \A k \in Inbox' : k \in Requests /\ request[k].state = "queued" /\ request'[k].state = "sent"

Ending ==
  /\ child' = 0 /\ starting' = 0 /\ Lines' = {} /\ Inbox' = {}
  /\ \A k \in Requests :
       Same(k) /\ request'[k].state = IF request[k].state \in {"queued", "sent"} THEN "rejected"
                                      ELSE request[k].state

Writing(i, S) ==
  /\ Lines' = Lines \cup S /\ Inbox' = Inbox \ {i} /\ child # 0
  /\ UNCHANGED <<request, child, starting, closing>>

\* The next line is taken from the pipe.
Reading(m) ==
  /\ m \in Lines /\ m \in MessageType /\ Lines' = Lines \ {m} /\ Inbox' = Inbox
  /\ \A x \in Lines' : Behind(m, x)
  /\ UNCHANGED <<child, starting, closing>>
Taking(m) ==
  /\ m.kind \in Answers /\ m.id \in Requests
  /\ \A k \in Requests : k # m.id => Same(k) /\ request'[k].state = request[k].state
  /\ request'[m.id].method = request[m.id].method
  /\ IF request[m.id].state = "sent"
       THEN /\ request'[m.id].state = IF m.kind = "result" THEN "resolved" ELSE "rejected"
            /\ request'[m.id].turn = m.turn
       ELSE Same(m.id) /\ request'[m.id].state = request[m.id].state

LEMMA RequestSet ==
  ASSUME NEW x \in RequestType, NEW state
  PROVE  /\ [x EXCEPT !.state = state].state = state
         /\ [x EXCEPT !.state = state].method = x.method
         /\ [x EXCEPT !.state = state].turn = x.turn
         /\ [x EXCEPT !.state = state].child = x.child
BY DEF RequestType

LEMMA AskEffect ==
  ASSUME ConnectionTypes, OneChild, Asked, NEW i \in Requests, NEW j \in Requests \cup {0},
         NEW method \in Methods, NEW t \in Turns \cup {0},
         j # 0 => request[j].state \in Settled, Ask(i, j, method, t)
  PROVE  Asking(i, j, method, t) /\ OneChild' /\ Asked' /\ out' = out
<1>1. /\ child \in Children \cup {0} /\ starting \in Children \cup {0}
      /\ proc \in [Children -> {"none", "up", "gone"}] /\ request \in [Requests -> RequestType]
      /\ inbox \in [Children -> SUBSET Requests]
  BY DEF ConnectionTypes
<1>2. i # j /\ request[i].state = "free" /\ \A k \in Requests : k < i => request[k].state # "free"
  BY Numbers DEF Ask, Unused, Settled, Requests
<1>3. ASSUME NEW state \in {"queued", "sent", "rejected"}, NEW c \in Children \cup {0},
             Request(i, j, [state |-> state, child |-> c, method |-> method, turn |-> t])
      PROVE  /\ request'[i].state = state /\ request'[i].method = method /\ request'[i].turn = t
             /\ request'[i].child = c
             /\ \A k \in Requests \ {i} :
                  /\ Same(k) /\ request'[k].state = IF k = j THEN "done" ELSE request[k].state
                  /\ request'[k].child = request[k].child
  <2>1. \A k \in Requests : request'[k] = IF k = i THEN [state |-> state, child |-> c, method |-> method, turn |-> t]
                               ELSE IF k = j THEN [request[k] EXCEPT !.state = "done"] ELSE request[k]
    BY <1>3 DEF Request
  <2>2. \A k \in Requests : /\ [request[k] EXCEPT !.state = "done"].state = "done"
                            /\ [request[k] EXCEPT !.state = "done"].method = request[k].method
                            /\ [request[k] EXCEPT !.state = "done"].turn = request[k].turn
                            /\ [request[k] EXCEPT !.state = "done"].child = request[k].child
    BY <1>1, RequestSet
  <2>3. \A k \in Requests \ {i} :
          /\ Same(k)
          /\ request'[k].state = (IF k = j THEN "done" ELSE request[k].state)
          /\ request'[k].child = request[k].child
    <3> SUFFICES ASSUME NEW k \in Requests, k # i
                 PROVE  /\ Same(k) /\ request'[k].state = IF k = j THEN "done" ELSE request[k].state
                        /\ request'[k].child = request[k].child
      OBVIOUS
    <3>1. CASE k = j
      <4>1. request'[k] = [request[k] EXCEPT !.state = "done"]
        BY <2>1, <3>1
      <4>2. request'[k].state = "done" /\ request'[k].child = request[k].child
            /\ request'[k].method = request[k].method /\ request'[k].turn = request[k].turn
        BY <2>2, <4>1
      <4> QED BY <3>1, <4>2 DEF Same
    <3>2. CASE k # j
      <4>1. request'[k] = request[k]
        BY <2>1, <3>2
      <4> QED BY <3>2, <4>1 DEF Same
    <3> QED BY <3>1, <3>2
  <2>4. request'[i] = [state |-> state, child |-> c, method |-> method, turn |-> t]
    BY <2>1
  <2>5. request'[i].state = state /\ request'[i].method = method /\ request'[i].turn = t /\ request'[i].child = c
    BY <2>4
  <2> QED BY <2>3, <2>5
<1>4. \A k \in Requests : k > i => request[k].state = "free"
  BY <1>2 DEF Asked, Requests
<1>5. out' = out /\ closing' = closing
  BY DEF Ask
<1>6. Lines' = Lines
  <2>1. child' = child \/ (child = 0 /\ child' \in Children)
    BY DEF Ask
  <2>2. CASE child' = child
    BY <1>5, <2>2 DEF Lines
  <2>3. CASE child = 0 /\ child' \in Children
    <3>1. out[child'] = <<>>
      BY <2>3, Numbers DEF OneChild
    <3> QED BY <1>5, <2>3, <3>1, Numbers DEF Lines
  <2> QED BY <2>1, <2>2, <2>3
<1>8. ASSUME NEW state \in {"queued", "sent", "rejected"}, NEW c \in Children \cup {0},
             Request(i, j, [state |-> state, child |-> c, method |-> method, turn |-> t])
      PROVE  \A k \in Requests : request'[k].state = "free" => \A l \in Requests : k < l => request'[l].state = "free"
  <2> SUFFICES ASSUME NEW k \in Requests, request'[k].state = "free", NEW l \in Requests, k < l
               PROVE request'[l].state = "free"
    OBVIOUS
  <2>1. request'[i].state = state /\ \A h \in Requests \ {i} : request'[h].state = IF h = j THEN "done" ELSE request[h].state
    BY <1>3, <1>8
  <2>2. k # i /\ k # j /\ request[k].state = "free"
    BY <2>1
  <2>3. k > i
    BY <1>2, <2>2 DEF Requests
  <2>4. l > i
    BY <2>3 DEF Requests
  <2>5. l # j
    <3>1. l # 0 /\ request[l].state = "free"
      BY <1>4, <2>4, Numbers
    <3> QED BY <3>1 DEF Settled
  <2>6. request[l].state = "free" /\ l # i
    BY <1>4, <2>4 DEF Requests
  <2> QED BY <2>1, <2>5, <2>6
<1>9. CASE closing /\ Request(i, j, [state |-> "rejected", child |-> 0, method |-> method, turn |-> t])
           /\ UNCHANGED <<child, starting, proc, inbox>>
  <2>1. Inbox' = Inbox
    BY <1>9 DEF Inbox
  <2>2. ~Shaken
    BY <1>9 DEF OneChild, Shaken
  <2>3. /\ request'[i].state = "rejected" /\ request'[i].method = method /\ request'[i].turn = t
        /\ \A k \in Requests \ {i} :
             /\ Same(k) /\ request'[k].state = IF k = j THEN "done" ELSE request[k].state
             /\ request'[k].child = request[k].child
    BY <1>3, <1>9
  <2>4. i \notin Inbox
    BY <1>2 DEF Asked
  <2>5. Asking(i, j, method, t)
    BY <1>2, <1>5, <1>6, <1>9, <2>1, <2>2, <2>3, <2>4 DEF Asking
  <2>6. OneChild'
    BY <1>5, <1>6, <1>9, <2>1 DEF OneChild
  <2>7. Asked'
    <3>1. \A k \in Requests : k # i => (request'[k].state = request[k].state \/ request'[k].state = "done")
                                       /\ request'[k].child = request[k].child
      BY <2>3
    <3>2. Inbox \subseteq Requests
      BY Pipes
    <3> QED BY <1>8, <1>9, <2>1, <2>2, <2>3, <2>4, <3>1, <3>2 DEF Asked, Shaken
  <2> QED BY <1>5, <2>5, <2>6, <2>7
<1>10. CASE /\ ~closing /\ Started /\ inbox' = [inbox EXCEPT ![child] = @ \cup {i}]
            /\ Request(i, j, [state |-> "sent", child |-> child, method |-> method, turn |-> t])
            /\ UNCHANGED <<child, starting, proc>>
  <2>1. child \in Children /\ Shaken
    BY <1>1, <1>10 DEF Started, Shaken
  <2>2. /\ \A c \in Children : inbox'[c] = IF c = child THEN inbox[c] \cup {i} ELSE inbox[c]
        /\ Inbox' = Inbox \cup {i}
    <3>1. \A c \in Children : inbox'[c] = IF c = child THEN inbox[c] \cup {i} ELSE inbox[c]
      BY <1>1, <1>10
    <3>2. \A x : x \in Inbox' <=> \E c \in Children : x \in inbox'[c]
      BY DEF Inbox
    <3>3. \A x : x \in Inbox <=> \E c \in Children : x \in inbox[c]
      BY DEF Inbox
    <3> QED BY <2>1, <3>1, <3>2, <3>3
  <2>3. /\ request'[i].state = "sent" /\ request'[i].method = method /\ request'[i].turn = t
        /\ request'[i].child = child
        /\ \A k \in Requests \ {i} :
             /\ Same(k) /\ request'[k].state = IF k = j THEN "done" ELSE request[k].state
             /\ request'[k].child = request[k].child
    BY <1>3, <1>10, <2>1
  <2>5. Asking(i, j, method, t)
    BY <1>2, <1>5, <1>6, <1>10, <2>2, <2>3 DEF Asking
  <2>6. OneChild'
    BY <1>5, <1>6, <1>10, <2>1, <2>2 DEF OneChild, Shaken
  <2>7. Asked'
    <3>1. Inbox \subseteq Requests
      BY Pipes
    <3> QED BY <1>8, <1>10, <2>1, <2>2, <2>3, <3>1 DEF Asked, Shaken
  <2> QED BY <1>5, <2>5, <2>6, <2>7
<1>11. CASE /\ ~closing /\ starting # 0 /\ UNCHANGED <<child, starting, proc, inbox>>
            /\ Request(i, j, [state |-> "queued", child |-> starting, method |-> method, turn |-> t])
  <2>1. Inbox' = Inbox
    BY <1>11 DEF Inbox
  <2>3. /\ request'[i].state = "queued" /\ request'[i].method = method /\ request'[i].turn = t
        /\ request'[i].child = starting
        /\ \A k \in Requests \ {i} :
             /\ Same(k) /\ request'[k].state = IF k = j THEN "done" ELSE request[k].state
             /\ request'[k].child = request[k].child
    BY <1>1, <1>3, <1>11
  <2>4. i \notin Inbox
    BY <1>2 DEF Asked
  <2>5. Asking(i, j, method, t)
    BY <1>2, <1>5, <1>6, <1>11, <2>1, <2>3, <2>4 DEF Asking, Shaken
  <2>6. OneChild'
    BY <1>5, <1>6, <1>11, <2>1 DEF OneChild
  <2>7. Asked'
    BY <1>8, <1>1, <1>11, <2>1, <2>3, <2>4 DEF Asked, Shaken, OneChild
  <2> QED BY <1>5, <2>5, <2>6, <2>7
<1>12. ASSUME NEW c \in Children, ~closing, child = 0, NextChild(c), child' = c, starting' = c,
              proc' = [proc EXCEPT ![c] = "up"], UNCHANGED inbox,
              Request(i, j, [state |-> "queued", child |-> c, method |-> method, turn |-> t])
       PROVE  Asking(i, j, method, t) /\ OneChild' /\ Asked' /\ out' = out
  <2>1. Inbox' = Inbox /\ Inbox = {} /\ Lines = {} /\ c # 0
    <3>1. Inbox' = Inbox
      BY <1>12 DEF Inbox
    <3> QED BY <1>12, <3>1, Pipes, Numbers
  <2>3. /\ request'[i].state = "queued" /\ request'[i].method = method /\ request'[i].turn = t
        /\ request'[i].child = c
        /\ \A k \in Requests \ {i} :
             /\ Same(k) /\ request'[k].state = IF k = j THEN "done" ELSE request[k].state
             /\ request'[k].child = request[k].child
    BY <1>3, <1>12
  <2>4. starting = 0
    BY <1>1, <1>12 DEF OneChild
  <2>5. Asking(i, j, method, t)
    BY <1>2, <1>5, <1>6, <1>12, <2>1, <2>3 DEF Asking, Shaken
  <2>6. OneChild'
    <3>1. \A d \in Children : proc[d] # "up"
      BY <1>12, Numbers DEF OneChild
    <3>2. \A d \in Children : proc'[d] = IF d = c THEN "up" ELSE proc[d]
      BY <1>1, <1>12
    <3>3. \A d \in Children : inbox[d] = {} /\ out[d] = <<>>
      BY <1>12, Numbers DEF OneChild
    <3> QED BY <1>5, <1>6, <1>12, <2>1, <3>1, <3>2, <3>3 DEF OneChild
  <2>7. Asked'
    <3>1. \A k \in Requests : request[k].state \notin {"queued", "sent", "resolved"}
      BY <1>12, <2>4 DEF Asked, Shaken
    <3> QED BY <1>8, <1>12, <2>1, <2>3, <3>1 DEF Asked
  <2> QED BY <1>5, <2>5, <2>6, <2>7
<1>13. CASE /\ ~closing /\ child = 0 /\ UNCHANGED <<child, starting, proc, inbox>>
            /\ Request(i, j, [state |-> "rejected", child |-> 0, method |-> method, turn |-> t])
  <2>1. Inbox' = Inbox
    BY <1>13 DEF Inbox
  <2>3. /\ request'[i].state = "rejected" /\ request'[i].method = method /\ request'[i].turn = t
        /\ \A k \in Requests \ {i} :
             /\ Same(k) /\ request'[k].state = IF k = j THEN "done" ELSE request[k].state
             /\ request'[k].child = request[k].child
    BY <1>3, <1>13
  <2>4. i \notin Inbox
    BY <1>2 DEF Asked
  <2>5. Asking(i, j, method, t)
    BY <1>2, <1>5, <1>6, <1>13, <2>1, <2>3, <2>4 DEF Asking, Shaken
  <2>6. OneChild'
    BY <1>5, <1>6, <1>13, <2>1 DEF OneChild
  <2>7. Asked'
    <3>1. \A k \in Requests : k # i => (request'[k].state = request[k].state \/ request'[k].state = "done")
                                       /\ request'[k].child = request[k].child
      BY <2>3
    <3>2. Inbox \subseteq Requests
      BY Pipes
    <3> QED BY <1>8, <1>13, <2>1, <2>3, <2>4, <3>1, <3>2 DEF Asked, Shaken
  <2> QED BY <1>5, <2>5, <2>6, <2>7
<1> QED BY <1>9, <1>10, <1>11, <1>12, <1>13 DEF Ask

LEMMA DoneEffect ==
  ASSUME ConnectionTypes, OneChild, Asked, NEW j \in Requests, request[j].state \in Settled, Done(j)
  PROVE  Settling(j, "done") /\ OneChild' /\ Asked' /\ out' = out
<1>1. request \in [Requests -> RequestType]
  BY DEF ConnectionTypes
<1>2. \A k \in Requests : request'[k] = IF k = j THEN [request[k] EXCEPT !.state = "done"] ELSE request[k]
  BY <1>1 DEF Done
<1>3. \A k \in Requests : /\ Same(k) /\ request'[k].state = IF k = j THEN "done" ELSE request[k].state
                          /\ request'[k].child = request[k].child
  <2>1. \A k \in Requests : /\ [request[k] EXCEPT !.state = "done"].state = "done"
                            /\ [request[k] EXCEPT !.state = "done"].method = request[k].method
                            /\ [request[k] EXCEPT !.state = "done"].turn = request[k].turn
                            /\ [request[k] EXCEPT !.state = "done"].child = request[k].child
    BY <1>1, RequestSet
  <2> QED BY <1>2, <2>1 DEF Same
<1>4. /\ UNCHANGED <<child, starting, closing, proc, inbox, out>>
      /\ Lines' = Lines /\ Inbox' = Inbox
  BY DEF Done, Lines, Inbox
<1>5. OneChild'
  BY <1>4 DEF OneChild
<1>6. Asked'
  <2>1. ASSUME NEW k \in Requests, NEW l \in Requests, request'[k].state = "free", k < l
        PROVE  request'[l].state = "free"
    <3>1. request[k].state = "free"
      BY <1>3, <2>1
    <3>2. request[l].state = "free"
      BY <2>1, <3>1 DEF Asked
    <3>3. l # j
      BY <3>2 DEF Settled
    <3> QED BY <1>3, <3>2, <3>3
  <2>2. \A k \in Requests : /\ request'[k].state = "queued" => starting # 0 /\ request'[k].child = child
                            /\ request'[k].state = "sent" => Shaken /\ request'[k].child = child
                            /\ request'[k].state = "resolved" => Shaken
    BY <1>3 DEF Asked
  <2>3. \A k \in Inbox : request'[k].state \in {"sent", "rejected", "done"}
    BY <1>3, Pipes DEF Asked
  <2> QED BY <1>4, <2>1, <2>2, <2>3 DEF Asked, Shaken
<1> QED BY <1>3, <1>4, <1>5, <1>6 DEF Settling

LEMMA TimeoutEffect ==
  ASSUME ConnectionTypes, OneChild, Asked, NEW j \in Requests, TimesOut(j)
  PROVE  Settling(j, "rejected") /\ request[j].state = "sent" /\ OneChild' /\ Asked' /\ out' = out
<1>1. request \in [Requests -> RequestType]
  BY DEF ConnectionTypes
<1>2. \A k \in Requests : request'[k] = IF k = j THEN [request[k] EXCEPT !.state = "rejected"] ELSE request[k]
  BY <1>1 DEF TimesOut
<1>3. \A k \in Requests : /\ Same(k) /\ request'[k].state = IF k = j THEN "rejected" ELSE request[k].state
                          /\ request'[k].child = request[k].child
  <2>1. \A k \in Requests : /\ [request[k] EXCEPT !.state = "rejected"].state = "rejected"
                            /\ [request[k] EXCEPT !.state = "rejected"].method = request[k].method
                            /\ [request[k] EXCEPT !.state = "rejected"].turn = request[k].turn
                            /\ [request[k] EXCEPT !.state = "rejected"].child = request[k].child
    BY <1>1, RequestSet
  <2> QED BY <1>2, <2>1 DEF Same
<1>4. /\ UNCHANGED <<child, starting, closing, proc, inbox, out>> /\ request[j].state = "sent"
      /\ Lines' = Lines /\ Inbox' = Inbox
  BY DEF TimesOut, Lines, Inbox
<1>5. OneChild'
  BY <1>4 DEF OneChild
<1>6. Asked'
  <2>1. ASSUME NEW k \in Requests, NEW l \in Requests, request'[k].state = "free", k < l
        PROVE  request'[l].state = "free"
    <3>1. request[k].state = "free"
      BY <1>3, <2>1
    <3>2. request[l].state = "free"
      BY <2>1, <3>1 DEF Asked
    <3>3. l # j
      BY <1>4, <3>2
    <3> QED BY <1>3, <3>2, <3>3
  <2>2. \A k \in Requests : /\ request'[k].state = "queued" => starting # 0 /\ request'[k].child = child
                            /\ request'[k].state = "sent" => Shaken /\ request'[k].child = child
                            /\ request'[k].state = "resolved" => Shaken
    BY <1>3 DEF Asked
  <2>3. \A k \in Inbox : request'[k].state \in {"sent", "rejected", "done"}
    BY <1>3, Pipes DEF Asked
  <2> QED BY <1>4, <2>1, <2>2, <2>3 DEF Asked, Shaken
<1> QED BY <1>3, <1>4, <1>5, <1>6 DEF Settling

(* Order of what is written *)

Ordered(s) == \A a, b \in DOMAIN s : a < b => Behind(s[a], s[b])
LineSet(s) == {s[n] : n \in DOMAIN s}

LEMMA OrderedJoin ==
  ASSUME NEW s \in Seq(MessageType), NEW m \in Seq(MessageType), Ordered(s), Ordered(m),
         \A x \in LineSet(s), y \in LineSet(m) : Behind(x, y)
  PROVE  Ordered(s \o m) /\ LineSet(s \o m) = LineSet(s) \cup LineSet(m)
<1>1. /\ Len(s \o m) = Len(s) + Len(m) /\ DOMAIN s = 1 .. Len(s) /\ DOMAIN m = 1 .. Len(m)
      /\ DOMAIN (s \o m) = 1 .. Len(s) + Len(m) /\ Len(s) \in Nat /\ Len(m) \in Nat
      /\ \A n \in 1 .. Len(s) + Len(m) : (s \o m)[n] = IF n <= Len(s) THEN s[n] ELSE m[n - Len(s)]
  BY ConcatProperties, LenProperties
<1>2. Ordered(s \o m)
  <2> SUFFICES ASSUME NEW a \in DOMAIN (s \o m), NEW b \in DOMAIN (s \o m), a < b
               PROVE  Behind((s \o m)[a], (s \o m)[b])
    BY DEF Ordered
  <2>1. CASE b <= Len(s)
    <3>1. a \in DOMAIN s /\ b \in DOMAIN s /\ (s \o m)[a] = s[a] /\ (s \o m)[b] = s[b]
      BY <1>1, <2>1
    <3> QED BY <3>1 DEF Ordered
  <2>2. CASE a > Len(s)
    <3>1. /\ a - Len(s) \in DOMAIN m /\ b - Len(s) \in DOMAIN m /\ a - Len(s) < b - Len(s)
          /\ (s \o m)[a] = m[a - Len(s)] /\ (s \o m)[b] = m[b - Len(s)]
      BY <1>1, <2>2
    <3> QED BY <3>1 DEF Ordered
  <2>3. CASE a <= Len(s) /\ b > Len(s)
    <3>1. /\ a \in DOMAIN s /\ b - Len(s) \in DOMAIN m
          /\ (s \o m)[a] = s[a] /\ (s \o m)[b] = m[b - Len(s)]
      BY <1>1, <2>3
    <3> QED BY <3>1 DEF LineSet
  <2> QED BY <1>1, <2>1, <2>2, <2>3
<1>3. ASSUME NEW x \in LineSet(s \o m) PROVE x \in LineSet(s) \cup LineSet(m)
  <2>1. PICK n \in DOMAIN (s \o m) : x = (s \o m)[n]
    BY DEF LineSet
  <2>2. n <= Len(s) => n \in DOMAIN s /\ x = s[n]
    BY <1>1, <2>1
  <2>3. n > Len(s) => n - Len(s) \in DOMAIN m /\ x = m[n - Len(s)]
    BY <1>1, <2>1
  <2> QED BY <1>1, <2>2, <2>3 DEF LineSet
<1>4. ASSUME NEW x \in LineSet(s) PROVE x \in LineSet(s \o m)
  <2>1. PICK n \in DOMAIN s : x = s[n]
    BY DEF LineSet
  <2>2. n \in DOMAIN (s \o m) /\ x = (s \o m)[n]
    BY <1>1, <2>1
  <2> QED BY <2>2 DEF LineSet
<1>5. ASSUME NEW x \in LineSet(m) PROVE x \in LineSet(s \o m)
  <2>1. PICK n \in DOMAIN m : x = m[n]
    BY DEF LineSet
  <2>2. n + Len(s) \in DOMAIN (s \o m) /\ x = (s \o m)[n + Len(s)]
    BY <1>1, <2>1
  <2> QED BY <2>2 DEF LineSet
<1> QED BY <1>2, <1>3, <1>4, <1>5

LEMMA OrderedTail ==
  ASSUME NEW s \in Seq(MessageType), s # <<>>, Ordered(s)
  PROVE  /\ Ordered(Tail(s)) /\ LineSet(Tail(s)) = LineSet(s) \ {Head(s)} /\ Head(s) \in LineSet(s)
         /\ \A x \in LineSet(Tail(s)) : Behind(Head(s), x)
<1>1. /\ Len(s) \in Nat /\ Len(s) # 0 /\ DOMAIN s = 1 .. Len(s) /\ Head(s) = s[1]
      /\ DOMAIN Tail(s) = 1 .. Len(s) - 1
      /\ \A n \in 1 .. Len(s) - 1 : Tail(s)[n] = s[n + 1]
  BY HeadTailProperties, LenProperties, EmptySeq
<1>2. Ordered(Tail(s))
  <2> SUFFICES ASSUME NEW a \in DOMAIN Tail(s), NEW b \in DOMAIN Tail(s), a < b
               PROVE  Behind(Tail(s)[a], Tail(s)[b])
    BY DEF Ordered
  <2>1. /\ a + 1 \in DOMAIN s /\ b + 1 \in DOMAIN s /\ a + 1 < b + 1
        /\ Tail(s)[a] = s[a + 1] /\ Tail(s)[b] = s[b + 1]
    BY <1>1
  <2> QED BY <2>1 DEF Ordered
<1>3. ASSUME NEW x \in LineSet(Tail(s)) PROVE Behind(Head(s), x) /\ x \in LineSet(s) \ {Head(s)}
  <2>1. PICK n \in DOMAIN Tail(s) : x = Tail(s)[n]
    BY DEF LineSet
  <2>2. 1 \in DOMAIN s /\ n + 1 \in DOMAIN s /\ 1 < n + 1 /\ x = s[n + 1]
    BY <1>1, <2>1
  <2>3. Behind(Head(s), x)
    BY <1>1, <2>2 DEF Ordered
  <2> QED BY <2>2, <2>3 DEF LineSet, Behind
<1>4. ASSUME NEW x \in LineSet(s), x # Head(s) PROVE x \in LineSet(Tail(s))
  <2>1. PICK n \in DOMAIN s : x = s[n]
    BY DEF LineSet
  <2>2. n # 1 /\ n - 1 \in DOMAIN Tail(s) /\ x = Tail(s)[n - 1]
    BY <1>1, <1>4, <2>1
  <2> QED BY <2>2 DEF LineSet
<1>5. Head(s) \in LineSet(s)
  BY <1>1 DEF LineSet
<1> QED BY <1>2, <1>3, <1>4, <1>5

LEMMA OrderedOne ==
  ASSUME NEW x \in MessageType
  PROVE  <<x>> \in Seq(MessageType) /\ Ordered(<<x>>) /\ LineSet(<<x>>) = {x}
<1>1. DOMAIN <<x>> = {1}
  OBVIOUS
<1> QED BY <1>1 DEF Ordered, LineSet

LEMMA OrderedTwo ==
  ASSUME NEW x \in MessageType, NEW y \in MessageType, Behind(x, y)
  PROVE  <<x, y>> \in Seq(MessageType) /\ Ordered(<<x, y>>) /\ LineSet(<<x, y>>) = {x, y}
<1>1. DOMAIN <<x, y>> = {1, 2}
  OBVIOUS
<1>2. Ordered(<<x, y>>)
  BY <1>1 DEF Ordered
<1>3. LineSet(<<x, y>>) = {x, y}
  BY <1>1 DEF LineSet
<1> QED BY <1>2, <1>3

LEMMA OrderedThree ==
  ASSUME NEW x \in MessageType, NEW y \in MessageType, NEW z \in MessageType,
         Behind(x, y), Behind(x, z), Behind(y, z)
  PROVE  <<x, y, z>> \in Seq(MessageType) /\ Ordered(<<x, y, z>>) /\ LineSet(<<x, y, z>>) = {x, y, z}
<1>1. DOMAIN <<x, y, z>> = {1, 2, 3}
  OBVIOUS
<1>2. Ordered(<<x, y, z>>)
  BY <1>1 DEF Ordered
<1>3. LineSet(<<x, y, z>>) = {x, y, z}
  BY <1>1 DEF LineSet
<1> QED BY <1>2, <1>3

LEMMA OrderIs ==
  ASSUME ConnectionTypes, OneChild
  PROVE  /\ InOrder <=> (child # 0 => Ordered(out[child]))
         /\ child # 0 => Lines = LineSet(out[child]) /\ child \in Children /\ out[child] \in Seq(MessageType)
<1>1. child # 0 => child \in Children /\ out[child] \in Seq(MessageType)
  BY DEF ConnectionTypes
<1>2. Ordered(<<>>)
  BY DEF Ordered
<1>3. InOrder <=> \A c \in Children : Ordered(out[c])
  BY DEF InOrder, Ordered
<1>4. \A c \in Children : c # child => out[c] = <<>>
  BY DEF OneChild
<1>5. child # 0 => Lines = LineSet(out[child])
  BY DEF Lines, LineSet
<1> QED BY <1>1, <1>2, <1>3, <1>4, <1>5, Numbers

LEMMA WriteEffect ==
  ASSUME ConnectionTypes, OneChild, Asked, InOrder, starting = 0, NEW c \in Children, NEW i \in Requests \cup {0},
         NEW m \in Seq(MessageType), Ordered(m), Writes(c, i, m),
         \A x \in Lines, y \in LineSet(m) : Behind(x, y)
  PROVE  Writing(i, LineSet(m)) /\ OneChild' /\ Asked' /\ InOrder'
<1>2. c = child /\ child # 0 /\ Inbox = inbox[child]
      /\ Lines = LineSet(out[child]) /\ out[child] \in Seq(MessageType)
  BY Pipes, OrderIs, Numbers DEF Writes, OneChild
<1>3. /\ \A d \in Children : /\ inbox'[d] = IF d = child THEN inbox[d] \ {i} ELSE inbox[d]
                             /\ out'[d] = IF d = child THEN out[d] \o m ELSE out[d]
      /\ UNCHANGED <<child, starting, closing, proc, request>>
  BY <1>2 DEF Writes, ConnectionTypes
<1>4. ConnectionTypes'
  BY WritesTypes
<1>5. out'[child] = out[child] \o m /\ Ordered(out[child])
  BY <1>2, <1>3, OrderIs
<1>6. Ordered(out'[child]) /\ LineSet(out'[child]) = Lines \cup LineSet(m)
  BY <1>2, <1>5, OrderedJoin
<1>7. Lines' = Lines \cup LineSet(m)
  BY <1>2, <1>3, <1>6 DEF Lines, LineSet
<1>8. Inbox' = Inbox \ {i}
  <2>1. \A x : x \in Inbox' <=> \E d \in Children : x \in inbox'[d]
    BY DEF Inbox
  <2>2. \A d \in Children : d # child => inbox[d] = {}
    BY DEF OneChild
  <2> QED BY <1>2, <1>3, <2>1, <2>2
<1>9. Writing(i, LineSet(m))
  BY <1>2, <1>3, <1>7, <1>8 DEF Writing
<1>10. OneChild'
  BY <1>2, <1>3 DEF OneChild
<1>11. Asked'
  BY <1>3, <1>8 DEF Asked, Shaken
<1>12. InOrder'
  <2>1. Ordered(<<>>)
    BY DEF Ordered
  <2>2. \A d \in Children : Ordered(out'[d])
    BY <1>3, <1>6, <2>1 DEF OneChild
  <2> QED BY <2>2 DEF InOrder, Ordered
<1> QED BY <1>9, <1>10, <1>11, <1>12

LEMMA ReadEffect ==
  ASSUME ConnectionTypes, OneChild, Asked, InOrder, NEW m, ReadAnswer(m) \/ ReadNews(m)
  PROVE  Reading(m) /\ OneChild' /\ InOrder' /\ (request' = request => Asked')
<1>1. Reads(m) /\ Read /\ UNCHANGED <<child, starting, closing, proc, inbox>>
  BY DEF ReadAnswer, ReadNews
<1>2. /\ child # 0 /\ child \in Children /\ m \in MessageType /\ out[child] # <<>> /\ m = Head(out[child])
      /\ Lines = LineSet(out[child]) /\ out[child] \in Seq(MessageType)
  BY <1>1, LineRead, OrderIs DEF Reads
<1>3. \A d \in Children : out'[d] = IF d = child THEN Tail(out[d]) ELSE out[d]
  BY <1>1 DEF Read, ConnectionTypes
<1>4. Ordered(out[child])
  BY <1>2, OrderIs
<1>5. /\ Ordered(Tail(out[child])) /\ LineSet(Tail(out[child])) = Lines \ {m} /\ m \in Lines
      /\ \A x \in LineSet(Tail(out[child])) : Behind(m, x)
  BY <1>2, <1>4, OrderedTail
<1>6. Lines' = Lines \ {m} /\ Inbox' = Inbox
  <2>1. child' = child /\ inbox' = inbox
    BY <1>1
  <2>2. Inbox' = Inbox
    BY <2>1 DEF Inbox
  <2>3. Lines' = LineSet(Tail(out[child]))
    BY <1>2, <1>3, <2>1 DEF Lines, LineSet
  <2> QED BY <1>5, <2>2, <2>3
<1>7. Reading(m)
  BY <1>1, <1>2, <1>5, <1>6 DEF Reading
<1>8. OneChild'
  <2>1. starting = 0
    BY <1>5 DEF OneChild
  <2> QED BY <1>1, <1>3, <2>1 DEF OneChild
<1>9. ConnectionTypes'
  BY ReadTypes
<1>10. InOrder'
  <2>1. out'[child'] = Tail(out[child])
    BY <1>1, <1>2, <1>3
  <2>2. \A d \in Children : Ordered(out'[d])
    <3>1. Ordered(<<>>)
      BY DEF Ordered
    <3> QED BY <1>3, <1>5, <3>1 DEF OneChild
  <2> QED BY <2>2 DEF InOrder, Ordered
<1>11. request' = request => Asked'
  BY <1>1, <1>6 DEF Asked, Shaken
<1> QED BY <1>7, <1>8, <1>10, <1>11

LEMMA TakeEffect ==
  ASSUME ConnectionTypes, OneChild, Asked, InOrder, AnswersKnown, NEW m, ReadAnswer(m)
  PROVE  Taking(m) /\ Asked'
<1>1. Reading(m) /\ m.kind \in Answers /\ UNCHANGED <<child, starting>>
  BY ReadEffect DEF ReadAnswer, Answers
<1>2. m.id \in Requests /\ request[m.id].state \in {"sent", "rejected", "done"}
  BY <1>1 DEF AnswersKnown, Reading
<1>3. request \in [Requests -> RequestType] /\ m.id \notin Inbox
  BY <1>1 DEF ConnectionTypes, AnswersKnown, Reading
<1>4. Takes(m) <=> request[m.id].state = "sent"
  BY <1>2 DEF Takes, Asked
<1>5. \A k \in Requests : k # m.id => request'[k] = request[k]
  <2>1. \A state : [request EXCEPT ![m.id].state = state, ![m.id].turn = m.turn]
                     = [request EXCEPT ![m.id] = [request[m.id] EXCEPT !.state = state, !.turn = m.turn]]
    BY <1>2, <1>3
  <2> QED BY <1>2, <1>3, <2>1 DEF ReadAnswer
<1>6. CASE request[m.id].state = "sent"
  <2> DEFINE state == IF m.kind = "result" THEN "resolved" ELSE "rejected"
  <2>1. request' = [request EXCEPT ![m.id].state = state, ![m.id].turn = m.turn]
    BY <1>4, <1>6 DEF ReadAnswer
  <2>2. request'[m.id] = [request[m.id] EXCEPT !.state = state, !.turn = m.turn]
    BY <1>2, <1>3, <2>1
  <2>3. request[m.id] \in RequestType
    BY <1>2, <1>3
  <2> HIDE DEF state
  <2>4. /\ request'[m.id].state = state /\ request'[m.id].turn = m.turn
        /\ request'[m.id].method = request[m.id].method /\ request'[m.id].child = request[m.id].child
    BY <2>2, <2>3 DEF RequestType
  <2>5. Shaken
    BY <1>2, <1>6 DEF Asked
  <2>6. Taking(m)
    BY <1>1, <1>2, <1>5, <1>6, <2>4 DEF Taking, Same, state
  <2>7. Asked'
    <3>1. state # "free" /\ state \in {"resolved", "rejected"}
      BY DEF state
    <3>2. Inbox' = Inbox /\ Inbox \subseteq Requests
      BY <1>1, Pipes DEF Reading
    <3>3. \A k \in Requests : /\ request'[k].state = "queued" => starting # 0 /\ request'[k].child = child
                              /\ request'[k].state = "sent" => Shaken /\ request'[k].child = child
                              /\ request'[k].state = "resolved" => Shaken
      BY <1>5, <2>4, <2>5, <3>1 DEF Asked
    <3>4. \A k \in Inbox : request'[k].state \in {"sent", "rejected", "done"}
      BY <1>3, <1>5, <3>2 DEF Asked
    <3>5. ASSUME NEW k \in Requests, NEW l \in Requests, request'[k].state = "free", k < l
          PROVE  request'[l].state = "free"
      <4>1. k # m.id /\ request[k].state = "free"
        BY <1>5, <2>4, <3>1, <3>5
      <4>2. request[l].state = "free"
        BY <3>5, <4>1 DEF Asked
      <4> QED BY <1>5, <1>6, <4>2
    <3> QED BY <1>1, <3>2, <3>3, <3>4, <3>5 DEF Asked, Shaken
  <2> QED BY <2>6, <2>7
<1>7. CASE request[m.id].state # "sent"
  <2>1. request' = request
    BY <1>4, <1>7 DEF ReadAnswer
  <2>2. Asked'
    BY <2>1, ReadEffect
  <2> QED BY <1>1, <1>2, <1>7, <2>1, <2>2 DEF Taking, Same
<1> QED BY <1>6, <1>7

LEMMA HandshakeEffect ==
  ASSUME ConnectionTypes, OneChild, Asked, NEW ok \in BOOLEAN, Handshake(ok)
  PROVE  Shaking /\ OneChild' /\ Asked' /\ out' = out
<1>1. /\ starting # 0 /\ starting' = 0 /\ UNCHANGED <<child, closing, proc, out>>
      /\ starting = child /\ child \in Children /\ Lines = {} /\ Inbox = {}
  BY DEF Handshake, OneChild, ConnectionTypes
<1>2. Lines' = {}
  BY <1>1 DEF Lines
<1>3. request \in [Requests -> RequestType]
  BY DEF ConnectionTypes
<1>4. \A k \in Requests :
        request'[k] = IF request[k].state = "queued" /\ request[k].child = starting
                        THEN [request[k] EXCEPT !.state = IF ok THEN "sent" ELSE "rejected"]
                        ELSE request[k]
  BY DEF Handshake
<1>5. \A k \in Requests : request[k].state = "queued" => request[k].child = starting
  BY <1>1 DEF Asked
<1>6. \A k \in Requests :
        /\ Same(k) /\ request'[k].child = request[k].child
        /\ request'[k].state = (IF request[k].state = "queued" THEN (IF ok THEN "sent" ELSE "rejected")
                                ELSE request[k].state)
  <2> SUFFICES ASSUME NEW k \in Requests
               PROVE  /\ Same(k) /\ request'[k].child = request[k].child
                      /\ request'[k].state = (IF request[k].state = "queued" THEN (IF ok THEN "sent" ELSE "rejected")
                                              ELSE request[k].state)
    OBVIOUS
  <2>1. CASE request[k].state = "queued"
    <3>1. request'[k] = [request[k] EXCEPT !.state = IF ok THEN "sent" ELSE "rejected"]
      BY <1>4, <1>5, <2>1
    <3>2. request[k] \in RequestType
      BY <1>3
    <3>3. \A state : /\ [request[k] EXCEPT !.state = state].state = state
                     /\ [request[k] EXCEPT !.state = state].method = request[k].method
                     /\ [request[k] EXCEPT !.state = state].turn = request[k].turn
                     /\ [request[k] EXCEPT !.state = state].child = request[k].child
      BY <3>2, RequestSet
    <3>4. /\ request'[k].state = (IF ok THEN "sent" ELSE "rejected")
          /\ request'[k].method = request[k].method
          /\ request'[k].turn = request[k].turn
          /\ request'[k].child = request[k].child
      BY <3>1, <3>3
    <3> QED BY <2>1, <3>4 DEF Same
  <2>2. CASE request[k].state # "queued"
    BY <1>4, <2>2 DEF Same
  <2> QED BY <2>1, <2>2
<1>7. \A k \in Inbox' : ok /\ k \in Requests /\ request[k].state = "queued"
  <2>1. \A d \in Children : inbox[d] = {}
    BY <1>1 DEF Inbox
  <2>2. \A d \in Children : \A x : x \in inbox'[d] => ok /\ x \in Requests /\ request[x].state = "queued"
    BY <2>1 DEF Handshake, ConnectionTypes
  <2> QED BY <2>2 DEF Inbox
<1>8. Shaking
  BY <1>1, <1>2, <1>6, <1>7 DEF Shaking
<1>9. OneChild'
  <2>1. \A d \in Children : d # child => inbox'[d] = inbox[d]
    BY <1>1 DEF Handshake, ConnectionTypes
  <2> QED BY <1>1, <2>1 DEF OneChild
<1>10. Asked'
  <2>1. \A k \in Requests : request'[k].state # "queued"
    BY <1>6
  <2>2. \A k \in Requests : request[k].state # "resolved" /\ request[k].state # "sent"
    BY <1>1 DEF Asked, Shaken
  <2>3. \A k \in Requests : request'[k].state = "sent" => request[k].state = "queued"
    BY <1>6, <2>2
  <2>4. \A k \in Requests : request'[k].state = "free" <=> request[k].state = "free"
    BY <1>6
  <2>5. \A k \in Requests : request'[k].state # "resolved"
    BY <1>6, <2>2
  <2>6. \A k \in Inbox' : request'[k].state = "sent"
    BY <1>6, <1>7
  <2> QED BY <1>1, <1>6, <2>1, <2>3, <2>4, <2>5, <2>6, Numbers DEF Asked, Shaken
<1> QED BY <1>1, <1>8, <1>9, <1>10

LEMMA ExitEffect ==
  ASSUME ConnectionTypes, OneChild, Asked, \A k \in Requests : request[k].state # "resolved",
         Exit, closing' \in {closing, TRUE}
  PROVE  Ending /\ OneChild' /\ Asked' /\ InOrder'
<1>1. /\ child # 0 /\ child \in Children /\ child' = 0 /\ starting' = 0
      /\ proc' = [proc EXCEPT ![child] = "gone"] /\ proc \in [Children -> {"none", "up", "gone"}]
  BY DEF Exit, NoStart, ConnectionTypes
<1>2. \A d \in Children : inbox'[d] = {} /\ out'[d] = <<>>
  BY <1>1 DEF Exit, OneChild, ConnectionTypes
<1>3. Lines' = {} /\ Inbox' = {}
  BY <1>1, <1>2 DEF Lines, Inbox
<1>4. request \in [Requests -> RequestType]
  BY DEF ConnectionTypes
<1>5. \A k \in Requests : request[k].state \in {"queued", "sent"} => request[k].child = child
  BY DEF Asked
<1>6. \A k \in Requests :
        /\ Same(k)
        /\ request'[k].state = (IF request[k].state \in {"queued", "sent"} THEN "rejected" ELSE request[k].state)
  <2> SUFFICES ASSUME NEW k \in Requests
               PROVE  /\ Same(k)
                      /\ request'[k].state = (IF request[k].state \in {"queued", "sent"} THEN "rejected"
                                              ELSE request[k].state)
    OBVIOUS
  <2>1. CASE request[k].state \in {"queued", "sent"}
    <3>1. request'[k] = [request[k] EXCEPT !.state = "rejected"]
      BY <1>5, <2>1 DEF Exit, RejectPending
    <3>2. request[k] \in RequestType
      BY <1>4
    <3>3. /\ [request[k] EXCEPT !.state = "rejected"].state = "rejected"
          /\ [request[k] EXCEPT !.state = "rejected"].method = request[k].method
          /\ [request[k] EXCEPT !.state = "rejected"].turn = request[k].turn
      BY <3>2, RequestSet
    <3> QED BY <2>1, <3>1, <3>3 DEF Same
  <2>2. CASE request[k].state \notin {"queued", "sent"}
    BY <2>2 DEF Exit, RejectPending, Same
  <2> QED BY <2>1, <2>2
<1>7. Ending
  BY <1>1, <1>3, <1>6 DEF Ending
<1>8. OneChild'
  <2>1. \A d \in Children : proc'[d] # "up"
    BY <1>1 DEF OneChild
  <2> QED BY <1>1, <1>2, <1>3, <2>1, Numbers DEF OneChild
<1>9. Asked'
  <2>1. \A k \in Requests : request'[k].state \notin {"queued", "sent", "resolved"}
    BY <1>6
  <2>2. \A k \in Requests : request'[k].state = "free" <=> request[k].state = "free"
    BY <1>6
  <2> QED BY <1>3, <2>1, <2>2 DEF Asked
<1>10. InOrder'
  BY <1>2 DEF InOrder
<1> QED BY <1>7, <1>8, <1>9, <1>10

-----------------------------------------------------------------------------
(* The invariant, as long as no message was accepted before the turn of an     *)
(* earlier one was begun                                                       *)

\* The lines are about turns that there were.
NewsKnown ==
  \A x \in Lines :
    /\ x.kind \notin Answers => x.id = 0 /\ x.turn # 0
    /\ x.turn # 0 => turn[x.turn] # "none"
    /\ x.kind = "started" => turn[x.turn] = "busy" \/ News("completed", x.turn) \in Lines
    /\ x.kind = "completed" => turn[x.turn] = "done"

\* Turns are begun in order and one at a time.
TurnsInOrder ==
  \A k, l \in Turns : /\ turn[l] # "none" /\ k < l => turn[k] # "none"
                      /\ turn[k] = "busy" /\ turn[l] # "none" => l <= k

\* The thread is loaded before turns are started in it.
LoadedFirst ==
  /\ loaded # 0 => loaded = child /\ starting = 0
  /\ \A i \in Requests :
       request[i].method = "turn/start" /\ (request[i].state \in {"queued", "sent"} \/ i \in Inbox)
         => loaded # 0
  /\ \A k \in Turns : turn[k] = "busy" => loaded # 0
  /\ \A x \in Lines : x.turn # 0 => loaded # 0
  /\ loaded # 0 /\ bound # 0 => run[bound].child \in {0, child}

\* Calls of the provider have requests of their own.
Method(step) ==
  IF step = "thread" THEN "thread/start" ELSE IF step = "resume" THEN "thread/resume" ELSE "turn/start"
JobsOwn ==
  /\ \A r \in Runs : job[r].step # "none" =>
       /\ request[job[r].id].state \in {"queued", "sent", "resolved", "rejected"}
       /\ request[job[r].id].method = Method(job[r].step)
  /\ \A r, s \in Runs :
       job[r].step # "none" /\ job[s].step # "none" /\ job[s].id = job[r].id => r = s
  /\ \A r \in Runs : stop[r].step \in {"interrupt", "told"} =>
       request[stop[r].id].method = "turn/interrupt" /\ request[stop[r].id].state # "free"
  /\ \A i \in Requests : request[i].method = "turn/start" =>
       /\ request[i].state \in {"queued", "sent", "resolved"}
            => \E r \in Runs : job[r].step = "turn" /\ job[r].id = i
       /\ request[i].state = "resolved" => request[i].turn # 0 /\ turn[request[i].turn] # "none"

\* The first request is made before the thread is bound to a run.
FirstRequest ==
  request[1].state = "free" => bound = 0 /\ loaded = 0 /\ \A r \in Runs : job[r].step = "none"

\* The run that the thread is bound to is followed, and no other one but a run
\* whose thread is not started.
OneFollower ==
  /\ \A r \in Runs : run[r].tracked => r = bound \/ job[r].step = "thread"
  /\ bound # 0 => run[bound].tracked
  /\ \A r \in Runs : job[r].step = "thread" =>
       /\ job[r].starts /\ bound = 0 /\ loaded = 0 /\ run[r].phase # "running"
       /\ \A s \in Runs : run[s].row = 0 /\ (s # r => job[s].step = "none")
  /\ \A r \in Runs : job[r].step = "resume" =>
       closing \/ (bound = r /\ loaded = 0 /\ \A s \in Runs : s # r => job[s].step # "resume")
  /\ \A r \in Runs : job[r].step = "turn" /\ job[r].id \in Inbox => bound = r
  /\ \A r \in Runs, i \in Inbox :
       run[r].tracked /\ job[r].step = "turn" /\ request[i].method = "turn/start" => job[r].id = i

Running(r, k) == run[r].tracked /\ run[r].phase = "running" /\ run[r].turn = k
\* A turn that is not over for who reads the lines
Current(k) == turn[k] = "busy" \/ News("completed", k) \in Lines

\* What the provider keeps of a run agrees with the turns and with the lines that
\* it has not read.
Phases ==
  \A r \in Runs :
    /\ run[r].phase = "running" => run[r].turn # run[r].last /\ run[r].turn # 0
    /\ run[r].last # 0 => turn[run[r].last] = "done" /\ News("completed", run[r].last) \notin Lines
    /\ run[r].tracked => \A x \in Lines : x.turn # 0 => x.turn >= run[r].last
    /\ run[r].tracked /\ run[r].phase = "running" =>
         /\ Current(run[r].turn)
         /\ \A x \in Lines : x.turn # 0 => x.turn >= run[r].turn

\* The app-server has answered turn/start with turn k.
AnswerIs(i, k) == \/ request[i].state = "resolved" /\ request[i].turn = k
                  \/ request[i].state = "sent" /\ Answer(i, TRUE, k) \in Lines
AnswersFit ==
  \A r \in Runs, k \in Turns : job[r].step = "turn" /\ run[r].tracked /\ AnswerIs(job[r].id, k) =>
    /\ request[job[r].id].state = "resolved" => \A x \in Lines : x.turn # 0 => x.turn >= k
    /\ News("started", k) \in Lines \/ Running(r, k) \/ run[r].last = k
    /\ \A l \in Turns : turn[l] # "none" => l <= k

\* The end of a turn that was reported is not reported again.
EndsReported ==
  /\ ended \in [Turns -> {0, 1}]
  /\ \A k \in Turns : ended[k] # 0 => turn[k] = "done" /\ News("completed", k) \notin Lines

\* Who waits for the end of a turn is told by the run that has it.
StopsFit ==
  \A q \in Runs : stop[q].step \in {"interrupt", "wait"} =>
     /\ stop[q].turn # 0 /\ turn[stop[q].turn] # "none"
     /\ turn[stop[q].turn] = "busy" => bound # 0 /\ bound = stop[q].on /\ Running(bound, stop[q].turn)

\* As long as no request timed out, a turn is followed, or about to be.
Followed ==
  ~late =>
    /\ \A x \in Lines : x.kind \in Answers => request[x.id].state = "sent"
    /\ \A i \in Inbox : request[i].state = "sent"
    /\ \A k \in Turns : Current(k) =>
         /\ bound # 0
         /\ \/ Running(bound, k)
            \/ /\ job[bound].step = "turn" /\ AnswerIs(job[bound].id, k)
               /\ request[job[bound].id].state = "resolved" \/ News("started", k) \in Lines
    /\ bound # 0 /\ job[bound].step = "turn" =>
         /\ request[job[bound].id].state \in {"sent", "resolved"} /\ run[bound].phase = "idle"
              => run[bound].last # 0 /\ AnswerIs(job[bound].id, run[bound].last)
         /\ run[bound].phase = "running" => AnswerIs(job[bound].id, run[bound].turn)

Good ==
  /\ Connected /\ NewsKnown /\ TurnsInOrder /\ LoadedFirst /\ JobsOwn /\ FirstRequest
  /\ OneFollower /\ Phases /\ AnswersFit /\ EndsReported /\ StopsFit /\ Followed

IInv == TypeOK /\ (~crossed => Good)

-----------------------------------------------------------------------------
(* What each step does, in the words of the invariant *)

OthersKept(r) == \A s \in Runs \ {r} : run'[s] = run[s]
JobBecomes(r, step, id) ==
  job'[r].step = step /\ job'[r].id = id /\ \A s \in Runs \ {r} : job'[s] = job[s]
JobEnds(r) == job'[r].step = "none" /\ \A s \in Runs \ {r} : job'[s] = job[s]
NoneSettled == \A k \in Requests : request[k].state \notin Settled

\* The stop requests that wait for run s are told.
Telling(s, stopped) ==
  \A q \in Runs :
    IF stop[q].step \in {"interrupt", "wait"} /\ stop[q].on = s
      THEN /\ stop'[q].step \in {"none", "told"} /\ stop'[q].stopped = stopped
           /\ stop'[q].step = "told" => stop[q].step = "interrupt" /\ stop'[q].id = stop[q].id
      ELSE stop'[q] = stop[q]

Starting(i) ==
  /\ Asking(i, 0, "thread/start", 0) /\ NoneSettled
  /\ request[1].state = "free" /\ ~run[1].tracked /\ \A s \in Runs : run[s].row = 0
  /\ run'[1].tracked /\ run'[1].phase = "turn-starting" /\ run'[1].last = 0 /\ run'[1].row = 0
  /\ OthersKept(1)
  /\ JobBecomes(1, "thread", i) /\ job'[1].starts
  /\ UNCHANGED <<bound, loaded, stop, turn, ended, late>>

Following(r, i) ==
  /\ NoneSettled /\ ~closing /\ job[r].step = "none"
  /\ bound # 0 => run[bound].phase = "idle"
  /\ \A o \in Runs \ {r} : job[o].step # "resume"
  /\ \A k \in Inbox : request[k].method # "turn/start"
  /\ \E s \in Runs : run[s].row # 0
  /\ bound' = r
  /\ bound \notin {0, r} => Telling(bound, TRUE)
  /\ bound \in {0, r} => stop' = stop
  /\ run'[r].tracked
  /\ bound = 0 => run'[r].child = 0 /\ run'[r].last = 0
  /\ bound # 0 => run'[r].child = run[bound].child /\ run'[r].last = run[bound].last
  /\ \A s \in Runs \ {r} :
       /\ run'[s].tracked = (run[s].tracked /\ s # bound)
       /\ run'[s].phase = run[s].phase /\ run'[s].turn = run[s].turn /\ run'[s].last = run[s].last
  /\ \/ /\ loaded # 0 /\ loaded = child /\ run'[r].phase = "turn-starting"
        /\ Asking(i, 0, "turn/start", 0) /\ JobBecomes(r, "turn", i)
     \/ /\ ~(loaded # 0 /\ loaded = child) /\ run'[r].phase = "idle"
        /\ Asking(i, 0, "thread/resume", 0) /\ JobBecomes(r, "resume", i)
  /\ UNCHANGED <<loaded, turn, ended, late>>

Resuming(r, i) ==
  /\ Asking(i, job[r].id, "turn/start", 0) /\ job[r].step \in {"thread", "resume"}
  /\ request[job[r].id].state = "resolved" /\ (job[r].starts => run[r].tracked)
  /\ bound' = (IF job[r].starts THEN r ELSE bound) /\ loaded' = child
  /\ run'[r].phase = "turn-starting" /\ run'[r].child = child
  /\ run'[r].tracked = run[r].tracked /\ run'[r].turn = run[r].turn /\ run'[r].last = run[r].last
  /\ OthersKept(r)
  /\ JobBecomes(r, "turn", i)
  /\ UNCHANGED <<stop, turn, ended, late>>

Beginning(r) ==
  LET k == request[job[r].id].turn IN
  /\ Settling(job[r].id, "done") /\ job[r].step = "turn" /\ request[job[r].id].state = "resolved"
  /\ IF k = run[r].last THEN run' = run
     ELSE /\ run'[r].phase = "running" /\ run'[r].turn = k /\ run'[r].tracked = run[r].tracked
          /\ run'[r].last = run[r].last /\ run'[r].child = run[r].child
          /\ OthersKept(r)
  /\ JobEnds(r)
  /\ UNCHANGED <<bound, loaded, stop, turn, ended, late>>

Failing(r) ==
  /\ Settling(job[r].id, "done") /\ job[r].step # "none" /\ request[job[r].id].state \in Settled
  /\ request[job[r].id].state = "resolved" => job[r].starts /\ ~run[r].tracked
  /\ IF job[r].starts
       THEN /\ ~run'[r].tracked /\ Telling(r, FALSE)
            /\ bound' = (IF run[r].tracked /\ bound = r THEN 0 ELSE bound)
       ELSE run'[r].tracked = run[r].tracked /\ UNCHANGED <<bound, stop>>
  /\ run'[r].turn = run[r].turn /\ run'[r].last = run[r].last /\ run'[r].child = run[r].child
  /\ run'[r].phase = "running" <=> run[r].phase = "running"
  /\ OthersKept(r)
  /\ JobEnds(r)
  /\ UNCHANGED <<loaded, turn, ended, late>>

Stopping(r, i) ==
  /\ bound # 0 /\ run[bound].phase = "running" /\ run[bound].tracked
  /\ Asking(i, 0, "turn/interrupt", run[bound].turn) /\ NoneSettled
  /\ stop'[r].step = "interrupt" /\ stop'[r].id = i /\ stop'[r].on = bound
  /\ stop'[r].turn = run[bound].turn /\ ~stop'[r].stopped
  /\ \A q \in Runs \ {r} : stop'[q] = stop[q]
  /\ UNCHANGED <<run, bound, loaded, job, turn, ended, late>>

Interrupting(r) ==
  /\ Settling(stop[r].id, "done") /\ stop[r].step \in {"interrupt", "told"}
  /\ request[stop[r].id].state \in Settled
  /\ \/ /\ stop'[r].step = "wait" /\ stop[r].step = "interrupt" /\ stop'[r].on = stop[r].on
        /\ stop'[r].turn = stop[r].turn /\ stop'[r].stopped = stop[r].stopped
     \/ /\ stop'[r].step = "none"
        /\ stop'[r].stopped => stop[r].stopped \/ (stop[r].step = "interrupt" /\ run[stop[r].on].phase = "idle")
  /\ \A q \in Runs \ {r} : stop'[q] = stop[q]
  /\ UNCHANGED <<run, bound, loaded, job, turn, ended, late>>

GivingUp(r) ==
  /\ UNCHANGED connection
  /\ stop'[r].step = "none" /\ ~stop'[r].stopped /\ \A q \in Runs \ {r} : stop'[q] = stop[q]
  /\ UNCHANGED <<run, bound, loaded, job, turn, ended, late>>

Closing ==
  /\ UNCHANGED connection /\ bound # 0 /\ run[bound].phase = "idle"
  /\ \A q \in Runs : job[q].step = "none"
  /\ ~run'[bound].tracked /\ run'[bound].phase = "idle" /\ run'[bound].last = run[bound].last
  /\ OthersKept(bound) /\ bound' = 0 /\ Telling(bound, FALSE)
  /\ UNCHANGED <<loaded, job, turn, ended, late>>

Hearing(m) ==
  /\ Reading(m) /\ m.kind = "started" /\ request' = request
  /\ IF Hears /\ m.turn # run[bound].last
       THEN /\ run'[bound].phase = "running" /\ run'[bound].turn = m.turn
            /\ run'[bound].tracked = run[bound].tracked /\ run'[bound].last = run[bound].last
            /\ run'[bound].child = run[bound].child
            /\ OthersKept(bound)
       ELSE run' = run
  /\ UNCHANGED <<bound, loaded, job, stop, turn, ended, late>>

Completing(m) ==
  /\ Reading(m) /\ m.kind = "completed" /\ request' = request
  /\ IF Hears /\ m.turn # run[bound].last /\ run[bound].turn \in {0, m.turn}
       THEN /\ run'[bound].phase = "idle" /\ run'[bound].last = m.turn
            /\ run'[bound].tracked = run[bound].tracked /\ run'[bound].child = run[bound].child
            /\ OthersKept(bound) /\ Telling(bound, TRUE)
            /\ ended' = [k \in Turns |-> IF k = m.turn THEN ended[k] + 1 ELSE ended[k]]
       ELSE UNCHANGED <<run, stop, ended>>
  /\ UNCHANGED <<bound, loaded, job, turn, late>>

Answering(m) ==
  /\ Reading(m) /\ Taking(m)
  /\ UNCHANGED <<run, bound, loaded, job, stop, turn, ended, late>>

Replying(i, ok) ==
  /\ i \in Inbox /\ i \in Requests /\ Writing(i, {Answer(i, ok, 0)})
  /\ ok => request[i].method # "turn/start"
  /\ UNCHANGED <<run, bound, loaded, job, stop, turn, ended, late>>

TurnBegins(i, n) ==
  /\ i \in Inbox /\ i \in Requests /\ request[i].method = "turn/start" /\ ~Busy /\ NextTurn(n)
  /\ \A k \in Turns \ {n} : turn'[k] = turn[k]
  /\ \/ /\ turn'[n] = "busy"
        /\ Writing(i, {News("started", n), Answer(i, TRUE, n)})
     \/ /\ turn'[n] = "done"
        /\ Writing(i, {News("started", n), News("completed", n), Answer(i, TRUE, n)})
  /\ UNCHANGED <<run, bound, loaded, job, stop, ended, late>>

TurnStops(i, k) ==
  /\ turn[k] = "busy" /\ turn'[k] = "done" /\ \A l \in Turns \ {k} : turn'[l] = turn[l]
  /\ \/ i = 0 /\ Writing(i, {News("completed", k)})
     \/ /\ i \in Inbox /\ i \in Requests /\ request[i].method = "turn/interrupt"
        /\ Writing(i, {News("completed", k), Answer(i, TRUE, 0)})
  /\ UNCHANGED <<run, bound, loaded, job, stop, ended, late>>

Expiring(i) ==
  /\ i \in Requests /\ request[i].state = "sent" /\ Settling(i, "rejected") /\ NoneSettled /\ late'
  /\ UNCHANGED <<run, bound, loaded, job, stop, turn, ended>>

Greeting ==
  /\ Shaking /\ NoneSettled
  /\ UNCHANGED <<run, bound, loaded, job, stop, turn, ended, late>>

Dying ==
  /\ Ending /\ NoneSettled /\ loaded' = 0
  /\ \A k \in Turns : turn'[k] = IF turn[k] = "busy" THEN "done" ELSE turn[k]
  /\ \A r \in Runs : IF Interrupted(r)
       THEN /\ run'[r].phase = "idle" /\ run'[r].last = run[r].turn /\ run'[r].tracked = run[r].tracked
            /\ run'[r].row = run[r].row
       ELSE run'[r] = run[r]
  /\ \A q \in Runs :
       \/ stop'[q] = stop[q]
       \/ /\ stop[q].step \in {"interrupt", "wait"} /\ stop'[q].step \in {"none", "told"}
          /\ stop'[q].step = "told" => stop[q].step = "interrupt" /\ stop'[q].id = stop[q].id
  /\ ended' = [k \in Turns |->
                ended[k] + Cardinality({r \in Runs : Interrupted(r) /\ run[r].turn = k})]
  /\ UNCHANGED <<closing, bound, job, late>>

Disposing ==
  /\ Ending /\ NoneSettled /\ closing' /\ bound' = 0 /\ loaded' = 0
  /\ \A k \in Turns : turn'[k] = IF turn[k] = "busy" THEN "done" ELSE turn[k]
  /\ \A r \in Runs : /\ ~run'[r].tracked /\ run'[r].phase = run[r].phase /\ run'[r].last = run[r].last
                     /\ run'[r].turn = run[r].turn /\ run'[r].row = run[r].row
  /\ \A q \in Runs :
       \/ stop'[q] = stop[q]
       \/ /\ stop'[q].step \in {"none", "told"} /\ ~stop'[q].stopped
          /\ stop'[q].step = "told" => stop[q].step = "interrupt" /\ stop'[q].id = stop[q].id
  /\ UNCHANGED <<job, ended, late>>

Steps ==
  \/ UNCHANGED vars \/ Greeting \/ Dying \/ Disposing \/ Closing
  \/ \E i \in Requests : Starting(i) \/ Expiring(i) \/ (\E ok \in BOOLEAN : Replying(i, ok))
  \/ \E r \in Runs, i \in Requests : Following(r, i) \/ Resuming(r, i) \/ Stopping(r, i)
  \/ \E r \in Runs : Beginning(r) \/ Failing(r) \/ Interrupting(r) \/ GivingUp(r)
  \/ \E m \in MessageType : Hearing(m) \/ Completing(m) \/ Answering(m)
  \/ \E i \in Requests, n \in Turns : TurnBegins(i, n)
  \/ \E i \in Requests \cup {0}, k \in Turns : TurnStops(i, k)

\* Parts of changed records
LEMMA RunMarkedParts ==
  ASSUME NEW x \in RunType, NEW k
  PROVE  /\ [x EXCEPT !.turn = k, !.phase = "running", !.row = k].phase = "running"
         /\ [x EXCEPT !.turn = k, !.phase = "running", !.row = k].turn = k
         /\ [x EXCEPT !.turn = k, !.phase = "running", !.row = k].tracked = x.tracked
         /\ [x EXCEPT !.turn = k, !.phase = "running", !.row = k].last = x.last
         /\ [x EXCEPT !.turn = k, !.phase = "running", !.row = k].child = x.child
BY DEF RunType

LEMMA RunEndedParts ==
  ASSUME NEW x \in RunType, NEW k
  PROVE  /\ [x EXCEPT !.phase = "idle", !.turn = k, !.last = k].phase = "idle"
         /\ [x EXCEPT !.phase = "idle", !.turn = k, !.last = k].last = k
         /\ [x EXCEPT !.phase = "idle", !.turn = k, !.last = k].tracked = x.tracked
         /\ [x EXCEPT !.phase = "idle", !.turn = k, !.last = k].child = x.child
BY DEF RunType

LEMMA RunLostParts ==
  ASSUME NEW x \in RunType, NEW k
  PROVE  /\ [x EXCEPT !.phase = "idle", !.last = k].phase = "idle"
         /\ [x EXCEPT !.phase = "idle", !.last = k].last = k
         /\ [x EXCEPT !.phase = "idle", !.last = k].tracked = x.tracked
         /\ [x EXCEPT !.phase = "idle", !.last = k].row = x.row
BY DEF RunType

LEMMA RunPhasedParts ==
  ASSUME NEW x \in RunType, NEW phase
  PROVE  /\ [x EXCEPT !.phase = phase].phase = phase
         /\ [x EXCEPT !.phase = phase].turn = x.turn
         /\ [x EXCEPT !.phase = phase].tracked = x.tracked
         /\ [x EXCEPT !.phase = phase].last = x.last
         /\ [x EXCEPT !.phase = phase].child = x.child
BY DEF RunType

LEMMA RunLoadedParts ==
  ASSUME NEW x \in RunType, NEW phase, NEW c
  PROVE  /\ [x EXCEPT !.phase = phase, !.child = c].phase = phase
         /\ [x EXCEPT !.phase = phase, !.child = c].turn = x.turn
         /\ [x EXCEPT !.phase = phase, !.child = c].tracked = x.tracked
         /\ [x EXCEPT !.phase = phase, !.child = c].last = x.last
         /\ [x EXCEPT !.phase = phase, !.child = c].child = c
BY DEF RunType

LEMMA RunLeftParts ==
  ASSUME NEW x \in RunType
  PROVE  /\ [x EXCEPT !.tracked = FALSE].tracked = FALSE
         /\ [x EXCEPT !.tracked = FALSE].phase = x.phase
         /\ [x EXCEPT !.tracked = FALSE].turn = x.turn
         /\ [x EXCEPT !.tracked = FALSE].last = x.last
         /\ [x EXCEPT !.tracked = FALSE].child = x.child
         /\ [x EXCEPT !.tracked = FALSE].row = x.row
BY DEF RunType

LEMMA JobParts ==
  ASSUME NEW x \in JobType, NEW i
  PROVE  /\ [x EXCEPT !.step = "turn", !.id = i].step = "turn"
         /\ [x EXCEPT !.step = "turn", !.id = i].id = i
BY DEF JobType

LEMMA StopParts ==
  ASSUME NEW x \in StopType
  PROVE  /\ [x EXCEPT !.step = "wait"].step = "wait" /\ [x EXCEPT !.step = "wait"].on = x.on
         /\ [x EXCEPT !.step = "wait"].turn = x.turn /\ [x EXCEPT !.step = "wait"].stopped = x.stopped
         /\ \A b : /\ [x EXCEPT !.step = "told", !.stopped = b].step = "told"
                   /\ [x EXCEPT !.step = "told", !.stopped = b].stopped = b
                   /\ [x EXCEPT !.step = "told", !.stopped = b].id = x.id
BY DEF StopType

LEMMA ToldParts ==
  ASSUME stop \in [Runs -> StopType], NEW s, NEW b \in BOOLEAN, NEW q \in Runs
  PROVE  LET x == Told(stop, s, b)[q] IN
         IF stop[q].step \in {"interrupt", "wait"} /\ stop[q].on = s
           THEN /\ x.step \in {"none", "told"} /\ x.stopped = b
                /\ x.step = "told" => stop[q].step = "interrupt" /\ x.id = stop[q].id
           ELSE x = stop[q]
<1>1. Over(b).step = "none" /\ Over(b).stopped = b
  BY OverValues
<1>2. stop[q] \in StopType
  OBVIOUS
<1>3. /\ [stop[q] EXCEPT !.step = "told", !.stopped = b].step = "told"
      /\ [stop[q] EXCEPT !.step = "told", !.stopped = b].stopped = b
      /\ [stop[q] EXCEPT !.step = "told", !.stopped = b].id = stop[q].id
  BY <1>2, StopParts
<1> QED BY <1>1, <1>3 DEF Told

LEMMA ToldTells ==
  ASSUME stop \in [Runs -> StopType], NEW s, NEW b \in BOOLEAN, stop' = Told(stop, s, b)
  PROVE  Telling(s, b)
BY ToldParts DEF Telling

Piped == OneChild /\ Asked /\ InOrder

LEMMA PipedFrom ==
  ASSUME Good
  PROVE  /\ OneChild /\ Asked /\ InOrder /\ AnswersKnown /\ InterruptsName
         /\ OneChild' /\ Asked' /\ out' = out => Piped'
BY DEF Good, Connected, Piped, InOrder

LEMMA NoneSettles == ~Continues => NoneSettled
BY DEF Continues, NoneSettled

LEMMA MethodKnown ==
  /\ "thread/start" \in Methods /\ "thread/resume" \in Methods /\ "turn/start" \in Methods
  /\ "turn/interrupt" \in Methods
BY DEF Methods

LEMMA StartStep ==
  ASSUME TypeOK, Good, NEW i \in Requests, Start(i), ~Continues
  PROVE  Starting(i) /\ Piped'
<1>1. Asking(i, 0, "thread/start", 0) /\ Piped'
  BY PipedFrom, AskEffect, TypeParts, MethodKnown DEF Start
<1>2. run'[1] = [NoRun EXCEPT !.tracked = TRUE, !.phase = "turn-starting"] /\ OthersKept(1)
  BY TypeParts, Numbers DEF Start, OthersKept
<1>3. run'[1].tracked /\ run'[1].phase = "turn-starting" /\ run'[1].last = 0 /\ run'[1].row = 0
  BY <1>2 DEF NoRun
<1>4. JobBecomes(1, "thread", i) /\ job'[1].starts
  BY TypeParts, Numbers DEF Start, JobBecomes
<1>5. request[1].state = "free"
  BY Values DEF Start
<1> QED BY <1>1, <1>2, <1>3, <1>4, <1>5, NoneSettles DEF Start, Starting, truth, history

LEMMA FollowupStep ==
  ASSUME TypeOK, Good, NEW r \in Runs, NEW q \in Runs, NEW i \in Requests, Followup(r, q, i),
         ~Continues, ~crossed'
  PROVE  Following(r, i) /\ Piped'
<1> DEFINE b == IF bound = 0 THEN NoRun ELSE run[bound]
           row == run[IF run[r].row = 0 THEN q ELSE r].row
           fresh == [NoRun EXCEPT !.tracked = TRUE, !.child = b.child, !.turn = row, !.last = b.last,
                                  !.row = row]
           mine == IF run[r].tracked THEN run[r] ELSE fresh
           isLoaded == loaded # 0 /\ loaded = child
<1>1. /\ run \in [Runs -> RunType] /\ bound \in Runs \cup {0} /\ job \in [Runs -> JobType]
      /\ stop \in [Runs -> StopType]
  BY TypeParts
<1>2. \E method \in {"turn/start", "thread/resume"} : Ask(i, 0, method, 0)
      /\ method = IF isLoaded THEN "turn/start" ELSE "thread/resume"
  BY DEF Followup
<1>3. Piped' /\ Asking(i, 0, IF isLoaded THEN "turn/start" ELSE "thread/resume", 0)
  BY <1>2, PipedFrom, AskEffect, TypeParts, MethodKnown
<1>4. /\ ~closing /\ job[r].step = "none" /\ ThreadIdle(r) /\ ~Ahead(r) /\ bound' = r /\ row # 0
      /\ UNCHANGED <<loaded, turn, ended, late>>
  BY Values DEF Followup, truth
<1>5. run[r].tracked <=> r = bound
  BY <1>1, <1>4, Numbers DEF Good, OneFollower
<1>6. bound # 0 => run[bound].phase = "idle"
  BY <1>1, <1>4, <1>5 DEF ThreadIdle
<1>7. \A o \in Runs \ {r} : job[o].step # "resume"
  BY <1>4 DEF Ahead
<1>8. \A k \in Inbox : request[k].method # "turn/start"
  BY <1>4 DEF Ahead, Inbox
<1>9. \E s \in Runs : run[s].row # 0
  BY <1>4
<1>10. (bound \notin {0, r} => Telling(bound, TRUE)) /\ (bound \in {0, r} => stop' = stop)
  BY <1>1, ToldTells DEF Followup, BoundStops
<1>11. /\ mine.tracked /\ mine.phase = "idle" /\ mine \in RunType
       /\ bound = 0 => mine.child = 0 /\ mine.last = 0
       /\ bound # 0 => mine.child = run[bound].child /\ mine.last = run[bound].last
  <2>1. CASE run[r].tracked
    BY <1>1, <1>5, <1>6, <2>1, Numbers
  <2>2. CASE ~run[r].tracked
    <3>1. b \in RunType /\ row \in Turns \cup {0} /\ b.child \in Children \cup {0}
          /\ b.last \in Turns \cup {0}
      <4>1. b \in RunType /\ run[r] \in RunType /\ run[q] \in RunType
        BY <1>1, Values
      <4> QED BY <4>1, RunParts
    <3>2. fresh \in RunType
      BY <3>1, RunFresh
    <3>3. fresh.tracked /\ fresh.phase = "idle" /\ fresh.child = b.child /\ fresh.last = b.last
      BY DEF NoRun
    <3>4. mine = fresh
      BY <2>2
    <3> QED BY <3>2, <3>3, <3>4 DEF NoRun
  <2> QED BY <2>1, <2>2
<1> HIDE DEF mine
<1>12. DOMAIN Bound(run, r) = Runs
  BY <1>1 DEF Bound
<1>13. \A s \in Runs \ {r} :
         /\ Bound(run, r)[s].tracked = (run[s].tracked /\ s # bound)
         /\ Bound(run, r)[s].phase = run[s].phase /\ Bound(run, r)[s].turn = run[s].turn
         /\ Bound(run, r)[s].last = run[s].last
  <2> SUFFICES ASSUME NEW s \in Runs, s # r
               PROVE  /\ Bound(run, r)[s].tracked = (run[s].tracked /\ s # bound)
                      /\ Bound(run, r)[s].phase = run[s].phase /\ Bound(run, r)[s].turn = run[s].turn
                      /\ Bound(run, r)[s].last = run[s].last
    OBVIOUS
  <2>1. CASE s = bound
    <3>1. Bound(run, r)[s] = [run[s] EXCEPT !.tracked = FALSE]
      BY <1>1, <2>1, Numbers DEF Bound
    <3>2. run[s] \in RunType
      BY <1>1
    <3>3. /\ [run[s] EXCEPT !.tracked = FALSE].tracked = FALSE
          /\ [run[s] EXCEPT !.tracked = FALSE].phase = run[s].phase
          /\ [run[s] EXCEPT !.tracked = FALSE].turn = run[s].turn
          /\ [run[s] EXCEPT !.tracked = FALSE].last = run[s].last
      BY <3>2, RunLeftParts
    <3> QED BY <2>1, <3>1, <3>3
  <2>2. CASE s # bound
    <3>1. Bound(run, r)[s] = run[s]
      BY <1>1, <2>2 DEF Bound
    <3>2. run[s].tracked \in BOOLEAN
      BY <1>1 DEF RunType
    <3> QED BY <2>2, <3>1, <3>2
  <2> QED BY <2>1, <2>2
<1>14. run' = [Bound(run, r) EXCEPT ![r] = IF isLoaded THEN [mine EXCEPT !.phase = "turn-starting"] ELSE mine]
  BY DEF Followup, mine
<1>15. /\ run'[r] = IF isLoaded THEN [mine EXCEPT !.phase = "turn-starting"] ELSE mine
       /\ \A s \in Runs \ {r} : run'[s] = Bound(run, r)[s]
  BY <1>12, <1>14
<1>16. /\ run'[r].tracked /\ run'[r].phase = (IF isLoaded THEN "turn-starting" ELSE "idle")
       /\ run'[r].child = mine.child /\ run'[r].last = mine.last
  <2>0. mine \in RunType
    BY <1>11
  <2>1. /\ [mine EXCEPT !.phase = "turn-starting"].tracked = mine.tracked
        /\ [mine EXCEPT !.phase = "turn-starting"].phase = "turn-starting"
        /\ [mine EXCEPT !.phase = "turn-starting"].child = mine.child
        /\ [mine EXCEPT !.phase = "turn-starting"].last = mine.last
    BY <2>0, RunPhasedParts
  <2> QED BY <1>11, <1>15, <2>1
<1>17. job' = [job EXCEPT ![r] = [step |-> IF isLoaded THEN "turn" ELSE "resume", id |-> i, starts |-> FALSE]]
  BY DEF Followup
<1>18. JobBecomes(r, IF isLoaded THEN "turn" ELSE "resume", i)
  BY <1>1, <1>17 DEF JobBecomes
<1>19. \A s \in Runs \ {r} :
         /\ run'[s].tracked = (run[s].tracked /\ s # bound)
         /\ run'[s].phase = run[s].phase /\ run'[s].turn = run[s].turn /\ run'[s].last = run[s].last
  BY <1>13, <1>15
<1>20. NoneSettled
  BY NoneSettles
<1> HIDE DEF isLoaded
<1>21. \/ /\ isLoaded /\ run'[r].phase = "turn-starting"
          /\ Asking(i, 0, "turn/start", 0) /\ JobBecomes(r, "turn", i)
       \/ /\ ~isLoaded /\ run'[r].phase = "idle"
          /\ Asking(i, 0, "thread/resume", 0) /\ JobBecomes(r, "resume", i)
  BY <1>3, <1>16, <1>18
<1>22. Following(r, i)
  BY <1>4, <1>6, <1>7, <1>8, <1>9, <1>10, <1>11, <1>16, <1>19, <1>20, <1>21 DEF Following, isLoaded
<1> QED BY <1>3, <1>22

LEMMA ThreadStep ==
  ASSUME TypeOK, Good, NEW r \in Runs, NEW i \in Requests, ThreadAnswered(r, i)
  PROVE  Resuming(r, i) /\ Piped'
<1>1. run \in [Runs -> RunType] /\ job \in [Runs -> JobType]
  BY TypeParts
<1>2. job[r].step \in {"thread", "resume"} /\ job[r].id \in Requests
      /\ request[job[r].id].state = "resolved"
  BY DEF ThreadAnswered, TypeOK, IdsKnown
<1>3. Asking(i, job[r].id, "turn/start", 0) /\ Piped'
  BY <1>2, PipedFrom, AskEffect, TypeParts, MethodKnown DEF ThreadAnswered, Settled
<1>4. run' = [run EXCEPT ![r] = [run[r] EXCEPT !.phase = "turn-starting", !.child = child]]
  BY <1>1 DEF ThreadAnswered
<1>5. run'[r] = [run[r] EXCEPT !.phase = "turn-starting", !.child = child] /\ OthersKept(r)
  BY <1>1, <1>4 DEF OthersKept
<1>6. /\ run'[r].phase = "turn-starting" /\ run'[r].child = child
      /\ run'[r].tracked = run[r].tracked /\ run'[r].turn = run[r].turn /\ run'[r].last = run[r].last
  <2>1. run[r] \in RunType
    BY <1>1
  <2> QED BY <1>5, <2>1, RunLoadedParts
<1>7. JobBecomes(r, "turn", i)
  <2>1. job'[r] = [job[r] EXCEPT !.step = "turn", !.id = i] /\ \A s \in Runs \ {r} : job'[s] = job[s]
    BY <1>1 DEF ThreadAnswered
  <2>2. job[r] \in JobType
    BY <1>1
  <2> QED BY <2>1, <2>2, JobParts DEF JobBecomes
<1> QED BY <1>2, <1>3, <1>5, <1>6, <1>7 DEF ThreadAnswered, Resuming, truth, history

LEMMA TurnStep ==
  ASSUME TypeOK, Good, NEW r \in Runs, TurnAnswered(r)
  PROVE  Beginning(r) /\ Piped'
<1>1. run \in [Runs -> RunType] /\ job \in [Runs -> JobType]
  BY TypeParts
<1>2. job[r].step = "turn" /\ job[r].id \in Requests /\ request[job[r].id].state = "resolved"
  BY DEF TurnAnswered, TypeOK, IdsKnown
<1>3. Settling(job[r].id, "done") /\ Piped'
  BY <1>2, PipedFrom, DoneEffect, TypeParts DEF TurnAnswered, Settled
<1>4. JobEnds(r)
  BY <1>1, Values DEF TurnAnswered, JobEnds
<1> DEFINE k == request[job[r].id].turn
<1>5. ASSUME k # run[r].last
      PROVE  /\ run'[r].phase = "running" /\ run'[r].turn = k /\ run'[r].tracked = run[r].tracked
             /\ run'[r].last = run[r].last /\ run'[r].child = run[r].child
             /\ OthersKept(r)
  <2>1. run' = MarkRunning(run, r, k)
    BY <1>5 DEF TurnAnswered, Begun
  <2>2. run'[r] = [run[r] EXCEPT !.turn = k, !.phase = "running", !.row = k] /\ OthersKept(r)
    BY <1>1, <2>1 DEF MarkRunning, OthersKept
  <2>3. run[r] \in RunType
    BY <1>1
  <2> QED BY <2>2, <2>3, RunMarkedParts
<1>6. k = run[r].last => run' = run
  BY DEF TurnAnswered, Begun
<1> QED BY <1>2, <1>3, <1>4, <1>5, <1>6 DEF TurnAnswered, Beginning, truth, history

LEMMA FailStep ==
  ASSUME TypeOK, Good, NEW r \in Runs, JobFails(r)
  PROVE  Failing(r) /\ Piped'
<1>1. run \in [Runs -> RunType] /\ job \in [Runs -> JobType] /\ stop \in [Runs -> StopType]
  BY TypeParts
<1>2. job[r].step # "none" /\ job[r].id \in Requests /\ request[job[r].id].state \in Settled
      /\ (request[job[r].id].state = "resolved" => job[r].starts /\ ~run[r].tracked)
  BY DEF JobFails, TypeOK, IdsKnown, Settled
<1>3. Settling(job[r].id, "done") /\ Piped'
  BY <1>2, PipedFrom, DoneEffect, TypeParts DEF JobFails
<1>4. JobEnds(r)
  BY <1>1, Values DEF JobFails, JobEnds
<1> DEFINE phase == IF job[r].step = "turn" /\ run[r].phase = "turn-starting" THEN "idle" ELSE run[r].phase
           mine == [run[r] EXCEPT !.phase = phase]
           idle == [run EXCEPT ![r].phase = IF job[r].step = "turn" /\ @ = "turn-starting"
                                              THEN "idle" ELSE @]
<1>5. phase = "running" <=> run[r].phase = "running"
  OBVIOUS
<1>6. phase \in {"idle", "turn-starting", "running"} /\ run[r] \in RunType
  BY <1>1 DEF RunType
<1>7. idle = [run EXCEPT ![r] = mine]
  BY <1>1
<1> HIDE DEF phase
<1>8. /\ mine.phase = phase /\ mine.turn = run[r].turn /\ mine.tracked = run[r].tracked
      /\ mine.last = run[r].last /\ mine.child = run[r].child /\ mine \in RunType
  <2>1. mine \in RunType
    BY <1>6, RunPhased
  <2> QED BY <1>6, <2>1, RunPhasedParts
<1> HIDE DEF mine
<1>9. CASE job[r].starts
  <2>1. /\ run' = Forgotten(idle, r) /\ bound' = Unbound(r) /\ stop' = Told(stop, r, FALSE)
    BY <1>9 DEF JobFails
  <2>2. run' = [run EXCEPT ![r] = [mine EXCEPT !.tracked = FALSE]]
    BY <1>1, <1>7, <2>1 DEF Forgotten
  <2>3. run'[r] = [mine EXCEPT !.tracked = FALSE] /\ OthersKept(r)
    BY <1>1, <2>2 DEF OthersKept
  <2>4. /\ ~run'[r].tracked /\ run'[r].phase = phase /\ run'[r].turn = run[r].turn
        /\ run'[r].last = run[r].last /\ run'[r].child = run[r].child
    BY <1>8, <2>3, RunLeftParts
  <2>5. Telling(r, FALSE)
    BY <1>1, <2>1, ToldTells
  <2> QED BY <1>2, <1>3, <1>4, <1>5, <1>9, <2>1, <2>3, <2>4, <2>5
          DEF JobFails, Failing, Unbound, truth, history
<1>10. CASE ~job[r].starts
  <2>1. run' = idle /\ UNCHANGED <<bound, stop>>
    BY <1>10 DEF JobFails
  <2>2. run'[r] = mine /\ OthersKept(r)
    BY <1>1, <1>7, <2>1 DEF OthersKept
  <2> QED BY <1>2, <1>3, <1>4, <1>5, <1>8, <1>10, <2>1, <2>2 DEF JobFails, Failing, truth, history
<1> QED BY <1>9, <1>10

LEMMA StopStep ==
  ASSUME TypeOK, Good, NEW r \in Runs, NEW i \in Requests, Stop(r, i), ~Continues
  PROVE  Stopping(r, i) /\ Piped'
<1>1. run \in [Runs -> RunType] /\ bound \in Runs \cup {0} /\ stop \in [Runs -> StopType]
  BY TypeParts
<1>2. StateOf(r) \in Runs /\ run[StateOf(r)].phase = "running"
  BY <1>1 DEF Stop, StateOf
<1>3. StateOf(r) = bound /\ bound # 0 /\ run[bound].tracked
  <2>1. bound # 0 => run[bound].tracked
    BY DEF Good, OneFollower
  <2>2. \A s \in Runs : run[s].tracked => s = bound \/ job[s].step = "thread"
    BY DEF Good, OneFollower
  <2>3. \A s \in Runs : job[s].step = "thread" => run[s].phase # "running"
    BY DEF Good, OneFollower
  <2>4. StateOf(r) = bound
    BY <1>2, <2>2, <2>3 DEF StateOf
  <2> QED BY <1>2, <2>1, <2>4, Numbers
<1>4. run[bound].turn \in Turns \cup {0} /\ Ask(i, 0, "turn/interrupt", run[bound].turn)
  BY <1>1, <1>2, <1>3, RunParts DEF Stop
<1>5. Asking(i, 0, "turn/interrupt", run[bound].turn) /\ Piped'
  BY <1>4, PipedFrom, AskEffect, TypeParts, MethodKnown
<1>6. stop' = [stop EXCEPT ![r] = [step |-> "interrupt", id |-> i, on |-> bound,
                                   turn |-> run[bound].turn, stopped |-> FALSE]]
  BY <1>3 DEF Stop
<1>7. stop'[r] = [step |-> "interrupt", id |-> i, on |-> bound, turn |-> run[bound].turn, stopped |-> FALSE]
      /\ \A q \in Runs \ {r} : stop'[q] = stop[q]
  BY <1>1, <1>6
<1> QED BY <1>2, <1>3, <1>5, <1>7, NoneSettles DEF Stop, Stopping, truth, history

LEMMA InterruptStep ==
  ASSUME TypeOK, Good, NEW r \in Runs, InterruptAnswered(r)
  PROVE  Interrupting(r) /\ stop[r].id \in Requests /\ Piped'
<1>1. stop \in [Runs -> StopType] /\ stop[r] \in StopType
  BY TypeParts
<1>2. /\ stop[r].step \in {"interrupt", "told"} /\ stop[r].id \in Requests
      /\ request[stop[r].id].state \in Settled
  BY DEF InterruptAnswered, TypeOK, IdsKnown
<1>3. Settling(stop[r].id, "done") /\ Piped'
  BY <1>2, PipedFrom, DoneEffect, TypeParts DEF InterruptAnswered
<1>4. \A b \in BOOLEAN : Over(b).step = "none" /\ Over(b).stopped = b
  BY OverValues
<1>5. /\ [stop[r] EXCEPT !.step = "wait"].step = "wait" /\ [stop[r] EXCEPT !.step = "wait"].on = stop[r].on
      /\ [stop[r] EXCEPT !.step = "wait"].turn = stop[r].turn
      /\ [stop[r] EXCEPT !.step = "wait"].stopped = stop[r].stopped
  BY <1>1, StopParts
<1>6. stop[r].stopped \in BOOLEAN
  BY <1>1, StopValues
<1>7. \A q \in Runs \ {r} : stop'[q] = stop[q]
  BY <1>1 DEF InterruptAnswered, AwaitEnd
<1>8. CASE stop[r].step = "told" /\ stop' = [stop EXCEPT ![r] = Over(@.stopped)]
  <2>1. stop'[r].step = "none" /\ stop'[r].stopped = stop[r].stopped
    BY <1>1, <1>4, <1>6, <1>8
  <2> QED BY <1>2, <1>3, <1>7, <2>1 DEF InterruptAnswered, Interrupting, truth, history
<1>9. CASE stop[r].step = "interrupt" /\ AwaitEnd(r)
  <2>1. stop'[r] = [stop[r] EXCEPT !.step = "wait"]
    BY <1>1, <1>9 DEF AwaitEnd
  <2> QED BY <1>2, <1>3, <1>5, <1>7, <1>9, <2>1 DEF InterruptAnswered, Interrupting, truth, history
<1>10. CASE /\ stop[r].step = "interrupt"
            /\ stop' = [stop EXCEPT ![r] = Over(run[stop[r].on].phase = "idle")]
  <2>1. stop'[r].step = "none" /\ stop'[r].stopped = (run[stop[r].on].phase = "idle")
    BY <1>1, <1>4, <1>10
  <2> QED BY <1>2, <1>3, <1>7, <1>10, <2>1 DEF InterruptAnswered, Interrupting, truth, history
<1> QED BY <1>2, <1>3, <1>8, <1>9, <1>10 DEF InterruptAnswered

LEMMA QuietPipes ==
  ASSUME Good, UNCHANGED connection
  PROVE  Piped' /\ Lines' = Lines /\ Inbox' = Inbox
<1>1. Lines' = Lines /\ Inbox' = Inbox
  BY DEF connection, Lines, Inbox
<1> QED BY <1>1 DEF Good, Connected, Piped, OneChild, Asked, Shaken, InOrder, connection

LEMMA GiveUpStep ==
  ASSUME TypeOK, Good, NEW r \in Runs, StopTimesOut(r)
  PROVE  GivingUp(r) /\ Piped'
<1>1. Over(FALSE).step = "none" /\ Over(FALSE).stopped = FALSE
  BY OverValues
<1> QED BY <1>1, QuietPipes, TypeParts DEF StopTimesOut, GivingUp, truth, history

LEMMA CloseStep ==
  ASSUME TypeOK, Good, NEW r \in Runs, Close(r)
  PROVE  Closing /\ Piped'
<1>1. run \in [Runs -> RunType] /\ bound \in Runs \cup {0} /\ stop \in [Runs -> StopType]
  BY TypeParts
<1> DEFINE s == StateOf(r)
<1>2. s \in Runs /\ run[s].phase = "idle" /\ run[s].tracked /\ \A q \in Runs : job[q].step = "none"
  BY <1>1, Values DEF Close, StateOf
<1>3. s = bound /\ bound # 0
  BY <1>2, Numbers DEF Good, OneFollower
<1> HIDE DEF s
<1>4. run' = Forgotten(run, s) /\ bound' = Unbound(s) /\ stop' = Told(stop, s, FALSE)
  BY DEF Close, s
<1>5. run'[bound] = [run[bound] EXCEPT !.tracked = FALSE] /\ OthersKept(bound)
  BY <1>1, <1>2, <1>3, <1>4 DEF Forgotten, OthersKept
<1>6. run'[bound].tracked = FALSE /\ run'[bound].phase = "idle" /\ run'[bound].last = run[bound].last
  <2>1. run[bound] \in RunType
    BY <1>1, <1>2, <1>3
  <2> QED BY <1>2, <1>3, <1>5, <2>1, RunLeftParts
<1>7. bound' = 0 /\ Telling(bound, FALSE)
  BY <1>1, <1>2, <1>3, <1>4, ToldTells DEF Unbound
<1> QED BY <1>2, <1>3, <1>5, <1>6, <1>7, QuietPipes DEF Close, Closing, truth, history

LEMMA StartedStep ==
  ASSUME TypeOK, Good, NEW m, ReadStarted(m)
  PROVE  Hearing(m) /\ m \in MessageType /\ Piped'
<1>1. run \in [Runs -> RunType] /\ bound \in Runs \cup {0}
  BY TypeParts
<1>2. Reading(m) /\ Piped' /\ request' = request
  BY ReadEffect, PipedFrom, TypeParts DEF ReadStarted, ReadNews, Piped
<1>3. ASSUME Hears /\ m.turn # run[bound].last
      PROVE  /\ run'[bound].phase = "running" /\ run'[bound].turn = m.turn
             /\ run'[bound].tracked = run[bound].tracked /\ run'[bound].last = run[bound].last
             /\ run'[bound].child = run[bound].child
             /\ OthersKept(bound)
  <2>1. bound \in Runs /\ run[bound] \in RunType /\ run' = MarkRunning(run, bound, m.turn)
    BY <1>1, <1>3 DEF Hears, ReadStarted
  <2>2. run'[bound] = [run[bound] EXCEPT !.turn = m.turn, !.phase = "running", !.row = m.turn]
        /\ OthersKept(bound)
    BY <1>1, <2>1 DEF MarkRunning, OthersKept
  <2> QED BY <2>1, <2>2, RunMarkedParts
<1>4. ~(Hears /\ m.turn # run[bound].last) => run' = run
  BY DEF ReadStarted
<1> QED BY <1>2, <1>3, <1>4 DEF ReadStarted, Hearing, Reading, truth, history

LEMMA CompletedStep ==
  ASSUME TypeOK, Good, NEW m, ReadCompleted(m), ~crossed
  PROVE  Completing(m) /\ m \in MessageType /\ Piped'
<1>1. run \in [Runs -> RunType] /\ bound \in Runs \cup {0} /\ stop \in [Runs -> StopType]
  BY TypeParts
<1>2. Reading(m) /\ Piped' /\ request' = request
  BY ReadEffect, PipedFrom, TypeParts DEF ReadCompleted, ReadNews, Piped
<1> DEFINE known == Hears /\ m.turn # run[bound].last /\ run[bound].turn \in {0, m.turn}
<1>3. ASSUME known
      PROVE  /\ run'[bound].phase = "idle" /\ run'[bound].last = m.turn
             /\ run'[bound].tracked = run[bound].tracked /\ run'[bound].child = run[bound].child
             /\ OthersKept(bound) /\ Telling(bound, TRUE)
             /\ ended' = [k \in Turns |-> IF k = m.turn THEN ended[k] + 1 ELSE ended[k]]
  <2>0. DOMAIN ended = Turns
    BY DEF Good, EndsReported
  <2>1. bound \in Runs /\ run[bound] \in RunType /\ run' = EndTurn(run, bound, m.turn)
        /\ stop' = Told(stop, bound, TRUE) /\ ended' = Reported(m.turn)
    BY <1>1, <1>3 DEF Hears, ReadCompleted
  <2>2. run'[bound] = [run[bound] EXCEPT !.phase = "idle", !.turn = m.turn, !.last = m.turn]
        /\ OthersKept(bound)
    BY <1>1, <2>1 DEF EndTurn, OthersKept
  <2>3. Telling(bound, TRUE)
    BY <1>1, <2>1, ToldTells
  <2>4. LET x == [run[bound] EXCEPT !.phase = "idle", !.turn = m.turn, !.last = m.turn] IN
        x.phase = "idle" /\ x.last = m.turn /\ x.tracked = run[bound].tracked /\ x.child = run[bound].child
    BY <2>1, RunEndedParts
  <2>5. ended' = [k \in Turns |-> IF k = m.turn THEN ended[k] + 1 ELSE ended[k]]
    BY <2>0, <2>1 DEF Reported
  <2> QED BY <2>1, <2>2, <2>3, <2>4, <2>5
<1>4. ~known => UNCHANGED <<run, stop, ended>>
  BY DEF ReadCompleted
<1>5. m.kind = "completed" /\ UNCHANGED <<bound, loaded, job, turn, late>>
  BY DEF ReadCompleted, history
<1> HIDE DEF known
<1> QED BY <1>2, <1>3, <1>4, <1>5 DEF Completing, Reading, known

LEMMA AnswerStep ==
  ASSUME TypeOK, Good, NEW m, ReadAnswer(m), UNCHANGED <<provider, truth, history>>
  PROVE  Answering(m) /\ m \in MessageType /\ Piped'
<1>1. Reading(m) /\ Taking(m) /\ Piped'
  BY ReadEffect, TakeEffect, PipedFrom, TypeParts DEF Piped
<1> QED BY <1>1 DEF Answering, Reading, provider, truth, history

LEMMA ExpireStep ==
  ASSUME TypeOK, Good, NEW i \in Requests, RequestTimesOut(i), ~Continues
  PROVE  Expiring(i) /\ Piped'
<1>1. Settling(i, "rejected") /\ request[i].state = "sent" /\ Piped'
  BY TimeoutEffect, PipedFrom, TypeParts DEF RequestTimesOut
<1> QED BY <1>1, NoneSettles DEF Expiring, RequestTimesOut, provider, truth

LEMMA GreetStep ==
  ASSUME TypeOK, Good, NEW ok \in BOOLEAN, HandshakeEnds(ok), ~Continues
  PROVE  Greeting /\ Piped'
<1>1. Shaking /\ Piped'
  BY HandshakeEffect, PipedFrom, TypeParts DEF HandshakeEnds
<1> QED BY <1>1, NoneSettles DEF Greeting, HandshakeEnds, provider, truth, history

LEMMA ExitStep ==
  ASSUME TypeOK, Good, ChildExits, ~Continues
  PROVE  Dying /\ Piped'
<1>1. run \in [Runs -> RunType] /\ stop \in [Runs -> StopType] /\ turn \in [Turns -> {"none", "busy", "done"}]
  BY TypeParts
<1>2. NoneSettled
  BY NoneSettles
<1>3. Exit /\ Terminated /\ UNCHANGED <<closing, bound, job, late>>
  BY DEF ChildExits, history
<1>4. Ending /\ Piped'
  <2>1. \A k \in Requests : request[k].state # "resolved"
    BY <1>2 DEF NoneSettled, Settled
  <2> QED BY <1>3, <2>1, ExitEffect, PipedFrom, TypeParts DEF Piped
<1>5. \A k \in Turns : turn'[k] = IF turn[k] = "busy" THEN "done" ELSE turn[k]
  BY <1>3 DEF Terminated
<1>6. \A r \in Runs : IF Interrupted(r)
        THEN /\ run'[r].phase = "idle" /\ run'[r].last = run[r].turn /\ run'[r].tracked = run[r].tracked
             /\ run'[r].row = run[r].row
        ELSE run'[r] = run[r]
  <2> SUFFICES ASSUME NEW r \in Runs
               PROVE  IF Interrupted(r)
                 THEN /\ run'[r].phase = "idle" /\ run'[r].last = run[r].turn
                      /\ run'[r].tracked = run[r].tracked /\ run'[r].row = run[r].row
                 ELSE run'[r] = run[r]
    OBVIOUS
  <2>1. run[r] \in RunType
    BY <1>1
  <2>2. Interrupted(r) => run'[r] = [run[r] EXCEPT !.phase = "idle", !.last = run[r].turn]
    BY <1>3 DEF Terminated
  <2>3. ~Interrupted(r) => run'[r] = run[r]
    BY <1>3 DEF Terminated
  <2>4. LET x == [run[r] EXCEPT !.phase = "idle", !.last = run[r].turn] IN
        x.phase = "idle" /\ x.last = run[r].turn /\ x.tracked = run[r].tracked /\ x.row = run[r].row
    BY <2>1, RunLostParts
  <2> QED BY <2>2, <2>3, <2>4
<1>7. \A q \in Runs :
       \/ stop'[q] = stop[q]
       \/ /\ stop[q].step \in {"interrupt", "wait"} /\ stop'[q].step \in {"none", "told"}
          /\ stop'[q].step = "told" => stop[q].step = "interrupt" /\ stop'[q].id = stop[q].id
  <2> SUFFICES ASSUME NEW q \in Runs
               PROVE  \/ stop'[q] = stop[q]
                      \/ /\ stop[q].step \in {"interrupt", "wait"} /\ stop'[q].step \in {"none", "told"}
                         /\ stop'[q].step = "told" => stop[q].step = "interrupt" /\ stop'[q].id = stop[q].id
    OBVIOUS
  <2>1. stop'[q] = stop[q] \/ stop'[q] = Told(stop, stop[q].on, TRUE)[q]
    BY <1>3 DEF Terminated
  <2>2. LET x == Told(stop, stop[q].on, TRUE)[q] IN
        \/ x = stop[q]
        \/ stop[q].step \in {"interrupt", "wait"} /\ x.step \in {"none", "told"} /\ (x.step = "told" => stop[q].step = "interrupt" /\ x.id = stop[q].id)
    BY <1>1, ToldParts
  <2> QED BY <2>1, <2>2
<1>8. ended' = [k \in Turns |->
                  ended[k] + Cardinality({r \in Runs : Interrupted(r) /\ run[r].turn = k})]
  <2>1. ended' = [k \in Turns |->
                    ended[k] + Cardinality({r \in {s \in Runs : Interrupted(s)} : run[r].turn = k})]
    BY <1>3 DEF Terminated
  <2>2. \A k \in Turns : {r \in {s \in Runs : Interrupted(s)} : run[r].turn = k}
                            = {r \in Runs : Interrupted(r) /\ run[r].turn = k}
    OBVIOUS
  <2> QED BY <2>1, <2>2
<1>9. loaded' = 0
  BY <1>3 DEF Terminated
<1> QED BY <1>2, <1>3, <1>4, <1>5, <1>6, <1>7, <1>8, <1>9 DEF Dying

LEMMA DisposeStep ==
  ASSUME TypeOK, Good, Dispose, ~Continues
  PROVE  Disposing /\ Piped'
<1>1. run \in [Runs -> RunType] /\ stop \in [Runs -> StopType] /\ ConnectionTypes
  BY TypeParts
<1>2. NoneSettled /\ OneChild /\ Asked /\ InOrder
  BY NoneSettles, PipedFrom
<1>3. Ending /\ Piped' /\ closing'
  <2>1. \A k \in Requests : request[k].state # "resolved"
    BY <1>2 DEF NoneSettled, Settled
  <2>2. CASE Exit /\ closing' = TRUE
    BY <1>1, <1>2, <2>1, <2>2, ExitEffect DEF Piped
  <2>3. CASE child = 0 /\ closing' = TRUE /\ UNCHANGED <<child, starting, proc, request, inbox, out>>
    <3>1. Lines = {} /\ Inbox = {} /\ Lines' = {} /\ Inbox' = {}
      BY <1>1, <1>2, <2>3, Pipes DEF Lines, Inbox
    <3>2. starting = 0
      BY <1>1, <1>2, <2>3 DEF OneChild
    <3>3. \A k \in Requests : request[k].state \notin {"queued", "sent"}
      BY <1>2, <2>3, <3>2 DEF Asked, Shaken
    <3>4. Ending
      BY <2>3, <3>1, <3>2, <3>3 DEF Ending, Same
    <3>5. Piped'
      BY <1>2, <2>3, <3>1, <3>2 DEF Piped, OneChild, Asked, InOrder, Shaken
    <3> QED BY <2>3, <3>4, <3>5
  <2> QED BY <2>2, <2>3 DEF Dispose, Closes
<1>4. \A k \in Turns : turn'[k] = IF turn[k] = "busy" THEN "done" ELSE turn[k]
  BY DEF Dispose
<1>5. \A r \in Runs : /\ run'[r].tracked = FALSE /\ run'[r].phase = run[r].phase /\ run'[r].last = run[r].last
                      /\ run'[r].turn = run[r].turn /\ run'[r].row = run[r].row
  <2>1. \A r \in Runs : run[r] \in RunType /\ run'[r] = [run[r] EXCEPT !.tracked = FALSE]
    BY <1>1 DEF Dispose
  <2> SUFFICES ASSUME NEW r \in Runs
               PROVE  /\ run'[r].tracked = FALSE /\ run'[r].phase = run[r].phase
                      /\ run'[r].last = run[r].last /\ run'[r].turn = run[r].turn
                      /\ run'[r].row = run[r].row
    OBVIOUS
  <2>2. LET x == [run[r] EXCEPT !.tracked = FALSE] IN
        /\ x.tracked = FALSE /\ x.phase = run[r].phase /\ x.last = run[r].last
        /\ x.turn = run[r].turn /\ x.row = run[r].row
    BY <2>1, RunLeftParts
  <2> QED BY <2>1, <2>2
<1>6. \A q \in Runs :
       \/ stop'[q] = stop[q]
       \/ /\ stop'[q].step \in {"none", "told"} /\ stop'[q].stopped = FALSE
          /\ stop'[q].step = "told" => stop[q].step = "interrupt" /\ stop'[q].id = stop[q].id
  <2> SUFFICES ASSUME NEW q \in Runs
               PROVE  \/ stop'[q] = stop[q]
                      \/ /\ stop'[q].step \in {"none", "told"} /\ stop'[q].stopped = FALSE
                         /\ stop'[q].step = "told" => stop[q].step = "interrupt" /\ stop'[q].id = stop[q].id
    OBVIOUS
  <2>1. stop'[q] = Told(stop, stop[q].on, FALSE)[q]
    BY DEF Dispose
  <2>2. LET x == Told(stop, stop[q].on, FALSE)[q] IN
        \/ x = stop[q]
        \/ /\ x.step \in {"none", "told"} /\ x.stopped = FALSE
           /\ x.step = "told" => stop[q].step = "interrupt" /\ x.id = stop[q].id
    BY <1>1, ToldParts
  <2> QED BY <2>1, <2>2
<1> QED BY <1>2, <1>3, <1>4, <1>5, <1>6 DEF Dispose, Disposing, history

LEMMA LineKnown ==
  ASSUME TypeOK, Good, NEW x \in Lines
  PROVE  /\ x \in MessageType /\ x.turn \in Turns \cup {0} /\ x.id \in Requests \cup {0}
         /\ x.kind \in {"result", "error", "started", "completed"}
         /\ x.kind \in Answers => x.id \in Requests /\ x.id \notin Inbox
         /\ x.kind \notin Answers => x.id = 0 /\ x.turn # 0
         /\ x.turn # 0 => turn[x.turn] # "none"
         /\ x.kind = "completed" => turn[x.turn] = "done"
<1>1. x \in MessageType
  BY Pipes, TypeParts DEF Good, Connected
<1>2. x.turn \in Turns \cup {0} /\ x.id \in Requests \cup {0} /\ x.kind \in {"result", "error", "started", "completed"}
  BY <1>1 DEF MessageType
<1> QED BY <1>1, <1>2 DEF Good, Connected, AnswersKnown, NewsKnown

LEMMA BehindAnswer ==
  ASSUME TypeOK, Good, NEW x \in Lines, NEW i \in Requests, i \in Inbox, NEW ok \in BOOLEAN,
         NEW t \in Turns \cup {0}, t # 0 => x.turn <= t
  PROVE  Behind(x, Answer(i, ok, t))
<1>1. Answer(i, ok, t).id = i /\ Answer(i, ok, t).turn = t
      /\ Answer(i, ok, t).kind = (IF ok THEN "result" ELSE "error")
  BY DEF Answer
<1>2. x.id # i
  BY LineKnown, Numbers
<1> QED BY <1>1, <1>2 DEF Behind

LEMMA BehindNews ==
  ASSUME TypeOK, Good, NEW x \in Lines, NEW k \in Turns, NEW kind \in {"started", "completed"},
         x.turn <= k, x # News(kind, k), ~(x.kind = "completed" /\ x.turn = k /\ kind = "started")
  PROVE  Behind(x, News(kind, k))
<1>1. News(kind, k).turn = k /\ News(kind, k).kind = kind
  BY DEF News
<1>2. kind \notin Answers
  BY DEF Answers
<1> QED BY <1>1, <1>2 DEF Behind

\* Messages of one write
LEMMA BehindEach ==
  ASSUME NEW i \in Requests, NEW k \in Turns, NEW t \in {0, k}, NEW kind \in {"started", "completed"}
  PROVE  /\ Behind(Answer(i, TRUE, t), News(kind, k)) /\ Behind(News(kind, k), Answer(i, TRUE, t))
         /\ Behind(News("started", k), News("completed", k))
BY Numbers DEF Behind, Answer, News, Answers, Turns

LEMMA HandlesWhenShaken ==
  ASSUME TypeOK, Good, NEW i, i \in Inbox
  PROVE  starting = 0 /\ i \in Requests
BY Pipes, TypeParts DEF Good, Connected, OneChild

LEMMA InInbox == \A c \in Children : \A i \in inbox[c] : i \in Inbox
BY DEF Inbox

LEMMA ReplyStep ==
  ASSUME TypeOK, Good, NEW c \in Children, NEW i \in Requests, NEW ok \in BOOLEAN, i \in inbox[c],
         Writes(c, i, <<Answer(i, ok, 0)>>), UNCHANGED turn, ok => request[i].method # "turn/start",
         UNCHANGED <<provider, ended, history>>
  PROVE  Replying(i, ok) /\ Piped'
<1>1. i \in Inbox /\ starting = 0
  BY InInbox, HandlesWhenShaken
<1>2. Answer(i, ok, 0) \in MessageType
  BY MessageValues
<1>3. Ordered(<<Answer(i, ok, 0)>>) /\ LineSet(<<Answer(i, ok, 0)>>) = {Answer(i, ok, 0)}
      /\ <<Answer(i, ok, 0)>> \in Seq(MessageType)
  BY <1>2, OrderedOne
<1>4. \A x \in Lines : Behind(x, Answer(i, ok, 0))
  BY <1>1, BehindAnswer
<1>5. Writing(i, {Answer(i, ok, 0)}) /\ Piped'
  <2>1. \A x \in Lines, y \in LineSet(<<Answer(i, ok, 0)>>) : Behind(x, y)
    BY <1>3, <1>4
  <2>2. ConnectionTypes /\ OneChild /\ Asked /\ InOrder
    BY PipedFrom, TypeParts
  <2> QED BY <1>1, <1>3, <2>1, <2>2, WriteEffect DEF Piped
<1> QED BY <1>1, <1>5 DEF Replying, provider, history

LEMMA BeginStep ==
  ASSUME TypeOK, Good, NEW c \in Children, NEW i \in Requests, NEW n \in Turns, Begins(c, i, n),
         UNCHANGED <<provider, ended, history>>
  PROVE  TurnBegins(i, n) /\ Piped'
<1> DEFINE s == News("started", n)
           e == News("completed", n)
           a == Answer(i, TRUE, n)
<1>1. /\ i \in inbox[c] /\ i \in Inbox /\ starting = 0 /\ request[i].method = "turn/start" /\ ~Busy /\ NextTurn(n)
      /\ turn \in [Turns -> {"none", "busy", "done"}]
  BY InInbox, HandlesWhenShaken, TypeParts DEF Begins
<1>2. s \in MessageType /\ e \in MessageType /\ a \in MessageType
  BY MessageValues
<1>3. Behind(s, a) /\ Behind(a, s) /\ Behind(s, e) /\ Behind(e, a)
  BY BehindEach
<1>4. \A x \in Lines : x.turn <= n /\ x.turn # n
  <2> SUFFICES ASSUME NEW x \in Lines PROVE x.turn <= n /\ x.turn # n
    OBVIOUS
  <2>1. x.turn \in Turns \cup {0} /\ (x.turn # 0 => turn[x.turn] # "none")
    BY LineKnown
  <2>2. x.turn # 0 => ~(n < x.turn) /\ x.turn # n
    BY <1>1, <2>1 DEF NextTurn, Good, TurnsInOrder
  <2> QED BY <2>1, <2>2 DEF Turns
<1>5. \A x \in Lines : Behind(x, s) /\ Behind(x, e) /\ Behind(x, a)
  <2> SUFFICES ASSUME NEW x \in Lines PROVE Behind(x, s) /\ Behind(x, e) /\ Behind(x, a)
    OBVIOUS
  <2>1. x.turn <= n /\ x.turn # n
    BY <1>4
  <2>2. s.turn = n /\ e.turn = n
    BY DEF News
  <2>3. x # s /\ x # e
    BY <2>1, <2>2
  <2> HIDE DEF s, e, a
  <2>4. Behind(x, s)
    BY <2>1, <2>3, BehindNews DEF s
  <2>5. Behind(x, e)
    BY <2>1, <2>3, BehindNews DEF e
  <2>6. Behind(x, a)
    BY <1>1, <2>1, BehindAnswer DEF a
  <2> QED BY <2>4, <2>5, <2>6
<1> HIDE DEF s, e, a
<1>6. ASSUME NEW m \in Seq(MessageType), Ordered(m), Writes(c, i, m), LineSet(m) \subseteq {s, e, a}
      PROVE  Writing(i, LineSet(m)) /\ Piped'
  BY <1>1, <1>5, <1>6, WriteEffect, PipedFrom, TypeParts DEF Piped
<1>7. /\ <<s, a>> \in Seq(MessageType) /\ Ordered(<<s, a>>) /\ LineSet(<<s, a>>) = {s, a}
      /\ <<a, s>> \in Seq(MessageType) /\ Ordered(<<a, s>>) /\ LineSet(<<a, s>>) = {s, a}
  <2>1. <<a, s>> \in Seq(MessageType) /\ LineSet(<<a, s>>) = {a, s} /\ Ordered(<<a, s>>)
    BY <1>2, <1>3, OrderedTwo
  <2>2. <<s, a>> \in Seq(MessageType) /\ LineSet(<<s, a>>) = {s, a} /\ Ordered(<<s, a>>)
    BY <1>2, <1>3, OrderedTwo
  <2> QED BY <2>1, <2>2
<1>8. <<s, e, a>> \in Seq(MessageType) /\ Ordered(<<s, e, a>>) /\ LineSet(<<s, e, a>>) = {s, e, a}
  BY <1>2, <1>3, OrderedThree
<1>9. CASE turn' = [turn EXCEPT ![n] = "busy"] /\ (Writes(c, i, <<s, a>>) \/ Writes(c, i, <<a, s>>))
  <2>1. Writing(i, {s, a}) /\ Piped'
    BY <1>6, <1>7, <1>9
  <2>2. turn'[n] = "busy" /\ \A k \in Turns \ {n} : turn'[k] = turn[k]
    BY <1>1, <1>9
  <2> QED BY <1>1, <2>1, <2>2 DEF TurnBegins, provider, history, s, a
<1>10. CASE turn' = [turn EXCEPT ![n] = "done"] /\ Writes(c, i, <<s, e, a>>)
  <2>1. Writing(i, {s, e, a}) /\ Piped'
    BY <1>6, <1>8, <1>10
  <2>2. turn'[n] = "done" /\ \A k \in Turns \ {n} : turn'[k] = turn[k]
    BY <1>1, <1>10
  <2> QED BY <1>1, <2>1, <2>2 DEF TurnBegins, provider, history, s, e, a
<1> QED BY <1>9, <1>10 DEF Begins, s, e, a

LEMMA EndStep ==
  ASSUME TypeOK, Good, NEW c \in Children, NEW i \in Requests \cup {0}, NEW k \in Turns, Ends(c, i, k),
         UNCHANGED <<provider, ended, history>>
  PROVE  TurnStops(i, k) /\ Piped'
<1> DEFINE e == News("completed", k)
           a == Answer(i, TRUE, 0)
<1>1. /\ turn[k] = "busy" /\ turn'[k] = "done" /\ \A l \in Turns \ {k} : turn'[l] = turn[l]
      /\ starting = 0
  BY TypeParts DEF Ends, Good, LoadedFirst
<1>2. e \in MessageType
  BY MessageValues, Numbers
<1>3. \A x \in Lines : x.turn <= k /\ Behind(x, e)
  <2> SUFFICES ASSUME NEW x \in Lines PROVE x.turn <= k /\ Behind(x, e)
    OBVIOUS
  <2>1. x.turn \in Turns \cup {0} /\ (x.turn # 0 => turn[x.turn] # "none")
        /\ (x.kind = "completed" => turn[x.turn] = "done")
    BY LineKnown
  <2>2. x.turn <= k
    BY <1>1, <2>1 DEF Good, TurnsInOrder, Turns
  <2>3. x # e
    <3>1. e.kind = "completed" /\ e.turn = k
      BY DEF News
    <3> QED BY <1>1, <2>1, <3>1
  <2> QED BY <2>2, <2>3, BehindNews
<1>4. CASE i = 0 /\ Writes(c, 0, <<e>>)
  <2> HIDE DEF e
  <2>1. <<e>> \in Seq(MessageType) /\ Ordered(<<e>>) /\ LineSet(<<e>>) = {e}
    BY <1>2, OrderedOne
  <2>2. Writing(0, {e}) /\ Piped'
    <3>1. \A x \in Lines, y \in LineSet(<<e>>) : Behind(x, y)
      BY <1>3, <2>1
    <3>2. ConnectionTypes /\ OneChild /\ Asked /\ InOrder
      BY PipedFrom, TypeParts
    <3> QED BY <1>1, <1>4, <2>1, <3>1, <3>2, WriteEffect DEF Piped
  <2> QED BY <1>1, <1>4, <2>2 DEF TurnStops, provider, history, e
<1>5. CASE /\ i \in inbox[c] /\ request[i].method = "turn/interrupt"
           /\ Writes(c, i, <<a, e>>) \/ Writes(c, i, <<e, a>>)
  <2>1. i \in Inbox /\ i \in Requests
    BY <1>5, InInbox, HandlesWhenShaken
  <2>2. a \in MessageType
    BY <2>1, MessageValues
  <2>3. Behind(a, e) /\ Behind(e, a)
    BY <2>1, BehindEach
  <2>4. \A x \in Lines : Behind(x, a)
    BY <2>1, BehindAnswer
  <2> HIDE DEF a, e
  <2>5. /\ <<a, e>> \in Seq(MessageType) /\ Ordered(<<a, e>>) /\ LineSet(<<a, e>>) = {a, e}
    BY <1>2, <2>2, <2>3, OrderedTwo
  <2>6. /\ <<e, a>> \in Seq(MessageType) /\ Ordered(<<e, a>>) /\ LineSet(<<e, a>>) = {e, a}
    BY <1>2, <2>2, <2>3, OrderedTwo
  <2>7. ASSUME NEW m \in Seq(MessageType), Ordered(m), Writes(c, i, m), LineSet(m) = {e, a}
        PROVE  Writing(i, {e, a}) /\ Piped'
    <3>1. \A x \in Lines, y \in LineSet(m) : Behind(x, y)
      BY <1>3, <2>4, <2>7
    <3>2. ConnectionTypes /\ OneChild /\ Asked /\ InOrder
      BY PipedFrom, TypeParts
    <3>3. Writing(i, LineSet(m)) /\ OneChild' /\ Asked' /\ InOrder'
      BY <1>1, <2>1, <2>7, <3>1, <3>2, WriteEffect
    <3> QED BY <2>7, <3>3 DEF Piped
  <2>8. Writing(i, {e, a}) /\ Piped'
    <3>1. LineSet(<<a, e>>) = {e, a}
      BY <2>5
    <3> QED BY <1>5, <2>5, <2>6, <2>7, <3>1
  <2> QED BY <1>1, <1>5, <2>1, <2>8 DEF TurnStops, provider, history, a, e
<1> QED BY <1>4, <1>5 DEF Ends

LEMMA NextSteps ==
  ASSUME TypeOK, Good, [Next]_vars, ~crossed'
  PROVE  Steps /\ Piped'
<1>1. CASE UNCHANGED vars
  <2>1. UNCHANGED connection
    BY <1>1 DEF vars, connection
  <2> QED BY <1>1, <2>1, QuietPipes DEF Steps
<1>2. CASE Line
  <2>1. PICK m : ReadStarted(m) \/ ReadCompleted(m) \/ (ReadAnswer(m) /\ UNCHANGED <<provider, truth, history>>)
    BY <1>2 DEF Line
  <2>2. ReadCompleted(m) => ~crossed
    BY DEF ReadCompleted, history
  <2> QED BY <2>1, <2>2, StartedStep, CompletedStep, AnswerStep DEF Steps
<1>3. CASE Continuation
  <2>1. \A r \in Runs, i \in Requests : ThreadAnswered(r, i) => Steps /\ Piped'
    BY ThreadStep DEF Steps
  <2>2. \A r \in Runs : TurnAnswered(r) => Steps /\ Piped'
    BY TurnStep DEF Steps
  <2>3. \A r \in Runs : JobFails(r) => Steps /\ Piped'
    BY FailStep DEF Steps
  <2>4. \A r \in Runs : InterruptAnswered(r) => Steps /\ Piped'
    BY InterruptStep DEF Steps
  <2> QED BY <1>3, <2>1, <2>2, <2>3, <2>4 DEF Continuation
<1>4. CASE Child
  <2>1. /\ UNCHANGED <<provider, ended, history>>
        /\ \E c \in Children :
              \/ \E i \in Requests : \/ Refuses(c, i) \/ Agrees(c, i)
                                      \/ \E n \in Turns : Begins(c, i, n)
              \/ \E i \in Requests \cup {0}, k \in Turns : Ends(c, i, k)
    BY <1>4, PipedFrom, ChildDoes
  <2>2. ASSUME NEW c \in Children, NEW i \in Requests, Refuses(c, i) PROVE Steps /\ Piped'
    <3>1. Replying(i, FALSE) /\ Piped'
      BY <2>1, <2>2, ReplyStep DEF Refuses
    <3> QED BY <3>1 DEF Steps
  <2>3. ASSUME NEW c \in Children, NEW i \in Requests, Agrees(c, i) PROVE Steps /\ Piped'
    <3>1. Replying(i, TRUE) /\ Piped'
      BY <2>1, <2>3, ReplyStep DEF Agrees
    <3> QED BY <3>1 DEF Steps
  <2>4. ASSUME NEW c \in Children, NEW i \in Requests, NEW n \in Turns, Begins(c, i, n) PROVE Steps /\ Piped'
    BY <2>1, <2>4, BeginStep DEF Steps
  <2>5. ASSUME NEW c \in Children, NEW i \in Requests \cup {0}, NEW k \in Turns, Ends(c, i, k)
        PROVE Steps /\ Piped'
    BY <2>1, <2>5, EndStep DEF Steps
  <2> QED BY <2>1, <2>2, <2>3, <2>4, <2>5
<1>5. CASE ~Continues /\ Event
  <2>1. \A i \in Requests : RequestTimesOut(i) => Steps /\ Piped'
    BY <1>5, ExpireStep DEF Steps
  <2>2. \A r \in Runs : StopTimesOut(r) => Steps /\ Piped'
    BY GiveUpStep DEF Steps
  <2>3. \A ok \in BOOLEAN : HandshakeEnds(ok) => Steps /\ Piped'
    BY <1>5, GreetStep DEF Steps
  <2>4. \A i \in Requests : Start(i) => Steps /\ Piped'
    BY <1>5, StartStep DEF Steps
  <2>5. \A r \in Runs, i \in Requests : Stop(r, i) => Steps /\ Piped'
    BY <1>5, StopStep DEF Steps
  <2>6. \A r, q \in Runs, i \in Requests : Followup(r, q, i) => Steps /\ Piped'
    BY <1>5, FollowupStep DEF Steps
  <2>7. \A r \in Runs : Close(r) => Steps /\ Piped'
    BY CloseStep DEF Steps
  <2>8. ChildExits \/ Dispose => Steps /\ Piped'
    BY <1>5, ExitStep, DisposeStep DEF Steps
  <2> QED BY <1>5, <2>1, <2>2, <2>3, <2>4, <2>5, <2>6, <2>7, <2>8 DEF Event, Timeout
<1> QED BY <1>1, <1>2, <1>3, <1>4, <1>5 DEF Next

-----------------------------------------------------------------------------
(* The connection and the turns over a step *)

LEMMA GoodParts ==
  ASSUME Good
  PROVE  /\ OneChild /\ Asked /\ InOrder /\ AnswersKnown /\ InterruptsName /\ NewsKnown /\ TurnsInOrder
         /\ LoadedFirst /\ JobsOwn /\ FirstRequest /\ OneFollower /\ Phases /\ AnswersFit
         /\ EndsReported /\ StopsFit /\ Followed
BY DEF Good, Connected

\* Which steps ask, and what steps of the child leave alone
LEMMA AskersAsk ==
  \A r, i : Starting(i) \/ Following(r, i) \/ Resuming(r, i) \/ Stopping(r, i)
              => \E e, j, method, t : Asking(e, j, method, t)
<1>1. \A i : Starting(i) => \E e, j, method, t : Asking(e, j, method, t)
  BY DEF Starting
<1>2. \A r, i : Following(r, i) => \E e, j, method, t : Asking(e, j, method, t)
  BY DEF Following
<1>3. \A r, i : Resuming(r, i) => \E e, j, method, t : Asking(e, j, method, t)
  BY DEF Resuming
<1>4. \A r, i : Stopping(r, i) => \E e, j, method, t : Asking(e, j, method, t)
  BY DEF Stopping
<1> QED BY <1>1, <1>2, <1>3, <1>4

LEMMA WritersWrite ==
  \A i, n : Replying(i, n) \/ TurnBegins(i, n) \/ TurnStops(i, n)
              => request' = request /\ Lines \subseteq Lines'
<1>1. \A i, S : Writing(i, S) => request' = request /\ Lines \subseteq Lines'
  BY DEF Writing
<1>2. \A i, n : Replying(i, n) => \E S : Writing(i, S)
  BY DEF Replying
<1>3. \A i, n : TurnBegins(i, n) => \E S : Writing(i, S)
  BY DEF TurnBegins
<1>4. \A i, n : TurnStops(i, n) => \E S : Writing(i, S)
  BY DEF TurnStops
<1> QED BY <1>1, <1>2, <1>3, <1>4

LEMMA MessageParts ==
  /\ \A i, ok, k : /\ Answer(i, ok, k).kind = (IF ok THEN "result" ELSE "error")
                   /\ Answer(i, ok, k).id = i /\ Answer(i, ok, k).turn = k
  /\ \A kind, k : News(kind, k).kind = kind /\ News(kind, k).id = 0 /\ News(kind, k).turn = k
BY DEF Answer, News

\* What a step does to the connection and to the turns
Moves ==
  \/ /\ UNCHANGED turn
     /\ \/ \E i, j, method, t :
             /\ Asking(i, j, method, t) /\ (method = "turn/interrupt" => t # 0)
             /\ method = "turn/start" => Shaken /\ loaded' # 0
        \/ \E j \in Requests, state \in {"done", "rejected"} :
             Settling(j, state) /\ request[j].state \in {"sent", "resolved", "rejected"}
        \/ Shaking
        \/ request' = request /\ Lines' = Lines /\ Inbox' = Inbox
        \/ \E m : Reading(m) /\ (Taking(m) \/ (request' = request /\ m.kind \notin Answers))
        \/ \E i, ok : Replying(i, ok)
  \/ Ending /\ \A k \in Turns : turn'[k] = IF turn[k] = "busy" THEN "done" ELSE turn[k]
  \/ \E i, n : n \in Turns /\ TurnBegins(i, n)
  \/ \E i, k : k \in Turns /\ TurnStops(i, k)

LEMMA StepMoves ==
  ASSUME TypeOK, Good, Steps
  PROVE  Moves
<1>1. \A r \in Runs : job[r].step # "none" => job[r].id \in Requests
  BY DEF TypeOK, IdsKnown
<1>2. \A r \in Runs : stop[r].step \in {"interrupt", "told"} => stop[r].id \in Requests
  BY DEF TypeOK, IdsKnown
<1>3. CASE UNCHANGED vars
  BY <1>3 DEF vars, Moves, Lines, Inbox
<1>4. CASE Greeting \/ Dying \/ Disposing
  BY <1>4 DEF Greeting, Dying, Disposing, Moves
<1>5. ASSUME NEW r \in Runs, Closing \/ GivingUp(r) PROVE Moves
  BY <1>5 DEF Closing, GivingUp, Moves, connection, Lines, Inbox
<1>6. ASSUME NEW i \in Requests, Starting(i) PROVE Moves
  <2>1. Asking(i, 0, "thread/start", 0) /\ UNCHANGED turn
    BY <1>6 DEF Starting
  <2> QED BY <2>1 DEF Moves
<1>7. ASSUME NEW i \in Requests, Expiring(i) PROVE Moves
  BY <1>7 DEF Expiring, Moves
<1>8. ASSUME NEW i \in Requests, NEW ok \in BOOLEAN, Replying(i, ok) PROVE Moves
  <2>1. UNCHANGED turn
    BY <1>8 DEF Replying
  <2> QED BY <1>8, <2>1 DEF Moves
<1>9. ASSUME NEW r \in Runs, NEW i \in Requests, Following(r, i) PROVE Moves
  <2>1. /\ UNCHANGED turn /\ loaded' = loaded
        /\ \/ Asking(i, 0, "turn/start", 0) /\ loaded # 0 /\ loaded = child
           \/ Asking(i, 0, "thread/resume", 0)
    BY <1>9 DEF Following
  <2>2. loaded # 0 => Shaken
    BY GoodParts DEF LoadedFirst, Shaken
  <2> QED BY <2>1, <2>2 DEF Moves
<1>10. ASSUME NEW r \in Runs, NEW i \in Requests, Resuming(r, i) PROVE Moves
  <2>1. UNCHANGED turn /\ Asking(i, job[r].id, "turn/start", 0) /\ loaded' = child
    BY <1>10 DEF Resuming
  <2>2. job[r].id \in Requests /\ request[job[r].id].state = "resolved" /\ Asked
    BY <1>1, <1>10, GoodParts DEF Resuming
  <2>3. Shaken
    BY <2>2 DEF Asked
  <2> QED BY <2>1, <2>3 DEF Moves, Shaken
<1>11. ASSUME NEW r \in Runs, NEW i \in Requests, Stopping(r, i) PROVE Moves
  <2>1. UNCHANGED turn /\ Asking(i, 0, "turn/interrupt", run[bound].turn) /\ bound \in Runs
        /\ run[bound].phase = "running"
    BY <1>11, TypeParts DEF Stopping
  <2>2. run[bound].turn # 0
    BY <2>1, GoodParts DEF Phases
  <2> QED BY <2>1, <2>2 DEF Moves
<1>12. ASSUME NEW r \in Runs, Beginning(r) \/ Failing(r) PROVE Moves
  <2>1. /\ job[r].id \in Requests /\ Settling(job[r].id, "done") /\ UNCHANGED turn
        /\ request[job[r].id].state \in {"sent", "resolved", "rejected"}
    BY <1>1, <1>12 DEF Beginning, Failing, Settled
  <2> QED BY <2>1 DEF Moves
<1>13. ASSUME NEW r \in Runs, Interrupting(r) PROVE Moves
  <2>1. /\ stop[r].id \in Requests /\ Settling(stop[r].id, "done") /\ UNCHANGED turn
        /\ request[stop[r].id].state \in {"sent", "resolved", "rejected"}
    BY <1>2, <1>13 DEF Interrupting, Settled
  <2> QED BY <2>1 DEF Moves
<1>14. ASSUME NEW m \in MessageType, Hearing(m) \/ Completing(m) PROVE Moves
  <2>1. Reading(m) /\ request' = request /\ m.kind \notin Answers /\ UNCHANGED turn
    BY <1>14 DEF Hearing, Completing, Answers
  <2> QED BY <2>1 DEF Moves
<1>15. ASSUME NEW m \in MessageType, Answering(m) PROVE Moves
  BY <1>15 DEF Answering, Moves
<1>16. ASSUME NEW i, NEW n \in Turns, TurnBegins(i, n) \/ TurnStops(i, n) PROVE Moves
  BY <1>16 DEF Moves
<1> QED BY <1>3, <1>4, <1>5, <1>6, <1>7, <1>8, <1>9, <1>10, <1>11, <1>12, <1>13, <1>14, <1>15, <1>16
        DEF Steps

LEMMA InterruptsNameStep ==
  ASSUME TypeOK, Good, Moves
  PROVE  InterruptsName'
<1> SUFFICES ASSUME NEW k \in Requests, request'[k].method = "turn/interrupt",
                    request'[k].state \in {"queued", "sent"} \/ k \in Inbox'
             PROVE  request'[k].turn # 0
  BY DEF InterruptsName
<1>1. InterruptsName /\ AnswersKnown
  BY GoodParts
<1>2. ASSUME request'[k].method = request[k].method, request'[k].turn = request[k].turn,
             request[k].state \in {"queued", "sent"} \/ k \in Inbox
      PROVE  request'[k].turn # 0
  BY <1>1, <1>2 DEF InterruptsName
<1>3. ASSUME NEW i, NEW j, NEW method, NEW t, Asking(i, j, method, t), method = "turn/interrupt" => t # 0
      PROVE  request'[k].turn # 0
  <2>1. CASE k = i
    BY <1>3, <2>1 DEF Asking
  <2>2. CASE k # i
    <3>1. Same(k) /\ (request'[k].state = "done" \/ request'[k].state = request[k].state)
          /\ (k \in Inbox' => k \in Inbox)
      BY <1>3, <2>2 DEF Asking
    <3> QED BY <1>2, <3>1 DEF Same
  <2> QED BY <2>1, <2>2
<1>4. ASSUME NEW j \in Requests, NEW state \in {"done", "rejected"}, Settling(j, state)
      PROVE  request'[k].turn # 0
  <2>1. Same(k) /\ (request'[k].state = state \/ request'[k].state = request[k].state) /\ Inbox' = Inbox
    BY <1>4 DEF Settling
  <2> QED BY <1>2, <2>1 DEF Same
<1>5. CASE Shaking
  <2>1. Same(k) /\ (request[k].state \in {"queued", "sent"})
    BY <1>5 DEF Shaking
  <2> QED BY <1>2, <2>1 DEF Same
<1>6. CASE Ending
  <2>1. request'[k].state \notin {"queued", "sent"} /\ Inbox' = {}
    BY <1>6 DEF Ending
  <2> QED BY <2>1
<1>7. CASE request' = request /\ Inbox' \subseteq Inbox
  BY <1>2, <1>7
<1>8. ASSUME NEW m, Reading(m), Taking(m) PROVE request'[k].turn # 0
  <2>1. m \in Lines /\ Inbox' = Inbox /\ m.kind \in Answers
    BY <1>8 DEF Reading, Taking
  <2>2. m.id \notin Inbox
    BY <1>1, <2>1 DEF AnswersKnown
  <2>3. CASE k # m.id
    <3>1. Same(k) /\ request'[k].state = request[k].state
      BY <1>8, <2>3 DEF Taking
    <3> QED BY <1>2, <2>1, <3>1 DEF Same
  <2>4. CASE k = m.id /\ request[k].state # "sent"
    <3>1. Same(k) /\ request'[k].state = request[k].state
      BY <1>8, <2>4 DEF Taking
    <3> QED BY <1>2, <2>1, <3>1 DEF Same
  <2>5. CASE k = m.id /\ request[k].state = "sent"
    <3>1. request'[k].state \in {"resolved", "rejected"}
      BY <1>8, <2>5 DEF Taking
    <3> QED BY <2>1, <2>2, <2>5, <3>1
  <2> QED BY <2>3, <2>4, <2>5
<1>9. ASSUME NEW i, NEW n, (\E ok : Replying(i, ok)) \/ TurnBegins(i, n) \/ TurnStops(i, n)
      PROVE  request' = request /\ Inbox' \subseteq Inbox
  BY <1>9 DEF Replying, TurnBegins, TurnStops, Writing
<1>10. ASSUME NEW m, Reading(m) PROVE Inbox' = Inbox
  BY <1>10 DEF Reading
<1> QED BY <1>3, <1>4, <1>5, <1>6, <1>7, <1>8, <1>9, <1>10 DEF Moves

LEMMA AnswersKnownStep ==
  ASSUME TypeOK, Good, Moves, Piped'
  PROVE  AnswersKnown'
<1>1. AnswersKnown /\ Asked
  BY GoodParts
<1> DEFINE Known(x) ==
      /\ x.id \in Requests /\ request'[x.id].state \in {"sent", "rejected", "done"}
      /\ x.id \notin Inbox'
      /\ x.turn # 0 <=> x.kind = "result" /\ request'[x.id].method = "turn/start"
<1> SUFFICES ASSUME NEW x \in Lines', x.kind \in Answers PROVE Known(x)
  BY DEF AnswersKnown
<1>2. ASSUME x \in Lines PROVE
        /\ x.id \in Requests /\ request[x.id].state \in {"sent", "rejected", "done"}
        /\ x.id \notin Inbox
        /\ x.turn # 0 <=> x.kind = "result" /\ request[x.id].method = "turn/start"
  BY <1>1, <1>2 DEF AnswersKnown
<1>3. ASSUME NEW i, NEW j, NEW method, NEW t, Asking(i, j, method, t)
      PROVE  Known(x)
  <2>1. x \in Lines /\ x.id # i
    BY <1>2, <1>3 DEF Asking
  <2>2. Same(x.id) /\ (request'[x.id].state = "done" \/ request'[x.id].state = request[x.id].state)
        /\ x.id \notin Inbox'
    BY <1>2, <1>3, <2>1 DEF Asking
  <2> QED BY <1>2, <2>1, <2>2 DEF Same
<1>4. ASSUME NEW j \in Requests, NEW state \in {"done", "rejected"}, Settling(j, state)
      PROVE  Known(x)
  <2>1. x \in Lines /\ Inbox' = Inbox
    BY <1>4 DEF Settling
  <2>2. Same(x.id) /\ (request'[x.id].state = state \/ request'[x.id].state = request[x.id].state)
    BY <1>2, <1>4, <2>1 DEF Settling
  <2> QED BY <1>2, <2>1, <2>2 DEF Same
<1>5. CASE Shaking \/ Ending
  BY <1>5 DEF Shaking, Ending
<1>6. CASE request' = request /\ Lines' = Lines /\ Inbox' = Inbox
  BY <1>2, <1>6
<1>7. ASSUME NEW m, Reading(m), Taking(m) \/ request' = request PROVE Known(x)
  <2>1. x \in Lines /\ Inbox' = Inbox /\ Behind(m, x)
    BY <1>7 DEF Reading
  <2>2. Taking(m) => x.id # m.id
    BY <2>1 DEF Taking, Behind
  <2>3. request'[x.id].state = request[x.id].state /\ request'[x.id].method = request[x.id].method
    BY <1>2, <1>7, <2>1, <2>2 DEF Taking, Same
  <2> QED BY <1>2, <2>1, <2>3
<1>8. ASSUME request' = request, Inbox' \subseteq Inbox, x \in Lines PROVE Known(x)
  BY <1>2, <1>8
<1>9. ASSUME NEW i, NEW ok, Replying(i, ok) PROVE Known(x)
  <2>1. request' = request /\ Inbox' = Inbox \ {i} /\ Lines' = Lines \cup {Answer(i, ok, 0)}
        /\ i \in Requests /\ request[i].state \in {"sent", "rejected", "done"}
        /\ (ok => request[i].method # "turn/start")
    BY <1>1, <1>9 DEF Replying, Writing, Asked
  <2>2. CASE x = Answer(i, ok, 0)
    <3>1. x.id = i /\ x.turn = 0 /\ (x.kind = "result" => ok)
      BY <2>2 DEF Answer
    <3> QED BY <2>1, <3>1
  <2> QED BY <1>8, <2>1, <2>2
<1>10. ASSUME NEW i, NEW n \in Turns, TurnBegins(i, n) PROVE Known(x)
  <2>1. request' = request /\ Inbox' = Inbox \ {i}
        /\ Lines' \subseteq Lines \cup {News("started", n), News("completed", n), Answer(i, TRUE, n)}
        /\ i \in Requests /\ request[i].state \in {"sent", "rejected", "done"}
        /\ request[i].method = "turn/start"
    BY <1>1, <1>10 DEF TurnBegins, Writing, Asked
  <2>2. CASE x = Answer(i, TRUE, n)
    <3>1. x.id = i /\ x.turn # 0 /\ x.kind = "result"
      BY <2>2, Numbers DEF Answer
    <3> QED BY <2>1, <3>1
  <2>3. x # News("started", n) /\ x # News("completed", n)
    BY DEF Answers, News
  <2> QED BY <1>8, <2>1, <2>2, <2>3
<1>11. ASSUME NEW i, NEW k \in Turns, TurnStops(i, k) PROVE Known(x)
  <2>1. request' = request /\ Inbox' \subseteq Inbox
    BY <1>11 DEF TurnStops, Writing
  <2>2. x # News("completed", k)
    BY DEF Answers, News
  <2>3. CASE x = Answer(i, TRUE, 0) /\ x \notin Lines
    <3>1. i \in Requests /\ request[i].method = "turn/interrupt" /\ Inbox' = Inbox \ {i} /\ i \in Inbox
      BY <1>11, <2>2, <2>3 DEF TurnStops, Writing
    <3>2. request[i].state \in {"sent", "rejected", "done"}
      BY <1>1, <3>1 DEF Asked
    <3>3. x.id = i /\ x.turn = 0
      BY <2>3 DEF Answer
    <3> QED BY <2>1, <3>1, <3>2, <3>3
  <2>4. x \in Lines \/ x = Answer(i, TRUE, 0)
    BY <1>11, <2>2 DEF TurnStops, Writing
  <2> QED BY <1>8, <2>1, <2>3, <2>4
<1> HIDE DEF Known
<1> QED BY <1>3, <1>4, <1>5, <1>6, <1>7, <1>9, <1>10, <1>11 DEF Moves

\* Lines are only read or written.
LEMMA LinesMove ==
  ASSUME Moves
  PROVE  \/ UNCHANGED turn /\ Lines' = Lines
         \/ UNCHANGED turn /\ \E m : Reading(m)
         \/ UNCHANGED turn /\ \E i, ok : Lines' = Lines \cup {Answer(i, ok, 0)}
         \/ Lines' = {} /\ \A k \in Turns : turn'[k] = turn[k] \/ (turn[k] = "busy" /\ turn'[k] = "done")
         \/ \E i, n : n \in Turns /\ TurnBegins(i, n)
         \/ \E i, k : k \in Turns /\ TurnStops(i, k)
<1> USE DEF Moves
<1>1. \A i, j, method, t : Asking(i, j, method, t) => Lines' = Lines
  BY DEF Asking
<1>2. \A j, state : Settling(j, state) => Lines' = Lines
  BY DEF Settling
<1>3. Shaking => Lines' = Lines
  BY DEF Shaking
<1>4. \A i, ok : Replying(i, ok) => Lines' = Lines \cup {Answer(i, ok, 0)}
  BY DEF Replying, Writing
<1>5. Ending => Lines' = {}
  BY DEF Ending
<1> QED BY <1>1, <1>2, <1>3, <1>4, <1>5

LEMMA NewsKnownStep ==
  ASSUME TypeOK, Good, Moves
  PROVE  NewsKnown'
<1>1. NewsKnown /\ turn \in [Turns -> {"none", "busy", "done"}]
  BY GoodParts, TypeParts
<1> DEFINE Known(x) ==
      /\ x.kind \notin Answers => x.id = 0 /\ x.turn # 0
      /\ x.turn # 0 => turn'[x.turn] # "none"
      /\ x.kind = "started" => turn'[x.turn] = "busy" \/ News("completed", x.turn) \in Lines'
      /\ x.kind = "completed" => turn'[x.turn] = "done"
<1> SUFFICES ASSUME NEW x \in Lines' PROVE Known(x)
  BY DEF NewsKnown
<1>2. ASSUME x \in Lines
      PROVE  /\ x.turn \in Turns \cup {0}
             /\ x.kind \notin Answers => x.id = 0 /\ x.turn # 0
             /\ x.turn # 0 => turn[x.turn] # "none"
             /\ x.kind = "started" => turn[x.turn] = "busy" \/ News("completed", x.turn) \in Lines
             /\ x.kind = "completed" => turn[x.turn] = "done"
  BY <1>1, <1>2, LineKnown DEF NewsKnown
<1>3. CASE UNCHANGED turn /\ Lines' = Lines
  BY <1>2, <1>3
<1>4. ASSUME NEW m, UNCHANGED turn, Reading(m) PROVE Known(x)
  <2>1. x \in Lines /\ Lines' = Lines \ {m} /\ Behind(m, x)
    BY <1>4 DEF Reading
  <2>2. x.kind = "started" => m # News("completed", x.turn)
    BY <2>1, MessageParts DEF Behind
  <2> QED BY <1>2, <1>4, <2>1, <2>2
<1>5. ASSUME NEW i, NEW ok, UNCHANGED turn, Lines' = Lines \cup {Answer(i, ok, 0)} PROVE Known(x)
  <2>1. CASE x = Answer(i, ok, 0)
    <3>1. x.kind \in {"result", "error"} /\ x.turn = 0
      BY <2>1 DEF Answer
    <3> QED BY <3>1 DEF Answers
  <2> QED BY <1>2, <1>5, <2>1
<1>6. ASSUME NEW i, NEW n \in Turns, TurnBegins(i, n) PROVE Known(x)
  <2>1. turn[n] = "none" /\ turn'[n] \in {"busy", "done"} /\ \A k \in Turns \ {n} : turn'[k] = turn[k]
    BY <1>6 DEF TurnBegins, NextTurn
  <2>2. CASE x \in Lines
    <3>1. x.turn # n
      BY <1>2, <2>1, <2>2, Numbers
    <3>2. Lines \subseteq Lines'
      BY <1>6 DEF TurnBegins, Writing
    <3>3. x.turn # 0 => turn'[x.turn] = turn[x.turn]
      BY <1>2, <2>1, <2>2, <3>1
    <3>4. x.kind = "completed" \/ x.kind = "started" => x.turn # 0
      BY <1>2, <2>2 DEF Answers
    <3> QED BY <1>2, <2>2, <3>2, <3>3, <3>4
  <2>3. CASE x \notin Lines
    <3>1. /\ x \in {News("started", n), News("completed", n), Answer(i, TRUE, n)}
          /\ turn'[n] = "busy" => x # News("completed", n)
          /\ turn'[n] = "busy" \/ News("completed", n) \in Lines'
      <4>1. News("started", n).kind = "started" /\ Answer(i, TRUE, n).kind = "result"
            /\ News("completed", n).kind = "completed"
        BY DEF News, Answer
      <4>2. CASE turn'[n] = "busy" /\ Writing(i, {News("started", n), Answer(i, TRUE, n)})
        <5>1. x = News("started", n) \/ x = Answer(i, TRUE, n)
          BY <2>3, <4>2 DEF Writing
        <5> QED BY <4>1, <4>2, <5>1
      <4>3. CASE /\ turn'[n] = "done"
                 /\ Writing(i, {News("started", n), News("completed", n), Answer(i, TRUE, n)})
        BY <2>3, <4>3 DEF Writing
      <4> QED BY <1>6, <4>2, <4>3 DEF TurnBegins
    <3>2. x.turn = n /\ (x.kind \notin Answers => x.id = 0)
      BY <3>1 DEF News, Answer, Answers
    <3>3. x.kind = "completed" => x = News("completed", n)
      BY <3>1 DEF News, Answer
    <3> QED BY <2>1, <3>1, <3>2, <3>3, Numbers
  <2> QED BY <2>2, <2>3
<1>7. ASSUME NEW i, NEW k \in Turns, TurnStops(i, k) PROVE Known(x)
  <2>1. /\ turn[k] = "busy" /\ turn'[k] = "done" /\ \A l \in Turns \ {k} : turn'[l] = turn[l]
        /\ News("completed", k) \in Lines' /\ Lines \subseteq Lines'
    BY <1>7 DEF TurnStops, Writing
  <2>2. CASE x \in Lines
    <3>1. x.turn # 0 => turn'[x.turn] = turn[x.turn] \/ (x.turn = k)
      BY <1>2, <2>1, <2>2
    <3>2. x.kind = "completed" \/ x.kind = "started" => x.turn # 0
      BY <1>2, <2>2 DEF Answers
    <3>3. CASE x.turn # k
      BY <1>2, <2>1, <2>2, <3>1, <3>2, <3>3
    <3>4. CASE x.turn = k
      <4>1. News("completed", x.turn) \in Lines' /\ turn'[x.turn] = "done"
        BY <2>1, <3>4
      <4> QED BY <1>2, <2>2, <4>1
    <3> QED BY <3>3, <3>4
  <2>3. CASE x \notin Lines
    <3>1. x \in {News("completed", k), Answer(i, TRUE, 0)}
      BY <1>7, <2>3 DEF TurnStops, Writing
    <3>2. \/ x.id = 0 /\ x.kind = "completed" /\ x.turn = k
          \/ x.kind = "result" /\ x.turn = 0
      BY <3>1 DEF News, Answer
    <3> QED BY <2>1, <3>2, Numbers DEF Answers
  <2> QED BY <2>2, <2>3
<1>8. CASE Lines' = {}
  BY <1>8
<1> HIDE DEF Known
<1> QED BY <1>3, <1>4, <1>5, <1>6, <1>7, <1>8, LinesMove

LEMMA TurnsInOrderStep ==
  ASSUME TypeOK, Good, Moves
  PROVE  TurnsInOrder'
<1>1. TurnsInOrder /\ turn \in [Turns -> {"none", "busy", "done"}]
  BY GoodParts, TypeParts
<1>2. CASE UNCHANGED turn
  BY <1>1, <1>2 DEF TurnsInOrder
<1>3. CASE \A k \in Turns : turn'[k] = turn[k] \/ (turn[k] = "busy" /\ turn'[k] = "done")
  BY <1>1, <1>3 DEF TurnsInOrder
<1>4. ASSUME NEW i, NEW n \in Turns, TurnBegins(i, n) PROVE TurnsInOrder'
  <2>1. /\ turn[n] = "none" /\ turn'[n] \in {"busy", "done"} /\ \A k \in Turns \ {n} : turn'[k] = turn[k]
        /\ \A k \in Turns : turn[k] # "busy" /\ (k < n => turn[k] # "none")
    BY <1>4 DEF TurnBegins, NextTurn, Busy
  <2>2. \A l \in Turns : turn'[l] # "none" => l <= n
    BY <1>1, <2>1 DEF TurnsInOrder, Turns
  <2> QED BY <1>1, <2>1, <2>2 DEF TurnsInOrder, Turns
<1>5. ASSUME NEW i, NEW k \in Turns, TurnStops(i, k) PROVE TurnsInOrder'
  <2>1. turn[k] = "busy" /\ turn'[k] = "done" /\ \A l \in Turns \ {k} : turn'[l] = turn[l]
    BY <1>5 DEF TurnStops
  <2> QED BY <1>1, <2>1 DEF TurnsInOrder
<1> QED BY <1>2, <1>3, <1>4, <1>5, LinesMove

(* The thread is loaded *)

Loads ==
  /\ loaded # 0 => loaded = child /\ starting = 0
  /\ \A i \in Requests :
       request[i].method = "turn/start" /\ (request[i].state \in {"queued", "sent"} \/ i \in Inbox)
         => loaded # 0
  /\ \A k \in Turns : turn[k] = "busy" => loaded # 0
  /\ \A x \in Lines : x.turn # 0 => loaded # 0
LoadedChild == loaded # 0 /\ bound # 0 => run[bound].child \in {0, child}

\* Nothing is to be done in the thread that was not to be done before.
Unloaded ==
  /\ \A i \in Requests :
       request'[i].method = "turn/start" /\ (request'[i].state \in {"queued", "sent"} \/ i \in Inbox')
         => \/ loaded # 0
            \/ /\ request[i].method = "turn/start"
               /\ request[i].state \in {"queued", "sent"} \/ i \in Inbox
  /\ \A k \in Turns : turn'[k] = "busy" => turn[k] = "busy" \/ loaded # 0
  /\ \A x \in Lines' : x.turn # 0 => x \in Lines \/ loaded # 0

LEMMA ChildKept ==
  ASSUME TypeOK, Good, Steps, loaded # 0, ~Dying, ~Disposing
  PROVE  UNCHANGED <<child, starting>> /\ child # 0 /\ starting = 0
<1>1. child # 0 /\ starting = 0
  BY GoodParts, TypeParts, Numbers DEF LoadedFirst
<1>2. ASSUME NEW r \in Runs, UNCHANGED vars \/ Closing \/ GivingUp(r)
      PROVE  UNCHANGED <<child, starting>>
  BY <1>2 DEF vars, Closing, GivingUp, connection
<1>3. ASSUME NEW r \in Runs, Beginning(r) \/ Failing(r) \/ Interrupting(r)
      PROVE  UNCHANGED <<child, starting>>
  BY <1>3 DEF Beginning, Failing, Interrupting, Settling
<1>4. ASSUME NEW r \in Runs, NEW i, Following(r, i) \/ Resuming(r, i) \/ Stopping(r, i)
      PROVE UNCHANGED <<child, starting>>
  BY <1>1, <1>4 DEF Following, Resuming, Stopping, Asking
<1>5. ASSUME NEW i, Starting(i) \/ Expiring(i) \/ (\E ok \in BOOLEAN : Replying(i, ok))
      PROVE UNCHANGED <<child, starting>>
  BY <1>1, <1>5 DEF Starting, Expiring, Replying, Asking, Settling, Writing
<1>6. ASSUME NEW m, Hearing(m) \/ Completing(m) \/ Answering(m) PROVE UNCHANGED <<child, starting>>
  BY <1>6 DEF Hearing, Completing, Answering, Reading
<1>7. ASSUME NEW i, NEW k, TurnBegins(i, k) \/ TurnStops(i, k) PROVE UNCHANGED <<child, starting>>
  BY <1>7 DEF TurnBegins, TurnStops, Writing
<1>8. ~Greeting
  BY <1>1 DEF Greeting, Shaking
<1> QED BY <1>1, <1>2, <1>3, <1>4, <1>5, <1>6, <1>7, <1>8, Numbers DEF Steps

LEMMA LoadsFrom ==
  ASSUME TypeOK, Good, Steps, Moves, loaded' = loaded, loaded # 0 => UNCHANGED <<child, starting>>
  PROVE  Loads'
<1>1. Loads /\ Asked /\ OneChild /\ TypeOK
  BY GoodParts DEF LoadedFirst, Loads
<1>2. loaded # 0 => child # 0 /\ starting = 0
  BY <1>1, TypeParts, Numbers DEF Loads
<1>3. SUFFICES Unloaded
  BY <1>1, <1>3 DEF Loads, Unloaded
<1>4. ASSUME NEW i, NEW j, NEW method, NEW t, Asking(i, j, method, t), UNCHANGED turn,
             method = "turn/start" => loaded' # 0
      PROVE  Unloaded
  <2>2. ASSUME NEW k \in Requests, request'[k].method = "turn/start",
               request'[k].state \in {"queued", "sent"} \/ k \in Inbox', loaded = 0
        PROVE  request[k].method = "turn/start" /\ (request[k].state \in {"queued", "sent"} \/ k \in Inbox)
    <3>1. k # i
      <4>1. i \in Requests /\ request'[i].method = method
        BY <1>4 DEF Asking
      <4> QED BY <1>4, <2>2, <4>1
    <3>2. Same(k) /\ (k \in Inbox' => k \in Inbox)
          /\ (request'[k].state = request[k].state \/ request'[k].state = "done")
      BY <1>4, <3>1 DEF Asking
    <3> QED BY <2>2, <3>2 DEF Same
  <2>3. Lines' = Lines
    BY <1>4 DEF Asking
  <2> QED BY <1>4, <2>2, <2>3 DEF Unloaded
<1>5. ASSUME NEW j, NEW state \in {"done", "rejected"}, Settling(j, state), UNCHANGED turn
      PROVE  Unloaded
  <2>1. \A k \in Requests : Same(k) /\ (request'[k].state = state \/ request'[k].state = request[k].state)
    BY <1>5 DEF Settling
  <2> QED BY <1>5, <2>1 DEF Settling, Unloaded, Same
<1>6. CASE Shaking /\ UNCHANGED turn
  <2>1. loaded = 0
    BY <1>2, <1>6 DEF Shaking
  <2>2. \A k \in Requests : Same(k) /\ (request'[k].state = request[k].state \/ request[k].state = "queued")
    BY <1>6 DEF Shaking
  <2>3. \A k \in Inbox' : request[k].state = "queued"
    BY <1>6 DEF Shaking
  <2>4. Lines' = {}
    BY <1>6 DEF Shaking
  <2> QED BY <1>6, <2>1, <2>2, <2>3, <2>4 DEF Unloaded, Same
<1>7. ASSUME request' = request, Lines' = Lines, Inbox' = Inbox, UNCHANGED turn PROVE Unloaded
  BY <1>7 DEF Unloaded
<1>8. ASSUME NEW m, Reading(m), Taking(m) \/ request' = request, UNCHANGED turn
      PROVE  Unloaded
  <2>1. Lines' \subseteq Lines /\ Inbox' = Inbox /\ UNCHANGED <<child, starting>>
    BY <1>8 DEF Reading
  <2>2. ASSUME NEW k \in Requests
        PROVE  /\ request'[k].method = request[k].method
               /\ request'[k].state = request[k].state \/ request'[k].state \in {"resolved", "rejected"}
    <3>1. CASE Taking(m)
      BY <3>1 DEF Taking, Same
    <3> QED BY <1>8, <3>1
  <2> QED BY <1>8, <2>1, <2>2 DEF Unloaded
<1>9. ASSUME NEW i, NEW ok, Replying(i, ok), UNCHANGED turn
      PROVE  Unloaded
  <2>1. request' = request /\ Inbox' \subseteq Inbox /\ Lines' = Lines \cup {Answer(i, ok, 0)}
        /\ UNCHANGED <<child, starting>>
    BY <1>9 DEF Replying, Writing
  <2>2. Answer(i, ok, 0).turn = 0
    BY DEF Answer
  <2> QED BY <1>9, <2>1, <2>2 DEF Unloaded
<1>10. ASSUME NEW i, NEW n \in Turns, TurnBegins(i, n)
      PROVE  Unloaded
  <2>1. i \in Inbox /\ i \in Requests /\ request[i].method = "turn/start" /\ UNCHANGED <<child, starting>>
        /\ request' = request /\ Inbox' \subseteq Inbox
    BY <1>10 DEF TurnBegins, Writing
  <2>2. loaded # 0
    BY <1>1, <2>1 DEF Loads
  <2> QED BY <2>1, <2>2 DEF Unloaded
<1>11. ASSUME NEW i, NEW k \in Turns, TurnStops(i, k)
      PROVE  Unloaded
  <2>1. turn[k] = "busy" /\ UNCHANGED <<child, starting>> /\ request' = request /\ Inbox' \subseteq Inbox
    BY <1>11 DEF TurnStops, Writing
  <2>2. loaded # 0
    BY <1>1, <2>1 DEF Loads
  <2> QED BY <2>1, <2>2 DEF Unloaded
<1>12. ASSUME Ending, \A k \in Turns : turn'[k] = IF turn[k] = "busy" THEN "done" ELSE turn[k]
       PROVE  Unloaded
  BY <1>12 DEF Ending, Unloaded
<1> QED BY <1>4, <1>5, <1>6, <1>7, <1>8, <1>9, <1>10, <1>11, <1>12 DEF Moves

LEMMA LoadsStep ==
  ASSUME TypeOK, Good, Steps, Moves
  PROVE  Loads'
<1>1. TypeOK /\ Loads /\ FirstRequest /\ OneChild /\ Asked
  BY GoodParts DEF LoadedFirst, Loads
<1>2. CASE Ending /\ loaded' = 0 /\ \A k \in Turns : turn'[k] # "busy"
  <2>1. \A k \in Requests : request'[k].state \notin {"queued", "sent"}
    BY <1>2 DEF Ending
  <2> QED BY <1>2, <2>1 DEF Loads, Ending
<1>3. ASSUME NEW r \in Runs, NEW i \in Requests, Resuming(r, i) PROVE Loads'
  <2>1. job[r].id \in Requests /\ request[job[r].id].state = "resolved" /\ loaded' = child
    BY <1>1, <1>3 DEF Resuming, TypeOK, IdsKnown
  <2>2. child # 0 /\ starting = 0
    BY <1>1, <2>1 DEF Asked, Shaken
  <2>3. UNCHANGED <<child, starting>>
    BY <1>3, <2>2 DEF Resuming, Asking
  <2> QED BY <2>1, <2>2, <2>3 DEF Loads
<1>4. CASE Dying \/ Disposing
  <2>1. Ending /\ loaded' = 0 /\ \A k \in Turns : turn'[k] = IF turn[k] = "busy" THEN "done" ELSE turn[k]
    BY <1>4 DEF Dying, Disposing
  <2> QED BY <1>2, <2>1
<1>5. CASE ~Dying /\ ~Disposing /\ \A r \in Runs, i \in Requests : ~Resuming(r, i)
  <2>1. loaded' = loaded
    <3>1. ASSUME UNCHANGED vars \/ Greeting \/ Closing \/ \E r \in Runs : GivingUp(r)
          PROVE  loaded' = loaded
      BY <3>1 DEF vars, Greeting, Closing, GivingUp
    <3>2. ASSUME NEW i, Starting(i) \/ Expiring(i) \/ (\E ok \in BOOLEAN : Replying(i, ok))
          PROVE  loaded' = loaded
      BY <3>2 DEF Starting, Expiring, Replying
    <3>3. ASSUME NEW r, NEW i, Following(r, i) \/ Stopping(r, i)
          PROVE  loaded' = loaded
      BY <3>3 DEF Following, Stopping
    <3>4. ASSUME NEW r, Beginning(r) \/ Failing(r) \/ Interrupting(r)
          PROVE  loaded' = loaded
      BY <3>4 DEF Beginning, Failing, Interrupting
    <3>5. ASSUME NEW m, Hearing(m) \/ Completing(m) \/ Answering(m)
          PROVE  loaded' = loaded
      BY <3>5 DEF Hearing, Completing, Answering
    <3>6. ASSUME NEW i, NEW n, TurnBegins(i, n) \/ TurnStops(i, n)
          PROVE  loaded' = loaded
      BY <3>6 DEF TurnBegins, TurnStops
    <3> QED BY <1>5, <3>1, <3>2, <3>3, <3>4, <3>5, <3>6 DEF Steps
  <2> QED BY <1>5, <2>1, ChildKept, LoadsFrom
<1> QED BY <1>3, <1>4, <1>5

LEMMA LoadedFirstStep ==
  ASSUME TypeOK, Good, Steps, Moves
  PROVE  LoadedFirst'
<1>1. LoadedChild /\ OneFollower /\ FirstRequest /\ Asked /\ OneChild
  BY GoodParts DEF LoadedFirst, LoadedChild
<1>2. bound \in Runs \cup {0} /\ 0 \notin Runs
  BY TypeParts, Numbers
<1> SUFFICES LoadedChild'
  BY LoadsStep DEF LoadedFirst, Loads, LoadedChild
<1>3. ASSUME ~Dying, ~Disposing, loaded # 0 PROVE UNCHANGED <<child, starting>>
  BY <1>3, ChildKept
<1>4. CASE Dying \/ Disposing
  BY <1>4 DEF Dying, Disposing, LoadedChild
<1>5. ASSUME loaded' = loaded, ~Dying, ~Disposing,
             bound' # 0 => run'[bound'].child = 0 \/ (bound # 0 /\ run'[bound'].child = run[bound].child)
      PROVE  LoadedChild'
  BY <1>1, <1>3, <1>5 DEF LoadedChild
<1>6. ASSUME NEW r \in Runs, NEW i \in Requests, Resuming(r, i) PROVE LoadedChild'
  <2>1. /\ job[r].id \in Requests /\ request[job[r].id].state = "resolved"
        /\ job[r].step \in {"thread", "resume"}
    BY <1>6 DEF Resuming, TypeOK, IdsKnown
  <2>2. child # 0 /\ starting = 0 /\ ~closing
    BY <1>1, <2>1 DEF Asked, Shaken, OneChild
  <2>3. child' = child /\ run'[r].child = child /\ bound' = IF job[r].starts THEN r ELSE bound
    BY <1>6, <2>2 DEF Resuming, Asking
  <2>4. bound' = r
    BY <1>1, <2>1, <2>2, <2>3 DEF OneFollower
  <2> QED BY <2>3, <2>4 DEF LoadedChild
<1>7. CASE ~Dying /\ ~Disposing /\ UNCHANGED <<loaded, run, bound>>
  BY <1>5, <1>7
<1>8. ASSUME NEW i, Starting(i), ~Dying, ~Disposing PROVE LoadedChild'
  <2>1. bound' = 0 /\ loaded' = loaded
    BY <1>1, <1>8 DEF Starting, FirstRequest
  <2> QED BY <1>5, <1>8, <2>1
<1>9. ASSUME NEW r \in Runs, NEW i, Following(r, i), ~Dying, ~Disposing PROVE LoadedChild'
  <2>1. /\ bound' = r /\ loaded' = loaded
        /\ bound = 0 => run'[r].child = 0
        /\ bound # 0 => run'[r].child = run[bound].child
    BY <1>9 DEF Following
  <2> QED BY <1>5, <1>9, <2>1
<1>10. ASSUME NEW r \in Runs, Beginning(r) \/ Failing(r), ~Dying, ~Disposing PROVE LoadedChild'
  <2>1. /\ loaded' = loaded /\ bound' \in {0, bound}
        /\ run' = run \/ (run'[r].child = run[r].child /\ OthersKept(r))
    BY <1>10 DEF Beginning, Failing
  <2> QED BY <1>2, <1>5, <1>10, <2>1 DEF OthersKept
<1>11. ASSUME Closing, ~Dying, ~Disposing PROVE LoadedChild'
  BY <1>5, <1>11 DEF Closing
<1>12. ASSUME NEW m, Hearing(m) \/ Completing(m), ~Dying, ~Disposing PROVE LoadedChild'
  <2>1. UNCHANGED <<loaded, bound>> /\ (run' = run \/ run'[bound].child = run[bound].child)
    BY <1>12 DEF Hearing, Completing
  <2> QED BY <1>5, <1>12, <2>1
<1>13. ASSUME NEW r, Interrupting(r) \/ GivingUp(r) \/ (\E i : Stopping(r, i))
       PROVE  UNCHANGED <<loaded, run, bound>>
  BY <1>13 DEF Interrupting, GivingUp, Stopping
<1>14. ASSUME UNCHANGED vars \/ Greeting PROVE UNCHANGED <<loaded, run, bound>>
  BY <1>14 DEF vars, Greeting
<1>15. ASSUME NEW i, Expiring(i) \/ \E ok \in BOOLEAN : Replying(i, ok)
       PROVE  UNCHANGED <<loaded, run, bound>>
  BY <1>15 DEF Expiring, Replying
<1>16. ASSUME NEW m, Answering(m) PROVE UNCHANGED <<loaded, run, bound>>
  BY <1>16 DEF Answering
<1>17. ASSUME NEW i, NEW n, TurnBegins(i, n) \/ TurnStops(i, n) PROVE UNCHANGED <<loaded, run, bound>>
  BY <1>17 DEF TurnBegins, TurnStops
<1> QED BY <1>4, <1>6, <1>7, <1>8, <1>9, <1>10, <1>11, <1>12, <1>13, <1>14, <1>15, <1>16, <1>17
        DEF Steps

-----------------------------------------------------------------------------
(* The requests of the calls *)

Waiting == {"queued", "sent", "resolved", "rejected"}
Live == {"queued", "sent", "resolved"}

\* Turns that were begun stay so.
LEMMA TurnsKept ==
  ASSUME TypeOK, Good, Moves
  PROVE  \A k \in Turns : turn[k] # "none" => turn'[k] # "none"
<1>1. turn \in [Turns -> {"none", "busy", "done"}]
  BY TypeParts
<1>2. ASSUME NEW i, NEW n \in Turns, TurnBegins(i, n) \/ TurnStops(i, n)
      PROVE  \A k \in Turns : turn[k] # "none" => turn'[k] # "none"
  BY <1>2 DEF TurnBegins, TurnStops, NextTurn
<1> QED BY <1>1, <1>2, LinesMove

\* No request but i is made, and none but j is done.
Kept(i, j) ==
  \A k \in Requests \ {i} :
    /\ request'[k].method = request[k].method
    /\ k = j => request'[k].state = "done"
    /\ k # j => /\ request[k].state \in Waiting => request'[k].state \in Waiting
                /\ request'[k].state \in Live => request[k].state \in Live
                /\ request'[k].state = "free" <=> request[k].state = "free"
    /\ request'[k].method = "turn/start" /\ request'[k].state = "resolved"
         => request'[k].turn # 0 /\ turn'[request'[k].turn] # "none"

LEMMA KeptParts ==
  ASSUME TypeOK, Good, Moves
  PROVE  /\ \A i, j, method, t : Asking(i, j, method, t) => Kept(i, j)
         /\ \A j : Settling(j, "done") => Kept(0, j)
         /\ \A j : Settling(j, "rejected") /\ request[j].state \in Waiting => Kept(0, 0)
         /\ Shaking \/ Ending \/ request' = request => Kept(0, 0)
         /\ \A m : Reading(m) /\ Taking(m) => Kept(0, 0)
<1>1. \A k \in Requests :
        request[k].method = "turn/start" /\ request[k].state = "resolved"
          => request[k].turn # 0 /\ request[k].turn \in Turns /\ turn[request[k].turn] # "none"
  BY GoodParts, TypeParts, RequestParts DEF JobsOwn
<1>2. ASSUME NEW k \in Requests, Same(k), request'[k].state = "resolved" => request[k].state = "resolved"
      PROVE  request'[k].method = "turn/start" /\ request'[k].state = "resolved"
               => request'[k].turn # 0 /\ turn'[request'[k].turn] # "none"
  BY <1>1, <1>2, TurnsKept DEF Same
<1>3. ASSUME NEW i, NEW j, NEW method, NEW t, Asking(i, j, method, t) PROVE Kept(i, j)
  <2> SUFFICES ASSUME NEW k \in Requests \ {i}
               PROVE  Same(k) /\ request'[k].state = IF k = j THEN "done" ELSE request[k].state
    BY <1>2 DEF Kept, Same
  <2> QED BY <1>3 DEF Asking
<1>4. ASSUME NEW j, NEW state \in {"done", "rejected"}, Settling(j, state), NEW k \in Requests
      PROVE  Same(k) /\ request'[k].state = IF k = j THEN state ELSE request[k].state
  BY <1>4 DEF Settling
<1>5. ASSUME NEW j, Settling(j, "done") PROVE Kept(0, j)
  BY <1>2, <1>4, <1>5 DEF Kept, Same
<1>6. ASSUME NEW j, Settling(j, "rejected"), request[j].state \in Waiting PROVE Kept(0, 0)
  BY <1>2, <1>4, <1>6, Numbers DEF Kept, Same, Waiting, Live
<1>7. ASSUME Shaking PROVE Kept(0, 0)
  <2>1. ASSUME NEW k \in Requests
        PROVE  /\ Same(k)
               /\ \/ request'[k].state = request[k].state
                  \/ request[k].state = "queued" /\ request'[k].state \in {"sent", "rejected"}
    BY <1>7 DEF Shaking
  <2> QED BY <1>2, <2>1, Numbers DEF Kept, Same, Waiting, Live
<1>8. ASSUME Ending PROVE Kept(0, 0)
  <2>1. ASSUME NEW k \in Requests
        PROVE  Same(k) /\ request'[k].state = IF request[k].state \in {"queued", "sent"} THEN "rejected"
                                              ELSE request[k].state
    BY <1>8 DEF Ending
  <2> QED BY <1>2, <2>1, Numbers DEF Kept, Same, Waiting, Live
<1>9. ASSUME request' = request PROVE Kept(0, 0)
  <2>1. \A k \in Requests : Same(k)
    BY <1>9 DEF Same
  <2> QED BY <1>2, <1>9, <2>1, Numbers DEF Kept
<1>10. ASSUME NEW m, Reading(m), Taking(m) PROVE Kept(0, 0)
  <2>1. m \in Lines /\ m.kind \in Answers /\ m.id \in Requests
    BY <1>10 DEF Reading, Taking
  <2>2. \A k \in Requests : k # m.id => Same(k) /\ request'[k].state = request[k].state
    BY <1>10 DEF Taking
  <2>3. CASE request[m.id].state = "sent"
    <3>1. /\ request'[m.id].state = IF m.kind = "result" THEN "resolved" ELSE "rejected"
          /\ request'[m.id].turn = m.turn /\ request'[m.id].method = request[m.id].method
      BY <1>10, <2>3 DEF Taking
    <3>2. m.kind = "result" /\ request[m.id].method = "turn/start"
             => m.turn # 0 /\ m.turn \in Turns /\ turn[m.turn] # "none"
      BY <2>1, GoodParts, LineKnown, Numbers DEF AnswersKnown, NewsKnown
    <3>3. m.kind = "result" /\ request[m.id].method = "turn/start"
             => request'[m.id].turn # 0 /\ turn'[request'[m.id].turn] # "none"
      BY <3>1, <3>2, TurnsKept
    <3> QED BY <1>2, <2>2, <2>3, <3>1, <3>3, Numbers DEF Kept, Same, Waiting, Live
  <2>4. CASE request[m.id].state # "sent"
    <3>1. Same(m.id) /\ request'[m.id].state = request[m.id].state
      BY <1>10, <2>4 DEF Taking
    <3> QED BY <1>2, <2>2, <3>1, Numbers DEF Kept, Same
  <2> QED BY <2>3, <2>4
<1> QED BY <1>3, <1>5, <1>6, <1>7, <1>8, <1>9, <1>10

\* Stop requests that are at the await of their request were so.
StopsKept ==
  \A q \in Runs : stop'[q].step \in {"interrupt", "told"}
    => stop[q].step \in {"interrupt", "told"} /\ stop'[q].id = stop[q].id

LEMMA TellingKeeps ==
  ASSUME NEW s, NEW stopped, Telling(s, stopped)
  PROVE  StopsKept
<1> SUFFICES ASSUME NEW q \in Runs, stop'[q].step \in {"interrupt", "told"}
             PROVE  stop[q].step \in {"interrupt", "told"} /\ stop'[q].id = stop[q].id
  BY DEF StopsKept
<1>1. CASE stop[q].step \in {"interrupt", "wait"} /\ stop[q].on = s
  BY <1>1 DEF Telling
<1>2. CASE ~(stop[q].step \in {"interrupt", "wait"} /\ stop[q].on = s)
  <2>1. stop'[q] = stop[q]
    BY <1>2 DEF Telling
  <2> QED BY <2>1
<1> QED BY <1>1, <1>2

LEMMA CallParts ==
  ASSUME TypeOK, Good, NEW r \in Runs, job[r].step # "none"
  PROVE  /\ job[r].id \in Requests /\ job[r].step \in {"thread", "resume", "turn"}
         /\ request[job[r].id].state \in Waiting
         /\ request[job[r].id].method = Method(job[r].step)
         /\ request[job[r].id].method # "turn/interrupt"
<1>1. job[r].id \in Requests
  BY DEF TypeOK, IdsKnown
<1>3. JobsOwn
  BY GoodParts
<1>2. job[r] \in JobType
  BY DEF TypeOK, ProviderTypes
<1> QED BY <1>1, <1>2, <1>3 DEF JobsOwn, Waiting, Method, JobType

\* The calls keep their requests.
LEMMA JobsKeep ==
  ASSUME TypeOK, Good, NEW j, Kept(0, j), job' = job, StopsKept,
         j # 0 => j \in Requests /\ request[j].method = "turn/interrupt"
  PROVE  JobsOwn'
<1>1. JobsOwn
  BY GoodParts
<1>2. \A r \in Runs : stop[r].step \in {"interrupt", "told"} => stop[r].id \in Requests
  BY DEF TypeOK, IdsKnown
<1>3. ASSUME NEW r \in Runs, job[r].step # "none"
      PROVE  /\ request'[job[r].id].state \in Waiting
             /\ request'[job[r].id].method = Method(job[r].step)
  <2>1. job[r].id # j
    BY <1>3, CallParts, Numbers
  <2> QED BY <1>3, <2>1, CallParts, Numbers DEF Kept
<1>4. ASSUME NEW r \in Runs, stop'[r].step \in {"interrupt", "told"}
      PROVE  request'[stop'[r].id].method = "turn/interrupt" /\ request'[stop'[r].id].state # "free"
  <2>1. stop[r].step \in {"interrupt", "told"} /\ stop'[r].id = stop[r].id
    BY <1>4 DEF StopsKept
  <2>2. /\ stop[r].id \in Requests /\ request[stop[r].id].method = "turn/interrupt"
        /\ request[stop[r].id].state # "free"
    BY <1>1, <1>2, <2>1 DEF JobsOwn
  <2>3. request'[stop[r].id].method = "turn/interrupt" /\ request'[stop[r].id].state # "free"
    BY <2>2, Numbers DEF Kept
  <2> QED BY <2>1, <2>3
<1>5. ASSUME NEW k \in Requests, request'[k].method = "turn/start"
      PROVE  /\ request'[k].state \in Live => \E r \in Runs : job[r].step = "turn" /\ job[r].id = k
             /\ request'[k].state = "resolved"
                  => request'[k].turn # 0 /\ turn'[request'[k].turn] # "none"
  <2>1. request[k].method = "turn/start" /\ k # j
    BY <1>5, Numbers DEF Kept
  <2>2. request'[k].state \in Live => request[k].state \in Live
    BY <2>1, Numbers DEF Kept
  <2> QED BY <1>1, <1>5, <2>1, <2>2, Numbers DEF JobsOwn, Kept, Live
<1> QED BY <1>1, <1>3, <1>4, <1>5 DEF JobsOwn, Waiting, Live

\* A call makes a request, behind its answered one or as its first one.
LEMMA JobsAsk ==
  ASSUME TypeOK, Good, NEW r \in Runs, NEW i \in Requests, NEW j, NEW step \in {"thread", "resume", "turn"},
         Kept(i, j), JobBecomes(r, step, i), request[i].state = "free",
         request'[i].method = Method(step), request'[i].state \in {"queued", "sent", "rejected"},
         StopsKept,
         \/ job[r].step = "none" /\ j = 0
         \/ job[r].step # "none" /\ j = job[r].id
  PROVE  JobsOwn'
<1>1. JobsOwn
  BY GoodParts
<1>2. \A s \in Runs : stop[s].step \in {"interrupt", "told"} => stop[s].id \in Requests
  BY DEF TypeOK, IdsKnown
<1>3. job'[r].step = step /\ job'[r].id = i /\ \A s \in Runs \ {r} : job'[s] = job[s]
  BY DEF JobBecomes
<1>4. ASSUME NEW s \in Runs, s # r, job'[s].step # "none"
      PROVE  /\ job[s].step # "none" /\ job'[s].step = job[s].step /\ job'[s].id = job[s].id
             /\ job[s].id # i /\ job[s].id # j
             /\ request'[job[s].id].state \in Waiting
             /\ request'[job[s].id].method = Method(job[s].step)
  <2>1. job'[s] = job[s]
    BY <1>3, <1>4
  <2>2. job[s].step # "none" /\ job[s].id # i
    BY <1>4, <2>1, CallParts DEF Waiting
  <2>3. job[s].id # j
    BY <1>1, <1>4, <2>2, CallParts, Numbers DEF JobsOwn
  <2> QED BY <2>1, <2>2, <2>3, CallParts DEF Kept
<1>5. ASSUME NEW s \in Runs, stop'[s].step \in {"interrupt", "told"}
      PROVE  request'[stop'[s].id].method = "turn/interrupt" /\ request'[stop'[s].id].state # "free"
  <2>1. stop[s].step \in {"interrupt", "told"} /\ stop'[s].id = stop[s].id
    BY <1>5 DEF StopsKept
  <2>2. /\ stop[s].id \in Requests /\ request[stop[s].id].method = "turn/interrupt"
        /\ request[stop[s].id].state # "free"
    BY <1>1, <1>2, <2>1 DEF JobsOwn
  <2>3. request'[stop[s].id].method = "turn/interrupt" /\ request'[stop[s].id].state # "free"
    BY <2>2 DEF Kept
  <2> QED BY <2>1, <2>3
<1>6. ASSUME NEW k \in Requests, request'[k].method = "turn/start"
      PROVE  /\ request'[k].state \in Live => \E s \in Runs : job'[s].step = "turn" /\ job'[s].id = k
             /\ request'[k].state = "resolved"
                  => request'[k].turn # 0 /\ turn'[request'[k].turn] # "none"
  <2>1. CASE k = i
    <3>1. step = "turn"
      BY <1>6, <2>1 DEF Method
    <3> QED BY <1>3, <2>1, <3>1
  <2>2. CASE k # i
    <3>1. request[k].method = "turn/start" /\ (request'[k].state \in Live => k # j /\ request[k].state \in Live)
      BY <1>6, <2>2 DEF Kept, Live
    <3>2. ASSUME request'[k].state \in Live
          PROVE  \E s \in Runs : job'[s].step = "turn" /\ job'[s].id = k
      <4>1. PICK s \in Runs : job[s].step = "turn" /\ job[s].id = k
        BY <1>1, <3>1, <3>2 DEF JobsOwn, Live
      <4>2. s # r
        BY <3>1, <3>2, <4>1
      <4> QED BY <1>3, <4>1, <4>2
    <3> QED BY <1>6, <2>2, <3>2 DEF Kept
  <2> QED BY <2>1, <2>2
<1>7. /\ request'[job'[r].id].state \in {"queued", "sent", "resolved", "rejected"}
      /\ request'[job'[r].id].method = Method(job'[r].step)
  BY <1>3
<1>8. \A s, u \in Runs :
        job'[s].step # "none" /\ job'[u].step # "none" /\ job'[u].id = job'[s].id => s = u
  BY <1>1, <1>3, <1>4 DEF JobsOwn
<1>9. \A s \in Runs : job'[s].step # "none" =>
       /\ request'[job'[s].id].state \in {"queued", "sent", "resolved", "rejected"}
       /\ request'[job'[s].id].method = Method(job'[s].step)
  BY <1>4, <1>7 DEF Waiting
<1> QED BY <1>5, <1>6, <1>8, <1>9 DEF JobsOwn, Live

\* A call is over with its request.
LEMMA JobsEnd ==
  ASSUME TypeOK, Good, NEW r \in Runs, job[r].step # "none", Kept(0, job[r].id), JobEnds(r), StopsKept
  PROVE  JobsOwn'
<1>1. JobsOwn
  BY GoodParts
<1>2. \A s \in Runs : stop[s].step \in {"interrupt", "told"} => stop[s].id \in Requests
  BY DEF TypeOK, IdsKnown
<1>3. ASSUME NEW s \in Runs, job'[s].step # "none"
      PROVE  /\ job[s].step # "none" /\ job'[s].step = job[s].step /\ job'[s].id = job[s].id
             /\ request'[job[s].id].state \in Waiting
             /\ request'[job[s].id].method = Method(job[s].step)
  <2>1. job'[s] = job[s] /\ s # r
    BY <1>3 DEF JobEnds
  <2>3. job[s].step # "none"
    BY <1>3, <2>1
  <2>2. job[s].id # job[r].id
    BY <1>1, <2>1, <2>3 DEF JobsOwn
  <2> QED BY <2>1, <2>2, <2>3, CallParts, Numbers DEF Kept
<1>4. ASSUME NEW s \in Runs, stop'[s].step \in {"interrupt", "told"}
      PROVE  request'[stop'[s].id].method = "turn/interrupt" /\ request'[stop'[s].id].state # "free"
  <2>1. stop[s].step \in {"interrupt", "told"} /\ stop'[s].id = stop[s].id
    BY <1>4 DEF StopsKept
  <2>2. /\ stop[s].id \in Requests /\ request[stop[s].id].method = "turn/interrupt"
        /\ request[stop[s].id].state # "free"
    BY <1>1, <1>2, <2>1 DEF JobsOwn
  <2>3. request'[stop[s].id].method = "turn/interrupt" /\ request'[stop[s].id].state # "free"
    BY <2>2, Numbers DEF Kept
  <2> QED BY <2>1, <2>3
<1>5. ASSUME NEW k \in Requests, request'[k].method = "turn/start"
      PROVE  /\ request'[k].state \in Live => \E s \in Runs : job'[s].step = "turn" /\ job'[s].id = k
             /\ request'[k].state = "resolved"
                  => request'[k].turn # 0 /\ turn'[request'[k].turn] # "none"
  <2>1. request[k].method = "turn/start"
        /\ (request'[k].state \in Live => k # job[r].id /\ request[k].state \in Live)
    BY <1>5, Numbers DEF Kept, Live
  <2>2. ASSUME request'[k].state \in Live
        PROVE  \E s \in Runs : job'[s].step = "turn" /\ job'[s].id = k
    <3>1. PICK s \in Runs : job[s].step = "turn" /\ job[s].id = k
      BY <1>1, <2>1, <2>2 DEF JobsOwn, Live
    <3>2. s # r
      BY <2>1, <2>2, <3>1
    <3> QED BY <3>1, <3>2 DEF JobEnds
  <2> QED BY <1>5, <2>2, Numbers DEF Kept
<1> QED BY <1>1, <1>3, <1>4, <1>5 DEF JobsOwn, Waiting, Live

LEMMA JobsOwnStep ==
  ASSUME TypeOK, Good, Steps, Moves
  PROVE  JobsOwn'
<1>1. \A r \in Runs : stop[r].step \in {"interrupt", "told"} =>
        stop[r].id \in Requests /\ request[stop[r].id].method = "turn/interrupt"
  BY GoodParts DEF TypeOK, IdsKnown, JobsOwn
<1>2. stop' = stop => StopsKept
  BY DEF StopsKept
<1>3. CASE UNCHANGED vars
  <2>1. request' = request /\ job' = job /\ stop' = stop
    BY <1>3 DEF vars
  <2> QED BY <1>2, <2>1, KeptParts, JobsKeep
<1>4. CASE Greeting \/ Dying \/ Disposing \/ Closing
  <2>1. StopsKept
    <3>1. CASE Greeting
      BY <1>2, <3>1 DEF Greeting
    <3>2. CASE Closing
      BY <3>2, TellingKeeps DEF Closing
    <3>3. CASE Dying \/ Disposing
      <4>1. \A q \in Runs : \/ stop'[q] = stop[q]
                            \/ /\ stop'[q].step \in {"none", "told"}
                               /\ stop'[q].step = "told"
                                    => stop[q].step = "interrupt" /\ stop'[q].id = stop[q].id
        BY <3>3 DEF Dying, Disposing
      <4> QED BY <4>1 DEF StopsKept
    <3> QED BY <1>4, <3>1, <3>2, <3>3
  <2>2. Kept(0, 0) /\ job' = job
    BY <1>4, KeptParts DEF Greeting, Dying, Disposing, Closing, connection
  <2> QED BY <2>1, <2>2, JobsKeep
<1>5. ASSUME NEW i \in Requests, Starting(i) PROVE JobsOwn'
  <2>1. /\ Asking(i, 0, "thread/start", 0) /\ JobBecomes(1, "thread", i) /\ stop' = stop
        /\ request[1].state = "free"
    BY <1>5 DEF Starting
  <2>2. job[1].step = "none"
    BY <2>1, GoodParts, Numbers DEF FirstRequest
  <2>3. /\ Kept(i, 0) /\ request[i].state = "free" /\ request'[i].method = "thread/start"
        /\ request'[i].state \in {"queued", "sent", "rejected"}
    BY <2>1, KeptParts DEF Asking
  <2> QED BY <1>2, <2>1, <2>2, <2>3, JobsAsk, Numbers DEF Method
<1>6. ASSUME NEW i \in Requests, Expiring(i) PROVE JobsOwn'
  BY <1>2, <1>6, KeptParts, JobsKeep DEF Expiring, Waiting
<1>7. ASSUME NEW i, NEW ok, Replying(i, ok) PROVE JobsOwn'
  BY <1>2, <1>7, KeptParts, JobsKeep DEF Replying, Writing
<1>8. ASSUME NEW r \in Runs, NEW i \in Requests, Following(r, i) PROVE JobsOwn'
  <2>1. PICK step \in {"turn", "resume"} : Asking(i, 0, Method(step), 0) /\ JobBecomes(r, step, i)
    BY <1>8 DEF Following, Method
  <2>2. StopsKept /\ job[r].step = "none"
    <3>1. /\ bound \notin {0, r} => Telling(bound, TRUE)
          /\ bound \in {0, r} => stop' = stop
          /\ job[r].step = "none"
      BY <1>8 DEF Following
    <3> QED BY <1>2, <3>1, TellingKeeps
  <2>3. /\ Kept(i, 0) /\ request[i].state = "free" /\ request'[i].method = Method(step)
        /\ request'[i].state \in {"queued", "sent", "rejected"}
    BY <2>1, KeptParts DEF Asking
  <2> QED BY <2>1, <2>2, <2>3, JobsAsk
<1>9. ASSUME NEW r \in Runs, NEW i \in Requests, Resuming(r, i) PROVE JobsOwn'
  <2>1. /\ Asking(i, job[r].id, "turn/start", 0) /\ JobBecomes(r, "turn", i) /\ stop' = stop
        /\ job[r].step # "none"
    BY <1>9 DEF Resuming
  <2>2. /\ Kept(i, job[r].id) /\ request[i].state = "free" /\ request'[i].method = "turn/start"
        /\ request'[i].state \in {"queued", "sent", "rejected"}
    BY <2>1, KeptParts DEF Asking
  <2> QED BY <1>2, <2>1, <2>2, JobsAsk DEF Method
<1>10. ASSUME NEW r \in Runs, NEW i \in Requests, Stopping(r, i) PROVE JobsOwn'
  <2>1. /\ Asking(i, 0, "turn/interrupt", run[bound].turn) /\ job' = job
        /\ stop'[r].id = i /\ \A q \in Runs \ {r} : stop'[q] = stop[q]
    BY <1>10 DEF Stopping
  <2>2. /\ Kept(i, 0) /\ request[i].state = "free" /\ request'[i].method = "turn/interrupt"
        /\ request'[i].state \in {"queued", "sent", "rejected"}
    BY <2>1, KeptParts DEF Asking
  <2>3. JobsOwn
    BY GoodParts
  <2>4. ASSUME NEW s \in Runs, job[s].step # "none"
        PROVE  request'[job[s].id].state \in Waiting /\ request'[job[s].id].method = Method(job[s].step)
    <3>1. job[s].id # i /\ job[s].id # 0
      BY <2>2, <2>4, CallParts, Numbers DEF Waiting
    <3> QED BY <2>2, <2>4, <3>1, CallParts DEF Kept
  <2>5. ASSUME NEW q \in Runs, stop'[q].step \in {"interrupt", "told"}
        PROVE  request'[stop'[q].id].method = "turn/interrupt" /\ request'[stop'[q].id].state # "free"
    <3>1. CASE q = r
      BY <2>1, <2>2, <3>1
    <3>2. CASE q # r
      <4>1. /\ stop[q].id \in Requests /\ stop'[q].id = stop[q].id
            /\ request[stop[q].id].method = "turn/interrupt" /\ request[stop[q].id].state # "free"
        BY <1>1, <2>1, <2>3, <2>5, <3>2 DEF JobsOwn
      <4> QED BY <2>2, <4>1, Numbers DEF Kept
    <3> QED BY <3>1, <3>2
  <2>6. ASSUME NEW k \in Requests, request'[k].method = "turn/start"
        PROVE  /\ request'[k].state \in Live => \E s \in Runs : job[s].step = "turn" /\ job[s].id = k
               /\ request'[k].state = "resolved"
                    => request'[k].turn # 0 /\ turn'[request'[k].turn] # "none"
    <3>1. request[k].method = "turn/start" /\ k # i /\ k # 0
          /\ (request'[k].state \in Live => request[k].state \in Live)
      BY <2>2, <2>6, Numbers DEF Kept
    <3> QED BY <2>2, <2>3, <2>6, <3>1 DEF JobsOwn, Kept, Live
  <2>7. \A s, u \in Runs :
          job'[s].step # "none" /\ job'[u].step # "none" /\ job'[u].id = job'[s].id => s = u
    BY <2>1, <2>3 DEF JobsOwn
  <2>8. \A s \in Runs : job'[s].step # "none" =>
         /\ request'[job'[s].id].state \in {"queued", "sent", "resolved", "rejected"}
         /\ request'[job'[s].id].method = Method(job'[s].step)
    BY <2>1, <2>4 DEF Waiting
  <2>9. \A k \in Requests : request'[k].method = "turn/start" =>
         /\ request'[k].state \in {"queued", "sent", "resolved"}
              => \E s \in Runs : job'[s].step = "turn" /\ job'[s].id = k
         /\ request'[k].state = "resolved"
              => request'[k].turn # 0 /\ turn'[request'[k].turn] # "none"
    BY <2>1, <2>6 DEF Live
  <2> QED BY <2>5, <2>7, <2>8, <2>9 DEF JobsOwn
<1>11. ASSUME NEW r \in Runs, Beginning(r) \/ Failing(r) PROVE JobsOwn'
  <2>1. Settling(job[r].id, "done") /\ job[r].step # "none" /\ JobEnds(r)
    BY <1>11 DEF Beginning, Failing
  <2>2. stop' = stop \/ \E s, stopped : Telling(s, stopped)
    BY <1>11 DEF Beginning, Failing
  <2> QED BY <1>2, <2>1, <2>2, TellingKeeps, KeptParts, JobsEnd
<1>12. ASSUME NEW r \in Runs, Interrupting(r) PROVE JobsOwn'
  <2>1. Settling(stop[r].id, "done") /\ stop[r].step \in {"interrupt", "told"} /\ job' = job
        /\ stop'[r].step \in {"wait", "none"} /\ \A q \in Runs \ {r} : stop'[q] = stop[q]
    BY <1>12 DEF Interrupting
  <2>2. StopsKept
    BY <2>1 DEF StopsKept
  <2> QED BY <1>1, <2>1, <2>2, KeptParts, JobsKeep
<1>13. ASSUME NEW r \in Runs, GivingUp(r) PROVE JobsOwn'
  <2>1. StopsKept /\ request' = request /\ job' = job
    BY <1>13 DEF GivingUp, StopsKept, connection
  <2> QED BY <2>1, KeptParts, JobsKeep
<1>14. ASSUME NEW m, Hearing(m) \/ Completing(m) PROVE JobsOwn'
  <2>1. request' = request /\ job' = job /\ (stop' = stop \/ Telling(bound, TRUE))
    BY <1>14 DEF Hearing, Completing
  <2> QED BY <1>2, <2>1, TellingKeeps, KeptParts, JobsKeep
<1>15. ASSUME NEW m, Answering(m) PROVE JobsOwn'
  BY <1>2, <1>15, KeptParts, JobsKeep DEF Answering
<1>16. ASSUME NEW i, NEW n, TurnBegins(i, n) \/ TurnStops(i, n) PROVE JobsOwn'
  <2>1. request' = request /\ job' = job /\ stop' = stop
    BY <1>16 DEF TurnBegins, TurnStops, Writing
  <2> QED BY <1>2, <2>1, KeptParts, JobsKeep
<1> QED BY <1>3, <1>4, <1>5, <1>6, <1>7, <1>8, <1>9, <1>10, <1>11, <1>12, <1>13, <1>14, <1>15, <1>16
        DEF Steps

LEMMA FirstRequestStep ==
  ASSUME TypeOK, Good, Steps, Moves, Piped'
  PROVE  FirstRequest'
<1> SUFFICES ASSUME request'[1].state = "free"
             PROVE  bound' = 0 /\ loaded' = 0 /\ \A r \in Runs : job'[r].step = "none"
  BY DEF FirstRequest
<1>1. \A j \in Requests : request'[j].state = "free"
  <2>1. \A j \in Requests : 1 < j => request'[j].state = "free"
    BY Numbers DEF Piped, Asked
  <2> QED BY <2>1 DEF Requests
<1>2. \A i, j, method, t : ~Asking(i, j, method, t)
  BY <1>1 DEF Asking
<1>3. \A j \in Requests, state \in {"done", "rejected"} : ~Settling(j, state)
  BY <1>1 DEF Settling
<1>4. request[1].state = "free"
  <2>1. ASSUME NEW j, Kept(0, j) PROVE request[1].state = "free"
    <3>1. 1 # j
      BY <1>1, <2>1, Numbers DEF Kept
    <3> QED BY <1>1, <2>1, <3>1, Numbers DEF Kept
  <2>2. \E j : Kept(0, j)
    <3>1. ASSUME NEW i, NEW ok, Replying(i, ok) PROVE request' = request
      BY <3>1 DEF Replying, Writing
    <3>2. ASSUME NEW i, NEW n, TurnBegins(i, n) \/ TurnStops(i, n) PROVE request' = request
      BY <3>2 DEF TurnBegins, TurnStops, Writing
    <3> QED BY <1>2, <1>3, <3>1, <3>2, KeptParts DEF Moves
  <2> QED BY <2>1, <2>2
<1>5. bound = 0 /\ loaded = 0 /\ \A r \in Runs : job[r].step = "none"
  BY <1>4, GoodParts DEF FirstRequest
<1>6. \A r, i : ~Starting(i) /\ ~Following(r, i) /\ ~Resuming(r, i) /\ ~Stopping(r, i)
  BY <1>2, AskersAsk
<1>7. \A r \in Runs : ~Beginning(r) /\ ~Failing(r)
  BY <1>5 DEF Beginning, Failing
<1>8. ASSUME NEW r, NEW i, UNCHANGED vars \/ Greeting \/ Dying \/ Disposing \/ Closing \/ Expiring(i)
                            \/ (\E ok \in BOOLEAN : Replying(i, ok)) \/ Interrupting(r) \/ GivingUp(r)
      PROVE  bound' \in {0, bound} /\ loaded' \in {0, loaded} /\ job' = job
  BY <1>8 DEF vars, Greeting, Dying, Disposing, Closing, Expiring, Replying, Interrupting, GivingUp
<1>9. ASSUME NEW m, Hearing(m) \/ Completing(m) \/ Answering(m)
      PROVE  UNCHANGED <<bound, loaded, job>>
  BY <1>9 DEF Hearing, Completing, Answering
<1>10. ASSUME NEW i, NEW n, TurnBegins(i, n) \/ TurnStops(i, n) PROVE UNCHANGED <<bound, loaded, job>>
  BY <1>10 DEF TurnBegins, TurnStops
<1> QED BY <1>5, <1>6, <1>7, <1>8, <1>9, <1>10 DEF Steps

-----------------------------------------------------------------------------
(* One run of the thread is followed *)

\* No turn is asked of the child.
InboxStays ==
  \A i \in Inbox' : request'[i].method = "turn/start"
                      => i \in Inbox /\ request[i].method = "turn/start"

LEMMA InboxParts ==
  ASSUME TypeOK, Good, Moves
  PROVE  /\ \A i, j, method, t : Asking(i, j, method, t) /\ method # "turn/start" => InboxStays
         /\ \A j, state : Settling(j, state) => InboxStays
         /\ Shaking \/ Ending => InboxStays
         /\ \A m : Reading(m) /\ (Taking(m) \/ request' = request) => InboxStays
         /\ request' = request /\ Inbox' \subseteq Inbox => InboxStays
<1>1. Inbox \subseteq Requests /\ LoadedFirst /\ OneChild
  BY GoodParts, Pipes DEF TypeOK
<1>2. ASSUME NEW i, NEW j, NEW method, NEW t, Asking(i, j, method, t), method # "turn/start"
      PROVE  InboxStays
  <2>1. /\ Inbox' \subseteq Inbox \cup {i} /\ request'[i].method = method
        /\ \A k \in Requests \ {i} : request'[k].method = request[k].method
    BY <1>2 DEF Asking, Same
  <2> QED BY <1>1, <1>2, <2>1 DEF InboxStays
<1>3. ASSUME NEW j, NEW state, Settling(j, state) PROVE InboxStays
  <2>1. Inbox' = Inbox /\ \A k \in Requests : request'[k].method = request[k].method
    BY <1>3 DEF Settling, Same
  <2> QED BY <1>1, <2>1 DEF InboxStays
<1>4. ASSUME Shaking PROVE InboxStays
  <2>1. \A k \in Inbox' : k \in Requests /\ request[k].state = "queued"
    BY <1>4 DEF Shaking
  <2>2. \A k \in Requests : request'[k].method = request[k].method
    BY <1>4 DEF Shaking, Same
  <2>3. loaded = 0
    BY <1>1, <1>4 DEF LoadedFirst, Shaking
  <2> QED BY <1>1, <2>1, <2>2, <2>3 DEF InboxStays, LoadedFirst
<1>5. ASSUME Ending PROVE InboxStays
  BY <1>5 DEF Ending, InboxStays
<1>6. ASSUME NEW m, Reading(m), Taking(m) \/ request' = request PROVE InboxStays
  <2>1. \A k \in Requests : request'[k].method = request[k].method
    BY <1>6 DEF Taking, Same
  <2>2. Inbox' = Inbox
    BY <1>6 DEF Reading
  <2> QED BY <1>1, <2>1, <2>2 DEF InboxStays
<1>7. ASSUME request' = request, Inbox' \subseteq Inbox PROVE InboxStays
  BY <1>7 DEF InboxStays
<1> QED BY <1>2, <1>3, <1>4, <1>5, <1>6, <1>7

\* Steps after which the same run is followed
LEMMA FollowerKeep ==
  ASSUME TypeOK, Good, JobsOwn', InboxStays, bound' = bound, loaded' \in {0, loaded},
         closing => closing',
         \A r \in Runs : run'[r].tracked = run[r].tracked,
         \A r \in Runs : job'[r] = job[r] \/ (job'[r].step = "none" /\ job[r].step # "thread"),
         \/ bound # 0
         \/ \E r \in Runs : job[r].step \in {"turn", "resume"}
         \/ \A r \in Runs : run'[r].row = run[r].row /\ (run'[r].phase = "running" => run[r].phase = "running")
  PROVE  OneFollower'
<1>1. OneFollower
  BY GoodParts
<1>2. /\ \A r \in Runs : run'[r].tracked => r = bound \/ job[r].step = "thread"
      /\ bound # 0 => run'[bound].tracked
  BY <1>1, TypeParts DEF OneFollower
<1>3. ASSUME NEW r \in Runs, job'[r].step # "none" PROVE job'[r] = job[r] /\ job[r].step # "none"
  BY <1>3
<1>4. \A r \in Runs : run'[r].tracked => r = bound' \/ job'[r].step = "thread"
  BY <1>2
<1>5. bound' # 0 => run'[bound'].tracked
  BY <1>2
<1>6. ASSUME NEW r \in Runs, job'[r].step = "thread"
      PROVE  /\ job'[r].starts /\ bound' = 0 /\ loaded' = 0 /\ run'[r].phase # "running"
             /\ \A s \in Runs : run'[s].row = 0 /\ (s # r => job'[s].step = "none")
  <2>1. job'[r] = job[r] /\ job[r].step = "thread"
    BY <1>3, <1>6
  <2>2. /\ job[r].starts /\ bound = 0 /\ loaded = 0 /\ run[r].phase # "running"
        /\ \A s \in Runs : run[s].row = 0 /\ (s # r => job[s].step = "none")
    BY <1>1, <2>1 DEF OneFollower
  <2>3. \A s \in Runs : run'[s].row = run[s].row /\ (run'[s].phase = "running" => run[s].phase = "running")
    BY <2>1, <2>2
  <2>4. \A s \in Runs : s # r => job'[s].step = "none"
    BY <1>3, <2>2
  <2> QED BY <2>1, <2>2, <2>3, <2>4
<1>7. ASSUME NEW r \in Runs, job'[r].step = "resume"
      PROVE  closing' \/ (bound' = r /\ loaded' = 0 /\ \A s \in Runs : s # r => job'[s].step # "resume")
  <2>1. job[r].step = "resume"
    BY <1>3, <1>7
  <2>2. closing \/ (bound = r /\ loaded = 0 /\ \A s \in Runs : s # r => job[s].step # "resume")
    BY <1>1, <2>1 DEF OneFollower
  <2> QED BY <1>3, <2>2
<1>8. ASSUME NEW r \in Runs, job'[r].step = "turn", job'[r].id \in Inbox' PROVE bound' = r
  <2>1. job'[r] = job[r]
    BY <1>3, <1>8
  <2>2. request'[job'[r].id].method = "turn/start"
    BY <1>8 DEF JobsOwn, Method
  <2>3. job[r].id \in Inbox
    BY <1>8, <2>1, <2>2 DEF InboxStays
  <2> QED BY <1>1, <1>8, <2>1, <2>3 DEF OneFollower
<1>9. ASSUME NEW r \in Runs, NEW i \in Inbox', run'[r].tracked, job'[r].step = "turn",
             request'[i].method = "turn/start"
      PROVE  job'[r].id = i
  <2>1. job'[r] = job[r] /\ run[r].tracked
    BY <1>3, <1>9
  <2>2. i \in Inbox /\ request[i].method = "turn/start"
    BY <1>9 DEF InboxStays
  <2> QED BY <1>1, <1>9, <2>1, <2>2 DEF OneFollower
<1> QED BY <1>4, <1>5, <1>6, <1>7, <1>8, <1>9 DEF OneFollower

\* A turn is asked for, or the thread: no turn has been asked of the child.
LEMMA FollowerAsks ==
  ASSUME TypeOK, Good, JobsOwn', NEW r \in Runs, NEW i, NEW j, NEW step \in {"turn", "resume"},
         Asking(i, j, Method(step), 0), JobBecomes(r, step, i), bound' = r, run'[r].tracked,
         \A s \in Runs \ {r} : ~run'[s].tracked /\ job[s].step # "thread" /\ job[s].step # "resume",
         \A k \in Inbox : request[k].method # "turn/start",
         step = "resume" => loaded' = 0
  PROVE  OneFollower'
<1>1. /\ job'[r].step = step /\ job'[r].id = i /\ \A s \in Runs \ {r} : job'[s] = job[s]
      /\ Inbox' \subseteq Inbox \cup {i}
      /\ \A k \in Requests \ {i} : request'[k].method = request[k].method
      /\ Inbox \subseteq Requests
  BY GoodParts, Pipes DEF JobBecomes, Asking, Same, TypeOK
<1>2. \A k \in Inbox' : request'[k].method = "turn/start" => k = i
  BY <1>1
<1>3. \A s \in Runs : job'[s].step # "thread" /\ (job'[s].step = "resume" => s = r)
  BY <1>1
<1>4. ASSUME NEW s \in Runs, job'[s].step = "turn", job'[s].id \in Inbox' PROVE s = r
  <2>1. request'[job'[s].id].method = "turn/start"
    BY <1>4 DEF JobsOwn, Method
  <2>2. job'[s].id = job'[r].id
    BY <1>1, <1>2, <1>4, <2>1
  <2>3. job'[r].step # "none"
    BY <1>1
  <2> QED BY <1>4, <2>2, <2>3 DEF JobsOwn
<1> QED BY <1>1, <1>2, <1>3, <1>4 DEF OneFollower

LEMMA Resumes ==
  ASSUME TypeOK, Good, NEW r \in Runs, job[r].step \in {"thread", "resume"},
         request[job[r].id].state = "resolved"
  PROVE  /\ child # 0 /\ starting = 0 /\ ~closing /\ loaded = 0
         /\ \A k \in Inbox : request[k].method # "turn/start"
         /\ job[r].step = "thread" => bound = 0 /\ job[r].starts
         /\ job[r].step = "resume" => bound = r
         /\ \A s \in Runs : s # r => job[s].step # "thread" /\ job[s].step # "resume"
<1>1. job[r].id \in Requests /\ OneFollower /\ LoadedFirst /\ Asked /\ OneChild
  BY GoodParts DEF TypeOK, IdsKnown
<1>2. child # 0 /\ starting = 0 /\ ~closing
  BY <1>1 DEF Asked, Shaken, OneChild
<1>3. loaded = 0
  BY <1>1, <1>2 DEF OneFollower
<1>4. \A k \in Inbox : request[k].method # "turn/start"
  <2>1. Inbox \subseteq Requests
    BY <1>1, Pipes DEF TypeOK
  <2> QED BY <1>1, <1>3, <2>1 DEF LoadedFirst
<1>5. job[r].step = "resume" => bound = r
  BY <1>1, <1>2 DEF OneFollower
<1>6. ASSUME NEW s \in Runs, s # r PROVE job[s].step # "thread" /\ job[s].step # "resume"
  BY <1>1, <1>2, <1>5, <1>6, Numbers DEF OneFollower
<1> QED BY <1>1, <1>2, <1>3, <1>4, <1>5, <1>6 DEF OneFollower

LEMMA OneFollowerStep ==
  ASSUME TypeOK, Good, Steps, Moves, JobsOwn'
  PROVE  OneFollower'
<1>1. /\ OneFollower /\ FirstRequest /\ LoadedFirst /\ JobsOwn
      /\ bound \in Runs \cup {0} /\ 0 \notin Runs /\ 1 \in Runs
  BY GoodParts, TypeParts, Numbers
<1>2. ASSUME UNCHANGED <<run, bound, job>>, InboxStays, loaded' \in {0, loaded}, closing' = closing
      PROVE  OneFollower'
  BY <1>2, FollowerKeep
<1>3. CASE UNCHANGED vars
  <2>1. UNCHANGED <<run, bound, job>> /\ InboxStays /\ loaded' = loaded /\ closing' = closing
    BY <1>3 DEF vars, InboxStays, Inbox
  <2> QED BY <1>2, <2>1
<1>4. CASE Greeting
  <2>1. UNCHANGED <<run, bound, job, loaded>> /\ Shaking /\ closing' = closing
    BY <1>4 DEF Greeting, Shaking
  <2> QED BY <1>2, <2>1, InboxParts
<1>5. CASE Dying
  <2>1. Ending /\ loaded' = 0 /\ UNCHANGED <<closing, bound, job>>
    BY <1>5 DEF Dying
  <2>2. ASSUME NEW r \in Runs
        PROVE  /\ run'[r].tracked = run[r].tracked /\ run'[r].row = run[r].row
               /\ run'[r].phase = "running" => run[r].phase = "running"
    <3>1. CASE Interrupted(r)
      BY <1>5, <3>1 DEF Dying
    <3>2. CASE ~Interrupted(r)
      <4>1. run'[r] = run[r]
        BY <1>5, <3>2 DEF Dying
      <4> QED BY <4>1
    <3> QED BY <3>1, <3>2
  <2> QED BY <2>1, <2>2, InboxParts, FollowerKeep
<1>6. CASE Disposing
  <2>1. /\ Inbox' = {} /\ closing' /\ bound' = 0 /\ loaded' = 0 /\ job' = job
        /\ \A r \in Runs : ~run'[r].tracked /\ run'[r].phase = run[r].phase /\ run'[r].row = run[r].row
    BY <1>6 DEF Disposing, Ending
  <2>2. \A r \in Runs : job[r].step = "thread" =>
          /\ job[r].starts /\ run'[r].phase # "running"
          /\ \A s \in Runs : run'[s].row = 0 /\ (s # r => job[s].step = "none")
    BY <1>1, <2>1 DEF OneFollower
  <2> QED BY <2>1, <2>2 DEF OneFollower
<1>7. CASE Closing
  <2>1. /\ bound' = 0 /\ job' = job /\ (\A q \in Runs : job[q].step = "none")
        /\ ~run'[bound].tracked /\ OthersKept(bound) /\ bound # 0
    BY <1>7 DEF Closing
  <2>2. \A s \in Runs : ~run'[s].tracked
    BY <1>1, <2>1 DEF OneFollower, OthersKept
  <2> QED BY <2>1, <2>2 DEF OneFollower
<1>8. ASSUME NEW i \in Requests, Starting(i) PROVE OneFollower'
  <2>1. /\ request[1].state = "free" /\ (\A s \in Runs : run[s].row = 0)
        /\ run'[1].tracked /\ run'[1].phase = "turn-starting" /\ run'[1].row = 0
        /\ OthersKept(1) /\ JobBecomes(1, "thread", i) /\ job'[1].starts
        /\ UNCHANGED <<bound, loaded>>
    BY <1>8 DEF Starting
  <2>2. bound = 0 /\ loaded = 0 /\ \A r \in Runs : job[r].step = "none"
    BY <1>1, <2>1 DEF FirstRequest
  <2>3. \A r \in Runs : /\ run'[r].row = 0 /\ (r # 1 => ~run'[r].tracked)
                        /\ job'[r].step = IF r = 1 THEN "thread" ELSE "none"
    BY <1>1, <2>1, <2>2 DEF OneFollower, OthersKept, JobBecomes
  <2> QED BY <1>1, <2>1, <2>2, <2>3 DEF OneFollower
<1>9. ASSUME NEW i \in Requests, Expiring(i) PROVE OneFollower'
  <2>1. UNCHANGED <<run, bound, job, loaded>> /\ Settling(i, "rejected") /\ closing' = closing
    BY <1>9 DEF Expiring, Settling
  <2> QED BY <1>2, <2>1, InboxParts
<1>10. ASSUME NEW i, NEW ok, Replying(i, ok) PROVE OneFollower'
  <2>1. UNCHANGED <<run, bound, job, loaded, request, closing>> /\ Inbox' \subseteq Inbox
    BY <1>10 DEF Replying, Writing
  <2> QED BY <1>2, <2>1, InboxParts
<1>11. ASSUME NEW r \in Runs, NEW i \in Requests, Following(r, i) PROVE OneFollower'
  <2>1. /\ bound' = r /\ run'[r].tracked /\ loaded' = loaded
        /\ \A o \in Runs \ {r} : job[o].step # "resume"
        /\ \A k \in Inbox : request[k].method # "turn/start"
        /\ \E s \in Runs : run[s].row # 0
        /\ \A s \in Runs \ {r} : run'[s].tracked = (run[s].tracked /\ s # bound)
    BY <1>11 DEF Following
  <2>2. \A s \in Runs : job[s].step # "thread"
    BY <1>1, <2>1 DEF OneFollower
  <2>3. \A s \in Runs \ {r} : ~run'[s].tracked
    BY <1>1, <2>1, <2>2 DEF OneFollower
  <2>4. PICK step \in {"turn", "resume"} :
          /\ Asking(i, 0, Method(step), 0) /\ JobBecomes(r, step, i)
          /\ step = "resume" => ~(loaded # 0 /\ loaded = child)
    BY <1>11 DEF Following, Method
  <2>5. step = "resume" => loaded' = 0
    BY <1>1, <2>1, <2>4 DEF LoadedFirst
  <2> QED BY <2>1, <2>2, <2>3, <2>4, <2>5, FollowerAsks
<1>12. ASSUME NEW r \in Runs, NEW i \in Requests, Resuming(r, i) PROVE OneFollower'
  <2>1. /\ Asking(i, job[r].id, "turn/start", 0) /\ JobBecomes(r, "turn", i)
        /\ job[r].step \in {"thread", "resume"} /\ request[job[r].id].state = "resolved"
        /\ job[r].starts => run[r].tracked
        /\ bound' = (IF job[r].starts THEN r ELSE bound)
        /\ run'[r].tracked = run[r].tracked /\ OthersKept(r)
    BY <1>12 DEF Resuming
  <2>2. /\ bound' = r /\ run[r].tracked
        /\ \A s \in Runs : s # r => job[s].step # "thread" /\ job[s].step # "resume"
        /\ \A k \in Inbox : request[k].method # "turn/start"
    BY <1>1, <2>1, Resumes DEF OneFollower
  <2>3. \A s \in Runs \ {r} : ~run[s].tracked
    BY <1>1, <2>1, <2>2, Resumes DEF OneFollower
  <2>4. \A s \in Runs \ {r} : ~run'[s].tracked
    BY <2>1, <2>3 DEF OthersKept
  <2> QED BY <2>1, <2>2, <2>4, FollowerAsks DEF Method
<1>13. ASSUME NEW r \in Runs, NEW i \in Requests, Stopping(r, i) PROVE OneFollower'
  <2>1. /\ UNCHANGED <<run, bound, job, loaded>> /\ closing' = closing
        /\ Asking(i, 0, "turn/interrupt", run[bound].turn)
    BY <1>13 DEF Stopping, Asking
  <2> QED BY <1>2, <2>1, InboxParts
<1>14. ASSUME NEW r \in Runs, Beginning(r) PROVE OneFollower'
  <2>1. /\ UNCHANGED <<bound, loaded, closing>> /\ Settling(job[r].id, "done")
        /\ job[r].step = "turn" /\ JobEnds(r)
    BY <1>14 DEF Beginning, Settling
  <2>2. ASSUME NEW s \in Runs PROVE run'[s].tracked = run[s].tracked
    BY <1>14 DEF Beginning, OthersKept
  <2>3. \A s \in Runs : job'[s] = job[s] \/ (job'[s].step = "none" /\ job[s].step # "thread")
    BY <2>1 DEF JobEnds
  <2> QED BY <2>1, <2>2, <2>3, InboxParts, FollowerKeep
<1>15. ASSUME NEW r \in Runs, Failing(r), ~job[r].starts PROVE OneFollower'
  <2>1. /\ UNCHANGED <<bound, loaded, closing>> /\ Settling(job[r].id, "done")
        /\ job[r].step # "none" /\ JobEnds(r) /\ run'[r].tracked = run[r].tracked /\ OthersKept(r)
    BY <1>15 DEF Failing, Settling
  <2>2. job[r].step \in {"turn", "resume"}
    <3>1. job[r].step # "thread"
      BY <1>1, <1>15 DEF OneFollower
    <3> QED BY <2>1, <3>1, CallParts
  <2>3. ASSUME NEW s \in Runs PROVE run'[s].tracked = run[s].tracked
    BY <2>1 DEF OthersKept
  <2>4. \A s \in Runs : job'[s] = job[s] \/ (job'[s].step = "none" /\ job[s].step # "thread")
    BY <2>1, <2>2 DEF JobEnds
  <2> QED BY <2>1, <2>2, <2>3, <2>4, InboxParts, FollowerKeep
<1>16. ASSUME NEW r \in Runs, Failing(r), job[r].starts PROVE OneFollower'
  <2>1. /\ UNCHANGED <<loaded, closing>> /\ Settling(job[r].id, "done")
        /\ job[r].step # "none" /\ JobEnds(r) /\ ~run'[r].tracked /\ OthersKept(r)
        /\ bound' = (IF run[r].tracked /\ bound = r THEN 0 ELSE bound)
        /\ run'[r].phase = "running" <=> run[r].phase = "running"
    BY <1>16 DEF Failing, Settling
  <2>2. InboxStays
    BY <2>1, InboxParts
  <2>3. bound = r => bound' = 0
    BY <1>1, <2>1 DEF OneFollower
  <2>4. \A s \in Runs : job'[s].step # "none" => s # r /\ job'[s] = job[s] /\ run'[s] = run[s]
    BY <2>1 DEF JobEnds, OthersKept
  <2>5. \A s \in Runs : run'[s].tracked => s # r /\ run[s].tracked /\ run'[s] = run[s] /\ job'[s] = job[s]
    BY <2>1 DEF JobEnds, OthersKept
  <2>6. \A s \in Runs : job'[s].step # "thread"
    BY <1>1, <2>1, <2>4 DEF OneFollower
  <2>7. \A s \in Runs : job'[s].step = "turn" /\ job'[s].id \in Inbox' => bound = s /\ s # r
    <3> SUFFICES ASSUME NEW s \in Runs, job'[s].step = "turn", job'[s].id \in Inbox'
                 PROVE  bound = s /\ s # r
      OBVIOUS
    <3>1. request'[job'[s].id].method = "turn/start"
      BY DEF JobsOwn, Method
    <3>2. job'[s] = job[s] /\ s # r
      BY <2>4
    <3>3. job[s].id \in Inbox
      BY <2>2, <3>1, <3>2 DEF InboxStays
    <3> QED BY <1>1, <3>2, <3>3 DEF OneFollower
  <2>8. \A s \in Runs : job'[s].step = "resume" =>
          closing' \/ (bound' = s /\ loaded' = 0 /\ \A u \in Runs : u # s => job'[u].step # "resume")
    <3> SUFFICES ASSUME NEW s \in Runs, job'[s].step = "resume", ~closing'
                 PROVE  bound' = s /\ loaded' = 0 /\ \A u \in Runs : u # s => job'[u].step # "resume"
      OBVIOUS
    <3>1. job[s].step = "resume" /\ s # r
      BY <2>4
    <3>2. bound = s /\ loaded = 0 /\ \A u \in Runs : u # s => job[u].step # "resume"
      BY <1>1, <2>1, <3>1 DEF OneFollower
    <3> QED BY <2>1, <2>4, <3>1, <3>2
  <2>9. ASSUME NEW s \in Runs, NEW i \in Inbox', run'[s].tracked, job'[s].step = "turn",
               request'[i].method = "turn/start"
        PROVE  job'[s].id = i
    <3>1. run[s].tracked /\ job'[s] = job[s]
      BY <2>5, <2>9
    <3>2. i \in Inbox /\ request[i].method = "turn/start"
      BY <2>2, <2>9 DEF InboxStays
    <3> QED BY <1>1, <2>9, <3>1, <3>2 DEF OneFollower
  <2>10. \A s \in Runs : run'[s].tracked => s = bound' \/ job'[s].step = "thread"
    BY <1>1, <2>1, <2>5 DEF OneFollower
  <2>11. bound' # 0 => run'[bound'].tracked
    BY <1>1, <2>1, <2>3 DEF OneFollower, OthersKept
  <2>12. \A s \in Runs : job'[s].step = "turn" /\ job'[s].id \in Inbox' => bound' = s
    BY <2>1, <2>7
  <2> QED BY <2>6, <2>8, <2>9, <2>10, <2>11, <2>12 DEF OneFollower
<1>17. ASSUME NEW r \in Runs, Interrupting(r) PROVE OneFollower'
  <2>1. UNCHANGED <<run, bound, job, loaded>> /\ Settling(stop[r].id, "done") /\ closing' = closing
    BY <1>17 DEF Interrupting, Settling
  <2> QED BY <1>2, <2>1, InboxParts
<1>18. ASSUME NEW r \in Runs, GivingUp(r) PROVE OneFollower'
  <2>1. UNCHANGED <<run, bound, job, loaded>> /\ InboxStays /\ closing' = closing
    BY <1>18 DEF GivingUp, connection, InboxStays, Inbox
  <2> QED BY <1>2, <2>1
<1>19. ASSUME NEW m, Hearing(m) \/ Completing(m) PROVE OneFollower'
  <2>1. Reading(m) /\ request' = request /\ UNCHANGED <<bound, loaded, job, closing>>
    BY <1>19 DEF Hearing, Completing, Reading
  <2>2. run' = run \/ (bound # 0 /\ run'[bound].tracked = run[bound].tracked /\ OthersKept(bound))
    BY <1>19 DEF Hearing, Completing, Hears
  <2>3. \A s \in Runs : run'[s].tracked = run[s].tracked
    BY <2>2 DEF OthersKept
  <2>4. bound # 0 \/ \A s \in Runs : run'[s] = run[s]
    BY <2>2
  <2> QED BY <2>1, <2>3, <2>4, InboxParts, FollowerKeep
<1>20. ASSUME NEW m, Answering(m) PROVE OneFollower'
  <2>1. UNCHANGED <<run, bound, job, loaded>> /\ Reading(m) /\ Taking(m) /\ closing' = closing
    BY <1>20 DEF Answering, Reading
  <2> QED BY <1>2, <2>1, InboxParts
<1>21. ASSUME NEW i, NEW n, TurnBegins(i, n) \/ TurnStops(i, n) PROVE OneFollower'
  <2>1. UNCHANGED <<run, bound, job, loaded, request, closing>> /\ Inbox' \subseteq Inbox
    BY <1>21 DEF TurnBegins, TurnStops, Writing
  <2> QED BY <1>2, <2>1, InboxParts
<1> QED BY <1>3, <1>4, <1>5, <1>6, <1>7, <1>8, <1>9, <1>10, <1>11, <1>12, <1>13, <1>14, <1>15, <1>16,
           <1>17, <1>18, <1>19, <1>20, <1>21 DEF Steps

-----------------------------------------------------------------------------
(* What the provider keeps of a run *)

LEMMA NewsIs ==
  ASSUME TypeOK, Good, NEW m \in Lines, m.kind \in {"started", "completed"}
  PROVE  m = News(m.kind, m.turn) /\ m.turn \in Turns /\ turn[m.turn] # "none"
<1>1. m \in MessageType /\ m.id = 0 /\ m.turn \in Turns \cup {0} /\ m.turn # 0 /\ turn[m.turn] # "none"
  BY LineKnown DEF Answers
<1>2. m = News(m.kind, m.turn)
  BY <1>1 DEF MessageType, News
<1> QED BY <1>1, <1>2

\* Turns that are over stay so, and what is said of a turn is not about earlier ones.
LEMMA TurnsMove ==
  ASSUME TypeOK, Good, Moves, NEW k \in Turns
  PROVE  /\ turn[k] = "done" => turn'[k] = "done"
         /\ turn[k] = "done" /\ News("completed", k) \notin Lines => News("completed", k) \notin Lines'
         /\ turn[k] # "none" => \A x \in Lines' : x.turn # 0 /\ x \notin Lines => x.turn >= k
<1>1. turn \in [Turns -> {"none", "busy", "done"}] /\ TurnsInOrder
  BY GoodParts, TypeParts
<1>2. \A i, ok, n : Answer(i, ok, n) # News("completed", k) /\ Answer(i, ok, n).turn = n
  BY DEF Answer, News
<1>3. \A kind, n : News(kind, n).turn = n /\ (News(kind, n) = News("completed", k) => n = k)
  BY DEF News
<1>4. CASE UNCHANGED turn /\ (Lines' = Lines \/ \E m : Reading(m))
  BY <1>4 DEF Reading
<1>5. ASSUME NEW i, NEW ok, UNCHANGED turn, Lines' = Lines \cup {Answer(i, ok, 0)}
      PROVE  /\ turn[k] = "done" => turn'[k] = "done"
             /\ turn[k] = "done" /\ News("completed", k) \notin Lines => News("completed", k) \notin Lines'
             /\ turn[k] # "none" => \A x \in Lines' : x.turn # 0 /\ x \notin Lines => x.turn >= k
  BY <1>2, <1>5
<1>6. CASE Lines' = {} /\ \A l \in Turns : turn'[l] = turn[l] \/ (turn[l] = "busy" /\ turn'[l] = "done")
  BY <1>1, <1>6
<1>7. ASSUME NEW i, NEW n \in Turns, TurnBegins(i, n)
      PROVE  /\ turn[k] = "done" => turn'[k] = "done"
             /\ turn[k] = "done" /\ News("completed", k) \notin Lines => News("completed", k) \notin Lines'
             /\ turn[k] # "none" => \A x \in Lines' : x.turn # 0 /\ x \notin Lines => x.turn >= k
  <2>1. /\ turn[n] = "none" /\ \A l \in Turns \ {n} : turn'[l] = turn[l]
        /\ Lines' \subseteq Lines \cup {News("started", n), News("completed", n), Answer(i, TRUE, n)}
    BY <1>7 DEF TurnBegins, NextTurn, Writing
  <2>2. \A x \in Lines' : x \notin Lines => x.turn = n
    BY <2>1 DEF News, Answer
  <2>3. turn[k] # "none" => k # n /\ k <= n
    BY <1>1, <2>1 DEF TurnsInOrder, Turns
  <2> QED BY <1>2, <1>3, <2>1, <2>2, <2>3 DEF Turns
<1>8. ASSUME NEW i, NEW n \in Turns, TurnStops(i, n)
      PROVE  /\ turn[k] = "done" => turn'[k] = "done"
             /\ turn[k] = "done" /\ News("completed", k) \notin Lines => News("completed", k) \notin Lines'
             /\ turn[k] # "none" => \A x \in Lines' : x.turn # 0 /\ x \notin Lines => x.turn >= k
  <2>1. /\ turn[n] = "busy" /\ turn'[n] = "done" /\ \A l \in Turns \ {n} : turn'[l] = turn[l]
        /\ Lines' \subseteq Lines \cup {News("completed", n), Answer(i, TRUE, 0)}
    BY <1>8 DEF TurnStops, Writing
  <2>2. \A x \in Lines' : x \notin Lines => x.turn = n \/ x.turn = 0
    BY <2>1 DEF News, Answer
  <2>3. turn[k] # "none" => k <= n
    BY <1>1, <2>1 DEF TurnsInOrder
  <2>4. turn[k] = "done" => k # n
    BY <2>1
  <2> QED BY <1>2, <1>3, <2>1, <2>2, <2>3, <2>4 DEF Turns
<1> QED BY <1>4, <1>5, <1>6, <1>7, <1>8, LinesMove

\* A turn is over for who reads the lines when its end is read.
LEMMA CurrentKept ==
  ASSUME TypeOK, Good, Steps, Moves, ~Dying, ~Disposing, NEW k \in Turns, Current(k)
  PROVE  Current(k)' \/ (Completing(News("completed", k)) /\ News("completed", k) \in Lines)
<1> DEFINE c == News("completed", k)
<1>1. c.kind = "completed" /\ c.turn = k
  BY DEF News
<1>2. loaded # 0
  BY <1>1, GoodParts, Numbers DEF LoadedFirst, Current
<1>3. UNCHANGED <<child, starting>> /\ child # 0
  BY <1>2, ChildKept
<1>4. ~Ending
  BY <1>3 DEF Ending
<1>5. turn'[k] = "busy" \/ c \in Lines' \/ (c \in Lines /\ c \notin Lines')
  <2>1. CASE c \in Lines
    BY <2>1
  <2>2. CASE turn[k] = "busy"
    <3>1. ASSUME NEW i, NEW n \in Turns, TurnBegins(i, n) PROVE turn'[k] = "busy"
      <4>1. k # n /\ \A l \in Turns \ {n} : turn'[l] = turn[l]
        BY <2>2, <3>1 DEF TurnBegins, NextTurn
      <4> QED BY <2>2, <4>1
    <3>2. ASSUME NEW i, NEW n \in Turns, TurnStops(i, n) PROVE turn'[k] = "busy" \/ c \in Lines'
      <4>1. (\A l \in Turns \ {n} : turn'[l] = turn[l]) /\ News("completed", n) \in Lines'
        BY <3>2 DEF TurnStops, Writing
      <4> QED BY <2>2, <4>1
    <3> QED BY <1>4, <2>2, <3>1, <3>2 DEF Moves
  <2> QED BY <2>1, <2>2 DEF Current
<1>6. ASSUME c \in Lines, c \notin Lines' PROVE Completing(c)
  <2>1. ASSUME NEW m, Reading(m) PROVE m = c
    BY <1>6, <2>1 DEF Reading
  <2>2. \A r, i : /\ ~Starting(i) /\ ~Following(r, i) /\ ~Resuming(r, i) /\ ~Stopping(r, i)
                  /\ ~Beginning(r) /\ ~Failing(r) /\ ~Interrupting(r) /\ ~Expiring(i)
    <3>1. (\A i, j, method, t : ~Asking(i, j, method, t)) /\ \A j, state : ~Settling(j, state)
      BY <1>6 DEF Asking, Settling
    <3>2. \A r, i : ~Starting(i) /\ ~Following(r, i) /\ ~Resuming(r, i) /\ ~Stopping(r, i)
      BY <3>1, AskersAsk
    <3>3. \A r, i : ~Beginning(r) /\ ~Failing(r) /\ ~Interrupting(r) /\ ~Expiring(i)
      BY <3>1 DEF Beginning, Failing, Interrupting, Expiring
    <3> QED BY <3>2, <3>3
  <2>3. ~Greeting
    BY <1>6 DEF Greeting, Shaking
  <2>4. \A r : ~(UNCHANGED vars) /\ ~Closing /\ ~GivingUp(r)
    BY <1>6 DEF vars, Closing, GivingUp, connection, Lines
  <2>5. \A i, n : ~TurnBegins(i, n) /\ ~TurnStops(i, n) /\ \A ok : ~Replying(i, ok)
    BY <1>6, WritersWrite
  <2>6. \A m : ~Hearing(m) /\ ~Answering(m)
    <3>1. \A m : Hearing(m) => m = c /\ m.kind = "started"
      BY <2>1 DEF Hearing
    <3>2. \A m : Answering(m) => m = c /\ m.kind \in Answers
      BY <2>1 DEF Answering, Taking
    <3> QED BY <1>1, <3>1, <3>2 DEF Answers
  <2>7. \A m : Completing(m) => m = c
    BY <2>1 DEF Completing
  <2> QED BY <2>2, <2>3, <2>4, <2>5, <2>6, <2>7 DEF Steps
<1> QED BY <1>5, <1>6 DEF Current

PhaseOf(r) ==
  /\ run[r].phase = "running" => run[r].turn # run[r].last /\ run[r].turn # 0
  /\ run[r].last # 0 => turn[run[r].last] = "done" /\ News("completed", run[r].last) \notin Lines
  /\ run[r].tracked => \A x \in Lines : x.turn # 0 => x.turn >= run[r].last
  /\ run[r].tracked /\ run[r].phase = "running" =>
       /\ Current(run[r].turn)
       /\ \A x \in Lines : x.turn # 0 => x.turn >= run[r].turn

\* A run whose turn is followed is the one of the thread.
LEMMA FollowerIs ==
  ASSUME TypeOK, Good, NEW r \in Runs, run[r].tracked
  PROVE  /\ r = bound \/ (bound = 0 /\ loaded = 0 /\ job[r].step = "thread" /\ run[r].phase # "running")
         /\ run[r].phase = "running" => r = bound /\ loaded # 0 /\ Hears
                                        /\ run[r].turn \in Turns /\ turn[run[r].turn] # "none"
<1>1. OneFollower /\ Phases /\ LoadedFirst /\ bound \in Runs \cup {0} /\ 0 \notin Runs
  BY GoodParts, TypeParts, Numbers
<1>2. r = bound \/ (bound = 0 /\ loaded = 0 /\ job[r].step = "thread" /\ run[r].phase # "running")
  BY <1>1 DEF OneFollower
<1>3. ASSUME run[r].phase = "running"
      PROVE  r = bound /\ loaded # 0 /\ Hears /\ run[r].turn \in Turns /\ turn[run[r].turn] # "none"
  <2>1. r = bound /\ bound # 0
    BY <1>1, <1>2, <1>3
  <2>2. Current(run[r].turn) /\ run[r].turn \in Turns
    <3>1. run[r].turn \in Turns \cup {0} /\ run[r].turn # 0
      BY <1>1, <1>3, RunParts, TypeParts DEF Phases, TypeOK, ProviderTypes
    <3> QED BY <1>1, <1>3, <3>1 DEF Phases
  <2>3. loaded # 0 /\ turn[run[r].turn] # "none"
    <3>1. CASE turn[run[r].turn] = "busy"
      BY <1>1, <2>2, <3>1 DEF LoadedFirst
    <3>2. CASE News("completed", run[r].turn) \in Lines
      <4>1. News("completed", run[r].turn).turn = run[r].turn
        BY DEF News
      <4> QED BY <1>1, <2>2, <3>2, <4>1, LineKnown, Numbers DEF LoadedFirst
    <3> QED BY <2>2, <3>1, <3>2 DEF Current
  <2>4. Hears
    BY <1>1, <2>1, <2>3 DEF LoadedFirst, Hears
  <2> QED BY <2>1, <2>2, <2>3, <2>4
<1> QED BY <1>2, <1>3

LinesTyped == \A x \in Lines : x.turn \in Turns \cup {0}

\* A run that is not marked running, and does not get a turn that ended, is as before.
LEMMA PhaseKeep ==
  ASSUME TypeOK, Good, Moves, LinesTyped', NEW r \in Runs,
         run'[r].last = run[r].last, run'[r].tracked => run[r].tracked,
         run'[r].phase = "running" => run[r].phase = "running" /\ run'[r].turn = run[r].turn,
         run'[r].tracked /\ run'[r].phase = "running" => Current(run[r].turn)'
  PROVE  PhaseOf(r)'
<1>1. PhaseOf(r) /\ run[r].last \in Turns \cup {0} /\ run[r].turn \in Turns \cup {0}
  BY GoodParts, TypeParts, RunParts DEF Phases, PhaseOf, TypeOK, ProviderTypes
<1>2. run'[r].phase = "running" => run'[r].turn # run'[r].last /\ run'[r].turn # 0
  BY <1>1 DEF PhaseOf
<1>3. run'[r].last # 0 => turn'[run'[r].last] = "done" /\ News("completed", run'[r].last) \notin Lines'
  BY <1>1, TurnsMove DEF PhaseOf
<1>4. ASSUME run'[r].tracked, NEW x \in Lines', x.turn # 0 PROVE x.turn >= run'[r].last
  <2>1. CASE x \in Lines
    BY <1>1, <1>4, <2>1 DEF PhaseOf
  <2>2. CASE x \notin Lines /\ run[r].last # 0
    BY <1>1, <1>4, <2>2, TurnsMove DEF PhaseOf
  <2>3. CASE x \notin Lines /\ run[r].last = 0
    <3>1. x.turn \in Nat
      BY DEF LinesTyped, Turns
    <3> QED BY <2>3, <3>1
  <2> QED BY <2>1, <2>2, <2>3
<1>5. ASSUME run'[r].tracked, run'[r].phase = "running", NEW x \in Lines', x.turn # 0
      PROVE  x.turn >= run'[r].turn
  <2>1. CASE x \in Lines
    BY <1>1, <1>5, <2>1 DEF PhaseOf
  <2>2. CASE x \notin Lines
    <3>1. run[r].turn \in Turns /\ turn[run[r].turn] # "none"
      BY <1>5, FollowerIs
    <3> QED BY <1>5, <2>2, <3>1, TurnsMove
  <2> QED BY <2>1, <2>2
<1> QED BY <1>1, <1>2, <1>3, <1>4, <1>5 DEF PhaseOf

LEMMA PhaseSame ==
  ASSUME TypeOK, Good, Steps, Moves, LinesTyped', ~Dying, ~Disposing, NEW r \in Runs,
         run'[r] = run[r],
         \A m : Completing(m) /\ run[r].tracked /\ run[r].phase = "running" => m.turn # run[r].turn
  PROVE  PhaseOf(r)'
<1>1. ASSUME run[r].tracked, run[r].phase = "running" PROVE Current(run[r].turn)'
  <2>1. run[r].turn \in Turns /\ Current(run[r].turn)
    BY <1>1, FollowerIs, GoodParts DEF Phases
  <2>2. News("completed", run[r].turn).turn = run[r].turn
    BY DEF News
  <2>3. ~Completing(News("completed", run[r].turn))
    BY <1>1, <2>2
  <2> QED BY <2>1, <2>3, CurrentKept
<1> QED BY <1>1, PhaseKeep

LEMMA PhaseDying ==
  ASSUME TypeOK, Good, Dying, Moves, LinesTyped', NEW r \in Runs
  PROVE  PhaseOf(r)'
<1>1. /\ Lines' = {} /\ turn \in [Turns -> {"none", "busy", "done"}] /\ PhaseOf(r)
      /\ \A k \in Turns : turn'[k] = IF turn[k] = "busy" THEN "done" ELSE turn[k]
  BY GoodParts, TypeParts DEF Dying, Ending, Phases, PhaseOf
<1>2. CASE Interrupted(r)
  <2>1. run'[r].phase = "idle" /\ run'[r].last = run[r].turn
    BY <1>2 DEF Dying
  <2>2. run[r].turn \in Turns /\ turn[run[r].turn] # "none"
    BY <1>2, FollowerIs DEF Interrupted
  <2>3. turn'[run'[r].last] = "done"
    BY <1>1, <2>1, <2>2
  <2> QED BY <1>1, <2>1, <2>3 DEF PhaseOf
<1>3. CASE ~Interrupted(r)
  <2>1. run'[r] = run[r]
    BY <1>3 DEF Dying
  <2>2. ~(run[r].tracked /\ run[r].phase = "running")
    <3>1. run[r].tracked /\ run[r].phase = "running" => r = bound /\ run[bound].child \in {0, child}
      BY FollowerIs DEF Hears
    <3> QED BY <1>3, <3>1 DEF Interrupted
  <2> QED BY <2>1, <2>2, PhaseKeep
<1> QED BY <1>2, <1>3

LEMMA PhaseFollowing ==
  ASSUME TypeOK, Good, Steps, Moves, LinesTyped', ~Dying, ~Disposing,
         NEW r \in Runs, NEW i \in Requests, Following(r, i), NEW s \in Runs
  PROVE  PhaseOf(s)'
<1>1. /\ bound = 0 => run'[r].last = 0
      /\ bound # 0 => run'[r].last = run[bound].last /\ run[bound].phase = "idle"
      /\ run'[r].phase # "running"
      /\ turn' = turn /\ Lines' = Lines
  BY DEF Following, Asking
<1>2. CASE s = r
  <2>1. CASE bound = 0
    <3>1. \A x \in Lines' : x.turn # 0 => x.turn >= 0
      BY DEF LinesTyped, Turns
    <3> QED BY <1>1, <1>2, <2>1, <3>1 DEF PhaseOf
  <2>2. CASE bound # 0
    <3>1. bound \in Runs /\ run[bound].tracked /\ PhaseOf(bound)
      BY <2>2, GoodParts, TypeParts DEF OneFollower, Phases, PhaseOf
    <3>2. /\ run[bound].last # 0 => turn[run[bound].last] = "done"
                                     /\ News("completed", run[bound].last) \notin Lines
          /\ \A x \in Lines : x.turn # 0 => x.turn >= run[bound].last
      BY <3>1 DEF PhaseOf
    <3> QED BY <1>1, <1>2, <2>2, <3>2 DEF PhaseOf
  <2> QED BY <2>1, <2>2
<1>3. CASE s # r
  <2>1. /\ run'[s].tracked = (run[s].tracked /\ s # bound)
        /\ run'[s].phase = run[s].phase /\ run'[s].turn = run[s].turn /\ run'[s].last = run[s].last
    BY <1>3 DEF Following
  <2>2. ~(run'[s].tracked /\ run'[s].phase = "running")
    BY <2>1, FollowerIs
  <2> QED BY <2>1, <2>2, PhaseKeep
<1> QED BY <1>2, <1>3

LEMMA PhaseBeginning ==
  ASSUME TypeOK, Good, Steps, Moves, LinesTyped', ~Dying, ~Disposing,
         NEW r \in Runs, Beginning(r), NEW s \in Runs
  PROVE  PhaseOf(s)'
<1>6. PICK k : k = request[job[r].id].turn
  OBVIOUS
<1>1. /\ turn' = turn /\ Lines' = Lines /\ job[r].step = "turn" /\ request[job[r].id].state = "resolved"
      /\ job[r].id \in Requests /\ request[job[r].id].method = "turn/start"
  BY CallParts DEF Beginning, Settling, Method
<1>2. k \in Turns /\ turn[k] # "none"
  <2>1. k \in Turns \cup {0} /\ k # 0 /\ turn[k] # "none"
    BY <1>1, <1>6, GoodParts, TypeParts, RequestParts DEF JobsOwn
  <2> QED BY <2>1
<1>3. \A m : ~Completing(m)
  BY <1>1 DEF Completing, Reading
<1>4. CASE k = run[r].last \/ s # r
  <2>1. run'[s] = run[s]
    BY <1>4, <1>6 DEF Beginning, OthersKept
  <2> QED BY <1>3, <2>1, PhaseSame
<1>5. CASE k # run[r].last /\ s = r
  <2>1. /\ run'[r].phase = "running" /\ run'[r].turn = k /\ run'[r].tracked = run[r].tracked
        /\ run'[r].last = run[r].last
    BY <1>5, <1>6 DEF Beginning
  <2>2. PhaseOf(r)
    BY GoodParts DEF Phases, PhaseOf
  <2>3. ASSUME run[r].tracked PROVE Current(k) /\ \A x \in Lines : x.turn # 0 => x.turn >= k
    <3>1. AnswerIs(job[r].id, k)
      BY <1>1, <1>6 DEF AnswerIs
    <3>2. /\ \A x \in Lines : x.turn # 0 => x.turn >= k
          /\ News("started", k) \in Lines \/ Running(r, k)
      BY <1>1, <1>2, <1>5, <2>3, <3>1, GoodParts DEF AnswersFit
    <3>3. CASE News("started", k) \in Lines
      <4>1. News("started", k).kind = "started" /\ News("started", k).turn = k
        BY DEF News
      <4>2. turn[k] = "busy" \/ News("completed", k) \in Lines
        BY <3>3, <4>1, GoodParts DEF NewsKnown
      <4> QED BY <3>2, <4>2 DEF Current
    <3>4. CASE Running(r, k)
      BY <2>2, <3>2, <3>4 DEF PhaseOf, Running
    <3> QED BY <3>2, <3>3, <3>4
  <2>4. Current(k)' <=> Current(k)
    BY <1>1 DEF Current
  <2> QED BY <1>1, <1>2, <1>5, <2>1, <2>2, <2>3, <2>4, Numbers DEF PhaseOf
<1> QED BY <1>4, <1>5

LEMMA PhaseHearing ==
  ASSUME TypeOK, Good, Steps, Moves, LinesTyped', ~Dying, ~Disposing, NEW m, Hearing(m), NEW s \in Runs
  PROVE  PhaseOf(s)'
<1>1. /\ m \in Lines /\ Lines' = Lines \ {m} /\ turn' = turn /\ m.kind = "started"
      /\ \A x \in Lines' : Behind(m, x)
  BY DEF Hearing, Reading
<1>2. m = News("started", m.turn) /\ m.turn \in Turns /\ turn[m.turn] # "none"
  BY <1>1, NewsIs
<1>3. \A x : ~Completing(x)
  BY <1>1 DEF Completing, Reading
<1>4. CASE run'[s] = run[s]
  BY <1>3, <1>4, PhaseSame
<1>5. CASE run'[s] # run[s]
  <2>1. /\ Hears /\ m.turn # run[bound].last /\ s = bound
        /\ run'[s].phase = "running" /\ run'[s].turn = m.turn
        /\ run'[s].tracked = run[s].tracked /\ run'[s].last = run[s].last
    BY <1>5 DEF Hearing, OthersKept
  <2>2. PhaseOf(s)
    BY GoodParts DEF Phases, PhaseOf
  <2>3. \A x \in Lines' : x.turn # 0 => x.turn >= m.turn
    <3>1. \A x \in Lines' : x.turn # 0 => m.turn <= x.turn
      BY <1>1, <1>2, Numbers DEF Behind
    <3> QED BY <1>2, <3>1 DEF LinesTyped, Turns
  <2>4. turn[m.turn] = "busy" \/ News("completed", m.turn) \in Lines
    BY <1>1, GoodParts DEF NewsKnown
  <2>5. News("completed", m.turn) # m
    BY <1>1 DEF News
  <2>6. PICK k : k = m.turn
    OBVIOUS
  <2>7. Current(k)'
    BY <1>1, <2>4, <2>5, <2>6 DEF Current
  <2> QED BY <1>1, <1>2, <2>1, <2>2, <2>3, <2>6, <2>7, Numbers DEF PhaseOf
<1> QED BY <1>4, <1>5

LEMMA PhaseCompleting ==
  ASSUME TypeOK, Good, Steps, Moves, LinesTyped', ~Dying, ~Disposing, NEW m, Completing(m), NEW s \in Runs
  PROVE  PhaseOf(s)'
<1>1. /\ m \in Lines /\ Lines' = Lines \ {m} /\ turn' = turn /\ m.kind = "completed"
      /\ \A x \in Lines' : Behind(m, x)
  BY DEF Completing, Reading
<1>2. m = News("completed", m.turn) /\ m.turn \in Turns /\ turn[m.turn] # "none" /\ turn[m.turn] = "done"
  BY <1>1, NewsIs, GoodParts DEF NewsKnown
<1>3. \A x : Completing(x) => x = m
  BY <1>1 DEF Completing, Reading
<1>4. CASE Hears /\ m.turn # run[bound].last /\ run[bound].turn \in {0, m.turn} /\ s = bound
  <2>1. run'[s].phase = "idle" /\ run'[s].last = m.turn
    BY <1>4 DEF Completing
  <2>2. \A x \in Lines' : x.turn # 0 => x.turn >= m.turn
    <3>1. \A x \in Lines' : x.turn # 0 => m.turn <= x.turn
      BY <1>1, <1>2, Numbers DEF Behind
    <3> QED BY <1>2, <3>1 DEF LinesTyped, Turns
  <2>3. News("completed", m.turn) \notin Lines'
    BY <1>1, <1>2
  <2> QED BY <1>1, <1>2, <2>1, <2>2, <2>3 DEF PhaseOf
<1>5. CASE ~(Hears /\ m.turn # run[bound].last /\ run[bound].turn \in {0, m.turn} /\ s = bound)
  <2>1. run'[s] = run[s]
    BY <1>5 DEF Completing, OthersKept
  <2>2. ASSUME run[s].tracked, run[s].phase = "running", m.turn = run[s].turn PROVE FALSE
    <3>1. s = bound /\ Hears /\ run[s].turn # run[s].last
      BY <2>2, FollowerIs, GoodParts DEF Phases
    <3> QED BY <1>5, <2>2, <3>1
  <2> QED BY <1>3, <2>1, <2>2, PhaseSame
<1> QED BY <1>4, <1>5

LEMMA PhasesStep ==
  ASSUME TypeOK, Good, Steps, Moves, LinesTyped'
  PROVE  Phases'
<1> SUFFICES ASSUME NEW s \in Runs PROVE PhaseOf(s)'
  BY DEF Phases, PhaseOf
<1>1. CASE Dying
  BY <1>1, PhaseDying
<1>2. CASE Disposing
  <2>1. ~run'[s].tracked /\ run'[s].phase = run[s].phase /\ run'[s].last = run[s].last
        /\ run'[s].turn = run[s].turn
    BY <1>2 DEF Disposing
  <2> QED BY <2>1, PhaseKeep
<1>3. ASSUME ~Dying, ~Disposing, run'[s] = run[s], \A m : ~Completing(m) PROVE PhaseOf(s)'
  BY <1>3, PhaseSame
<1>4. ASSUME run'[s] # run[s] \/ \E m : Completing(m), ~Dying, ~Disposing PROVE PhaseOf(s)'
  <2>1. ASSUME NEW i \in Requests, Starting(i) PROVE PhaseOf(s)'
    <3>1. /\ run'[1].last = 0 /\ run'[1].phase = "turn-starting" /\ OthersKept(1)
          /\ \A m : ~Completing(m)
      <4>1. Lines' = Lines
        BY <2>1 DEF Starting, Asking
      <4> QED BY <2>1, <4>1 DEF Starting, Completing, Reading
    <3>2. CASE s # 1
      BY <1>3, <1>4, <3>1, <3>2 DEF OthersKept
    <3>3. CASE s = 1
      <4>1. \A x \in Lines' : x.turn # 0 => x.turn >= 0
        BY DEF LinesTyped, Turns
      <4> QED BY <3>1, <3>3, <4>1 DEF PhaseOf
    <3> QED BY <3>2, <3>3
  <2>2. ASSUME NEW r \in Runs, NEW i \in Requests, Resuming(r, i) PROVE PhaseOf(s)'
    <3>1. /\ run'[r].phase = "turn-starting" /\ run'[r].tracked = run[r].tracked
          /\ run'[r].last = run[r].last /\ OthersKept(r) /\ Lines' = Lines
      BY <2>2 DEF Resuming, Asking
    <3>2. \A m : ~Completing(m)
      BY <3>1 DEF Completing, Reading
    <3>3. s = r => PhaseOf(s)'
      BY <3>1, PhaseKeep
    <3> QED BY <1>3, <1>4, <3>1, <3>2, <3>3 DEF OthersKept
  <2>3. ASSUME NEW r \in Runs, Failing(r) PROVE PhaseOf(s)'
    <3>1. /\ run'[r].turn = run[r].turn /\ run'[r].last = run[r].last
          /\ run'[r].phase = "running" <=> run[r].phase = "running"
          /\ run'[r].tracked => run[r].tracked
          /\ OthersKept(r) /\ Lines' = Lines
      BY <2>3 DEF Failing, Settling
    <3>2. \A m : ~Completing(m)
      BY <3>1 DEF Completing, Reading
    <3>3. ASSUME s = r PROVE PhaseOf(s)'
      <4>1. ASSUME run[r].tracked, run[r].phase = "running" PROVE Current(run[r].turn)'
        <5>1. run[r].turn \in Turns /\ Current(run[r].turn)
          BY <4>1, FollowerIs, GoodParts DEF Phases
        <5>2. PICK k : k = run[r].turn
          OBVIOUS
        <5>3. Current(k)'
          BY <1>4, <3>2, <5>1, <5>2, CurrentKept
        <5> QED BY <3>1, <5>2, <5>3 DEF Current
      <4> QED BY <3>1, <3>3, <4>1, PhaseKeep
    <3> QED BY <1>3, <1>4, <3>1, <3>2, <3>3 DEF OthersKept
  <2>4. CASE Closing
    <3>1. /\ ~run'[bound].tracked /\ run'[bound].phase = "idle" /\ run'[bound].last = run[bound].last
          /\ OthersKept(bound) /\ Lines' = Lines
      BY <2>4 DEF Closing, connection, Lines
    <3>2. \A m : ~Completing(m)
      BY <3>1 DEF Completing, Reading
    <3>3. s = bound => PhaseOf(s)'
      BY <3>1, PhaseKeep
    <3> QED BY <1>3, <1>4, <3>1, <3>2, <3>3 DEF OthersKept
  <2>5. ASSUME NEW m, Hearing(m) \/ Completing(m) PROVE PhaseOf(s)'
    BY <1>4, <2>5, PhaseHearing, PhaseCompleting
  <2>6. ASSUME NEW r \in Runs, NEW i \in Requests, Following(r, i) \/ Beginning(r) PROVE PhaseOf(s)'
    BY <1>4, <2>6, PhaseFollowing, PhaseBeginning
  <2>7. ASSUME NEW i, NEW r, UNCHANGED vars \/ Greeting \/ Expiring(i) \/ (\E ok \in BOOLEAN : Replying(i, ok))
                          \/ Stopping(r, i) \/ Interrupting(r) \/ GivingUp(r)
        PROVE  run' = run
    BY <2>7 DEF vars, Greeting, Expiring, Replying, Stopping, Interrupting, GivingUp
  <2>8. ASSUME NEW i, NEW n, Answering(n) \/ TurnBegins(i, n) \/ TurnStops(i, n) PROVE run' = run
    BY <2>8 DEF Answering, TurnBegins, TurnStops
  <2>9. CASE \E m : Completing(m)
    BY <2>5, <2>9
  <2>10. CASE run'[s] # run[s]
    BY <1>4, <2>1, <2>2, <2>3, <2>4, <2>5, <2>6, <2>7, <2>8, <2>10, Numbers DEF Steps
  <2> QED BY <1>4, <2>9, <2>10
<1> QED BY <1>1, <1>2, <1>3, <1>4

-----------------------------------------------------------------------------
(* Ends that are reported, and who waits for them *)

LEMMA EndsReportedStep ==
  ASSUME TypeOK, Good, Steps, Moves
  PROVE  EndsReported'
<1>1. EndsReported /\ turn \in [Turns -> {"none", "busy", "done"}]
  BY GoodParts, TypeParts
<1>2. \A k \in Turns : turn[k] = "done" /\ News("completed", k) \notin Lines
                         => turn'[k] = "done" /\ News("completed", k) \notin Lines'
  BY TurnsMove
<1>3. CASE ended' = ended
  BY <1>1, <1>2, <1>3 DEF EndsReported
<1>4. ASSUME NEW m, Completing(m), ended' # ended PROVE EndsReported'
  <2>1. /\ m \in Lines /\ Lines' = Lines \ {m} /\ turn' = turn /\ m.kind = "completed"
        /\ ended' = [k \in Turns |-> IF k = m.turn THEN ended[k] + 1 ELSE ended[k]]
    BY <1>4 DEF Completing, Reading
  <2>2. m = News("completed", m.turn) /\ m.turn \in Turns /\ turn[m.turn] = "done"
    BY <2>1, NewsIs, GoodParts DEF NewsKnown
  <2>3. ended[m.turn] = 0
    BY <1>1, <2>1, <2>2 DEF EndsReported
  <2>4. \A k \in Turns : ended'[k] = IF k = m.turn THEN 1 ELSE ended[k]
    BY <2>1, <2>3
  <2>5. ended' \in [Turns -> {0, 1}]
    BY <1>1, <2>1, <2>3 DEF EndsReported
  <2>6. News("completed", m.turn) \notin Lines' /\ turn'[m.turn] = "done"
    BY <2>1, <2>2
  <2> QED BY <1>1, <1>2, <2>4, <2>5, <2>6 DEF EndsReported
<1>5. CASE Dying
  <2>1. /\ Lines' = {} /\ \A k \in Turns : turn'[k] = IF turn[k] = "busy" THEN "done" ELSE turn[k]
    BY <1>5 DEF Dying, Ending
  <2> DEFINE H(k) == {r \in Runs : Interrupted(r) /\ run[r].turn = k}
  <2>2. ended' = [k \in Turns |-> ended[k] + Cardinality(H(k))]
    BY <1>5 DEF Dying
  <2>3. ASSUME NEW k \in Turns, H(k) # {}
        PROVE  Cardinality(H(k)) = 1 /\ ended[k] = 0 /\ turn'[k] = "done"
    <3>1. \A r \in H(k) : r = bound
      BY FollowerIs DEF Interrupted
    <3>2. H(k) = {bound}
      BY <2>3, <3>1
    <3>3. Cardinality(H(k)) = 1
      BY <3>2, FS_Singleton
    <3>4. bound \in Runs /\ run[bound].tracked /\ run[bound].phase = "running" /\ run[bound].turn = k
      BY <3>2 DEF Interrupted
    <3>5. Current(k)
      BY <3>4, GoodParts DEF Phases
    <3>6. ended[k] = 0
      BY <1>1, <3>5 DEF EndsReported, Current
    <3>7. turn[k] # "none"
      BY <3>4, FollowerIs
    <3> QED BY <1>1, <2>1, <3>3, <3>6, <3>7
  <2>4. \A k \in Turns : H(k) = {} => Cardinality(H(k)) = 0
    BY FS_EmptySet
  <2> HIDE DEF H
  <2>5. \A k \in Turns : ended'[k] \in {0, 1} /\ (ended'[k] # 0 => turn'[k] = "done")
    <3> SUFFICES ASSUME NEW k \in Turns PROVE ended'[k] \in {0, 1} /\ (ended'[k] # 0 => turn'[k] = "done")
      OBVIOUS
    <3>1. CASE H(k) = {}
      BY <1>1, <1>2, <2>1, <2>2, <2>4, <3>1 DEF EndsReported
    <3>2. CASE H(k) # {}
      BY <1>1, <2>2, <2>3, <3>2
    <3> QED BY <3>1, <3>2
  <2>6. ended' \in [Turns -> {0, 1}]
    BY <2>2, <2>5
  <2> QED BY <2>1, <2>5, <2>6 DEF EndsReported
<1>6. ASSUME ~Dying, ended' # ended PROVE \E m : Completing(m)
  <2>1. ASSUME NEW i, NEW r, UNCHANGED vars \/ Greeting \/ Disposing \/ Closing \/ Starting(i) \/ Expiring(i)
                              \/ (\E ok \in BOOLEAN : Replying(i, ok)) \/ GivingUp(r)
        PROVE  ended' = ended
    BY <2>1 DEF vars, Greeting, Disposing, Closing, Starting, Expiring, Replying, GivingUp
  <2>2. ASSUME NEW i, NEW r, Following(r, i) \/ Resuming(r, i) \/ Stopping(r, i) \/ Beginning(r) \/ Failing(r)
                              \/ Interrupting(r)
        PROVE  ended' = ended
    BY <2>2 DEF Following, Resuming, Stopping, Beginning, Failing, Interrupting
  <2>3. ASSUME NEW i, NEW n, Hearing(i) \/ Answering(i) \/ TurnBegins(i, n) \/ TurnStops(i, n)
        PROVE  ended' = ended
    BY <2>3 DEF Hearing, Answering, TurnBegins, TurnStops
  <2> QED BY <1>6, <2>1, <2>2, <2>3 DEF Steps
<1> QED BY <1>3, <1>4, <1>5, <1>6

StopFits(q) ==
  stop[q].step \in {"interrupt", "wait"} =>
     /\ stop[q].turn # 0 /\ turn[stop[q].turn] # "none"
     /\ turn[stop[q].turn] = "busy" => bound # 0 /\ bound = stop[q].on /\ Running(bound, stop[q].turn)

NowRunning(s, k) == run'[s].tracked /\ run'[s].phase = "running" /\ run'[s].turn = k

\* Who waited before, while the run that is followed stays so.
LEMMA StopKeep ==
  ASSUME TypeOK, Good, Moves, NEW q \in Runs,
         stop'[q].step \in {"interrupt", "wait"} =>
           /\ stop[q].step \in {"interrupt", "wait"}
           /\ stop'[q].turn = stop[q].turn /\ stop'[q].on = stop[q].on,
         stop'[q].step \in {"interrupt", "wait"} =>
           \A k \in Turns : turn[k] = "busy" /\ turn'[k] = "busy" /\ stop[q].turn = k
                             /\ stop[q].on = bound /\ bound \in Runs /\ Running(bound, k)
                           => bound' = bound /\ NowRunning(bound, k)
  PROVE  StopFits(q)'
<1> SUFFICES ASSUME stop'[q].step \in {"interrupt", "wait"}
             PROVE  /\ stop'[q].turn # 0 /\ turn'[stop'[q].turn] # "none"
                    /\ turn'[stop'[q].turn] = "busy"
                         => bound' # 0 /\ bound' = stop'[q].on /\ NowRunning(bound', stop'[q].turn)
  BY DEF StopFits, Running, NowRunning
<1>1. PICK k : k = stop[q].turn
  OBVIOUS
<1>2. /\ stop[q].step \in {"interrupt", "wait"} /\ stop'[q].turn = k /\ stop'[q].on = stop[q].on
      /\ k # 0 /\ turn[k] # "none"
      /\ turn[k] = "busy" => bound # 0 /\ bound = stop[q].on /\ Running(bound, k)
  BY <1>1, GoodParts DEF StopsFit
<1>3. k \in Turns
  BY <1>1, <1>2, TypeParts DEF StopType
<1>4. turn'[k] # "none" /\ (turn'[k] = "busy" => turn[k] = "busy")
  BY <1>2, <1>3, TurnsMove, TurnsKept, TypeParts
<1>5. ASSUME turn'[k] = "busy" PROVE bound' # 0 /\ bound' = stop'[q].on /\ NowRunning(bound', k)
  <2>1. turn[k] = "busy" /\ bound \in Runs /\ bound = stop[q].on /\ Running(bound, k) /\ bound # 0
    BY <1>2, <1>4, <1>5, TypeParts, Numbers
  <2>2. bound' = bound /\ NowRunning(bound', k)
    BY <1>1, <1>3, <1>5, <2>1
  <2> QED BY <1>2, <2>1, <2>2
<1> QED BY <1>2, <1>4, <1>5

LEMMA TellingWaits ==
  ASSUME NEW s, NEW stopped, Telling(s, stopped), NEW q \in Runs
  PROVE  /\ stop'[q].step \in {"interrupt", "wait"} => stop'[q] = stop[q] /\ stop[q].on # s
         /\ stop'[q].stopped # stop[q].stopped
              => stop[q].step \in {"interrupt", "wait"} /\ stop[q].on = s /\ stop'[q].stopped = stopped
<1>1. CASE stop[q].step \in {"interrupt", "wait"} /\ stop[q].on = s
  BY <1>1 DEF Telling
<1>2. CASE ~(stop[q].step \in {"interrupt", "wait"} /\ stop[q].on = s)
  <2>1. stop'[q] = stop[q]
    BY <1>2 DEF Telling
  <2> QED BY <1>2, <2>1
<1> QED BY <1>1, <1>2

\* The turn that is busy is the last one that was begun.
LEMMA BusyIsLast ==
  ASSUME TypeOK, Good, NEW k \in Turns, NEW n \in Turns, turn[k] = "busy", turn[n] # "none"
  PROVE  n <= k
BY GoodParts DEF TurnsInOrder

LEMMA StopsFitStep ==
  ASSUME TypeOK, Good, Steps, Moves
  PROVE  StopsFit'
<1> SUFFICES ASSUME NEW q \in Runs PROVE StopFits(q)'
  BY DEF StopsFit, StopFits
<1>1. ASSUME stop' = stop, UNCHANGED <<run, bound>> PROVE StopFits(q)'
  BY <1>1, StopKeep DEF Running, NowRunning
<1>2. CASE Dying \/ Disposing
  <2>1. \A k \in Turns : turn'[k] # "busy"
    BY <1>2 DEF Dying, Disposing
  <2>2. stop'[q].step \in {"interrupt", "wait"} => stop'[q] = stop[q]
    BY <1>2 DEF Dying, Disposing
  <2>3. stop'[q].step \in {"interrupt", "wait"} => stop[q].step \in {"interrupt", "wait"}
           /\ stop'[q].turn = stop[q].turn /\ stop'[q].on = stop[q].on
    BY <2>2
  <2> QED BY <2>1, <2>3, StopKeep
<1>3. CASE UNCHANGED vars \/ Greeting
  <2>1. stop' = stop /\ UNCHANGED <<run, bound>>
    BY <1>3 DEF vars, Greeting
  <2> QED BY <1>1, <2>1
<1>4. CASE Closing
  <2>1. Telling(bound, FALSE) /\ run[bound].phase = "idle"
    BY <1>4 DEF Closing
  <2>2. stop'[q].step \in {"interrupt", "wait"} => stop'[q] = stop[q]
    BY <2>1, TellingWaits
  <2>3. stop'[q].step \in {"interrupt", "wait"} => stop[q].step \in {"interrupt", "wait"}
           /\ stop'[q].turn = stop[q].turn /\ stop'[q].on = stop[q].on
    BY <2>2
  <2>4. \A k : ~Running(bound, k)
    BY <2>1 DEF Running
  <2> QED BY <2>3, <2>4, StopKeep
<1>5. ASSUME NEW i, Starting(i) PROVE StopFits(q)'
  <2>1. stop' = stop /\ bound' = bound /\ ~run[1].tracked /\ OthersKept(1)
    BY <1>5 DEF Starting
  <2>2. \A k : Running(bound, k) /\ bound \in Runs => bound # 1 /\ run'[bound] = run[bound]
    BY <2>1 DEF Running, OthersKept
  <2>3. \A k : Running(bound, k) /\ bound \in Runs => NowRunning(bound, k)
    BY <2>2 DEF Running, NowRunning
  <2> QED BY <2>1, <2>3, StopKeep
<1>6. ASSUME NEW i, NEW m, Expiring(i) \/ (\E ok \in BOOLEAN : Replying(i, ok)) \/ Answering(m)
                           \/ TurnBegins(i, m) \/ TurnStops(i, m)
      PROVE  StopFits(q)'
  <2>1. stop' = stop /\ UNCHANGED <<run, bound>>
    BY <1>6 DEF Expiring, Replying, Answering, TurnBegins, TurnStops
  <2> QED BY <1>1, <2>1
<1>7. ASSUME NEW r \in Runs, NEW i, Following(r, i) PROVE StopFits(q)'
  <2>1. /\ bound # 0 => run[bound].phase = "idle"
        /\ bound \notin {0, r} => Telling(bound, TRUE)
        /\ bound \in {0, r} => stop' = stop
    BY <1>7 DEF Following
  <2>2. stop'[q].step \in {"interrupt", "wait"} => stop'[q] = stop[q]
    BY <2>1, TellingWaits
  <2>3. stop'[q].step \in {"interrupt", "wait"} => stop[q].step \in {"interrupt", "wait"}
           /\ stop'[q].turn = stop[q].turn /\ stop'[q].on = stop[q].on
    BY <2>2
  <2>4. bound \in Runs => \A k : ~Running(bound, k)
    BY <2>1, Numbers DEF Running
  <2> QED BY <2>3, <2>4, StopKeep
<1>8. ASSUME NEW r \in Runs, NEW i, Resuming(r, i) PROVE StopFits(q)'
  <2>1. stop' = stop /\ job[r].step \in {"thread", "resume"} /\ request[job[r].id].state = "resolved"
    BY <1>8 DEF Resuming
  <2>2. loaded = 0
    BY <2>1, Resumes
  <2>3. bound \in Runs => \A k : ~Running(bound, k)
    BY <2>2, FollowerIs DEF Running
  <2> QED BY <2>1, <2>3, StopKeep
<1>9. ASSUME NEW r \in Runs, NEW i, Stopping(r, i) PROVE StopFits(q)'
  <2>1. /\ bound # 0 /\ run[bound].phase = "running" /\ run[bound].tracked /\ UNCHANGED <<run, bound>>
        /\ stop'[r].on = bound /\ stop'[r].turn = run[bound].turn
        /\ turn' = turn /\ \A p \in Runs \ {r} : stop'[p] = stop[p]
    BY <1>9 DEF Stopping
  <2>2. bound \in Runs
    BY <2>1, TypeParts
  <2>3. run[bound].turn \in Turns /\ turn[run[bound].turn] # "none"
    BY <2>1, <2>2, FollowerIs
  <2>4. CASE q = r
    BY <2>1, <2>3, <2>4, Numbers DEF StopFits, Running
  <2>5. CASE q # r
    <3>1. stop'[q] = stop[q]
      BY <2>1, <2>5
    <3> QED BY <2>1, <3>1, StopKeep DEF Running, NowRunning
  <2> QED BY <2>4, <2>5
<1>10. ASSUME NEW r \in Runs, Beginning(r) PROVE StopFits(q)'
  <2>1. PICK k : k = request[job[r].id].turn
    OBVIOUS
  <2>2. /\ stop' = stop /\ bound' = bound /\ job[r].step = "turn" /\ request[job[r].id].state = "resolved"
        /\ IF k = run[r].last THEN run' = run
           ELSE /\ run'[r].phase = "running" /\ run'[r].turn = k /\ run'[r].tracked = run[r].tracked
                /\ OthersKept(r)
    BY <1>10, <2>1 DEF Beginning
  <2>3. k \in Turns /\ turn[k] # "none" /\ AnswerIs(job[r].id, k)
    <3>1. job[r].id \in Requests /\ request[job[r].id].method = "turn/start"
      BY <2>2, CallParts DEF Method
    <3>2. k \in Turns \cup {0} /\ k # 0 /\ turn[k] # "none"
      BY <2>1, <2>2, <3>1, GoodParts, TypeParts, RequestParts DEF JobsOwn
    <3> QED BY <2>1, <2>2, <3>2 DEF AnswerIs
  <2>4. ASSUME NEW t \in Turns, turn[t] = "busy", Running(bound, t), bound \in Runs
        PROVE  NowRunning(bound, t)
    <3>1. CASE k = run[r].last \/ bound # r
      <4>1. run'[bound] = run[bound]
        BY <2>2, <2>4, <3>1 DEF OthersKept
      <4> QED BY <2>4, <4>1 DEF Running, NowRunning
    <3>2. CASE k # run[r].last /\ bound = r
      <4>1. t <= k
        BY <2>2, <2>3, <2>4, <3>2, GoodParts DEF AnswersFit, Running
      <4>2. k <= t
        BY <2>3, <2>4, BusyIsLast
      <4>3. k = t
        BY <2>3, <4>1, <4>2 DEF Turns
      <4> QED BY <2>2, <2>4, <3>2, <4>3 DEF Running, NowRunning
    <3> QED BY <3>1, <3>2
  <2> QED BY <2>2, <2>4, StopKeep
<1>11. ASSUME NEW r \in Runs, Failing(r) PROVE StopFits(q)'
  <2>1. /\ OthersKept(r) /\ run'[r].turn = run[r].turn
        /\ run'[r].phase = "running" <=> run[r].phase = "running"
        /\ IF job[r].starts
             THEN Telling(r, FALSE) /\ bound' = (IF run[r].tracked /\ bound = r THEN 0 ELSE bound)
             ELSE run'[r].tracked = run[r].tracked /\ UNCHANGED <<bound, stop>>
    BY <1>11 DEF Failing
  <2>2. stop'[q].step \in {"interrupt", "wait"} => stop'[q] = stop[q] /\ (job[r].starts => stop[q].on # r)
    BY <2>1, TellingWaits
  <2>3. stop'[q].step \in {"interrupt", "wait"} => stop[q].step \in {"interrupt", "wait"}
           /\ stop'[q].turn = stop[q].turn /\ stop'[q].on = stop[q].on
    BY <2>2
  <2>4. ASSUME NEW k \in Turns, Running(bound, k), bound \in Runs, stop[q].on = bound,
               stop'[q].step \in {"interrupt", "wait"}
        PROVE  bound' = bound /\ NowRunning(bound, k)
    <3>1. CASE bound # r
      <4>1. run'[bound] = run[bound] /\ bound' = bound
        BY <2>1, <2>4, <3>1 DEF OthersKept
      <4> QED BY <2>4, <4>1 DEF Running, NowRunning
    <3>2. CASE bound = r
      <4>1. ~job[r].starts
        BY <2>2, <2>4, <3>2
      <4> QED BY <2>1, <2>4, <3>2, <4>1 DEF Running, NowRunning
    <3> QED BY <3>1, <3>2
  <2> QED BY <2>3, <2>4, StopKeep
<1>12. ASSUME NEW r \in Runs, Interrupting(r) \/ GivingUp(r) PROVE StopFits(q)'
  <2>1. UNCHANGED <<run, bound>> /\ \A p \in Runs \ {r} : stop'[p] = stop[p]
    BY <1>12 DEF Interrupting, GivingUp
  <2>2. stop'[r].step \in {"interrupt", "wait"} => stop[r].step \in {"interrupt", "wait"}
           /\ stop'[r].turn = stop[r].turn /\ stop'[r].on = stop[r].on
    BY <1>12 DEF Interrupting, GivingUp
  <2>3. stop'[q].step \in {"interrupt", "wait"} => stop[q].step \in {"interrupt", "wait"}
           /\ stop'[q].turn = stop[q].turn /\ stop'[q].on = stop[q].on
    <3>1. CASE q = r
      BY <2>2, <3>1
    <3>2. CASE q # r
      <4>1. stop'[q] = stop[q]
        BY <2>1, <3>2
      <4> QED BY <4>1
    <3> QED BY <3>1, <3>2
  <2> QED BY <2>1, <2>3, StopKeep DEF Running, NowRunning
<1>13. ASSUME NEW m, Hearing(m) PROVE StopFits(q)'
  <2>1. stop' = stop /\ bound' = bound /\ m \in Lines /\ m.kind = "started"
    BY <1>13 DEF Hearing, Reading
  <2>2. ASSUME NEW k \in Turns, turn[k] = "busy", Running(bound, k), bound \in Runs
        PROVE  NowRunning(bound, k)
    <3>1. CASE run'[bound] = run[bound]
      BY <2>2, <3>1 DEF Running, NowRunning
    <3>2. CASE run'[bound] # run[bound]
      <4>1. run'[bound].phase = "running" /\ run'[bound].turn = m.turn
            /\ run'[bound].tracked = run[bound].tracked
        BY <1>13, <3>2 DEF Hearing
      <4>2. m.turn \in Turns /\ turn[m.turn] # "none"
        BY <2>1, NewsIs
      <4>3. m.turn >= k
        BY <2>1, <2>2, <4>2, GoodParts, Numbers DEF Phases, Running
      <4>4. m.turn <= k
        BY <2>2, <4>2, BusyIsLast
      <4>5. m.turn = k
        BY <4>2, <4>3, <4>4 DEF Turns
      <4> QED BY <2>2, <4>1, <4>5 DEF Running, NowRunning
    <3> QED BY <3>1, <3>2
  <2> QED BY <2>1, <2>2, StopKeep
<1>14. ASSUME NEW m, Completing(m) PROVE StopFits(q)'
  <2>1. CASE UNCHANGED <<run, stop>>
    BY <1>1, <1>14, <2>1 DEF Completing
  <2>2. CASE ~UNCHANGED <<run, stop>>
    <3>1. Telling(bound, TRUE)
      BY <1>14, <2>2 DEF Completing
    <3>2. stop'[q].step \in {"interrupt", "wait"} => stop'[q] = stop[q] /\ stop[q].on # bound
      BY <3>1, TellingWaits
    <3>3. stop'[q].step \in {"interrupt", "wait"} => stop[q].step \in {"interrupt", "wait"}
           /\ stop'[q].turn = stop[q].turn /\ stop'[q].on = stop[q].on
      BY <3>2
    <3> QED BY <3>2, <3>3, StopKeep
  <2> QED BY <2>1, <2>2
<1> QED BY <1>2, <1>3, <1>4, <1>5, <1>6, <1>7, <1>8, <1>9, <1>10, <1>11, <1>12, <1>13, <1>14 DEF Steps

\* Who is told that the turn was stopped is told so when it is over.
LEMMA StoppedStep ==
  ASSUME TypeOK, Good, Steps, NEW q \in Runs, ~stop[q].stopped, stop'[q].stopped
  PROVE  turn[stop[q].turn] # "busy" \/ turn'[stop[q].turn] # "busy"
<1> SUFFICES ASSUME turn[stop[q].turn] = "busy", turn'[stop[q].turn] = "busy" PROVE FALSE
  OBVIOUS
<1>1. stop'[q] # stop[q] /\ stop'[q].stopped # stop[q].stopped /\ stop' # stop /\ bound \in Runs \cup {0}
  BY TypeParts
<1>2. stop[q].step \in {"interrupt", "wait"}
        => stop[q].turn \in Turns /\ bound # 0 /\ bound = stop[q].on /\ Running(bound, stop[q].turn)
  <2>1. stop[q].turn \in Turns \cup {0}
    BY TypeParts DEF StopType
  <2> QED BY <2>1, GoodParts DEF StopsFit
<1>3. ~Dying /\ ~Disposing
  <2>1. ASSUME Dying PROVE FALSE
    <3>1. stop[q].step \in {"interrupt", "wait"}
      BY <1>1, <2>1 DEF Dying
    <3> QED BY <1>2, <2>1, <3>1 DEF Dying
  <2>2. ASSUME Disposing PROVE FALSE
    BY <1>1, <2>2 DEF Disposing
  <2> QED BY <2>1, <2>2
<1>4. ASSUME NEW s, NEW stopped, Telling(s, stopped)
      PROVE  stopped # FALSE /\ s = bound /\ bound \in Runs /\ Running(bound, stop[q].turn)
             /\ stop[q].turn \in Turns
  <2>1. stop[q].step \in {"interrupt", "wait"} /\ stop[q].on = s /\ stop'[q].stopped = stopped
    <3>1. stop'[q].stopped # stop[q].stopped
            => stop[q].step \in {"interrupt", "wait"} /\ stop[q].on = s /\ stop'[q].stopped = stopped
      <4>1. CASE stop[q].step \in {"interrupt", "wait"} /\ stop[q].on = s
        BY <1>4, <4>1 DEF Telling
      <4>2. CASE ~(stop[q].step \in {"interrupt", "wait"} /\ stop[q].on = s)
        BY <1>1, <1>4, <4>2 DEF Telling
      <4> QED BY <4>1, <4>2
    <3> QED BY <1>1, <3>1
  <2> QED BY <1>1, <1>2, <2>1
<1>5. ~Closing
  BY <1>4 DEF Closing
<1>6. ASSUME NEW r \in Runs, NEW i, Following(r, i) PROVE FALSE
  <2>1. bound # 0 /\ Telling(bound, TRUE) /\ run[bound].phase = "idle"
    BY <1>1, <1>6 DEF Following
  <2> QED BY <1>4, <2>1 DEF Running
<1>7. ASSUME NEW r \in Runs, Failing(r) PROVE FALSE
  <2>1. Telling(r, FALSE)
    BY <1>1, <1>7 DEF Failing
  <2> QED BY <1>4, <2>1
<1>8. ASSUME NEW r \in Runs, Interrupting(r) PROVE FALSE
  <2>1. r = q
    BY <1>1, <1>8 DEF Interrupting
  <2>2. stop[q].step = "interrupt" /\ run[stop[q].on].phase = "idle"
    BY <1>1, <1>8, <2>1 DEF Interrupting
  <2> QED BY <1>2, <2>2 DEF Running
<1>9. ASSUME NEW r \in Runs, NEW i, GivingUp(r) \/ Stopping(r, i) PROVE FALSE
  <2>1. ~stop'[r].stopped /\ \A p \in Runs \ {r} : stop'[p] = stop[p]
    BY <1>9 DEF GivingUp, Stopping
  <2> QED BY <1>1, <2>1
<1>10. ASSUME NEW m, Completing(m) PROVE FALSE
  <2>1. Telling(bound, TRUE) /\ m.turn # run[bound].last /\ run[bound].turn \in {0, m.turn}
    BY <1>1, <1>10 DEF Completing
  <2>2. m.turn = stop[q].turn
    BY <1>4, <2>1, Numbers DEF Running
  <2>3. turn[m.turn] = "done"
    BY <1>10, GoodParts, NewsIs DEF Completing, Reading, NewsKnown
  <2> QED BY <2>2, <2>3
<1>11. ASSUME NEW i, NEW r, UNCHANGED vars \/ Greeting \/ Starting(i) \/ Expiring(i)
                             \/ (\E ok \in BOOLEAN : Replying(i, ok)) \/ Resuming(r, i) \/ Beginning(r)
       PROVE  stop' = stop
  BY <1>11 DEF vars, Greeting, Starting, Expiring, Replying, Resuming, Beginning
<1>12. ASSUME NEW i, NEW n, Hearing(i) \/ Answering(i) \/ TurnBegins(i, n) \/ TurnStops(i, n)
       PROVE  stop' = stop
  BY <1>12 DEF Hearing, Answering, TurnBegins, TurnStops
<1> QED BY <1>1, <1>3, <1>5, <1>6, <1>7, <1>8, <1>9, <1>10, <1>11, <1>12 DEF Steps

-----------------------------------------------------------------------------
(* What was answered to the call of the run that is followed *)

LEMMA CallsMove ==
  ASSUME TypeOK, Good, Steps, NEW r \in Runs, job'[r].step = "turn"
  PROVE  \/ job'[r] = job[r] /\ (run'[r].tracked => run[r].tracked)
         \/ \E i, j : Asking(i, j, "turn/start", 0) /\ job'[r].id = i
<1>1. ASSUME job' = job, run'[r] = run[r] \/ ~run'[r].tracked \/ run'[r].tracked = run[r].tracked
      PROVE  job'[r] = job[r] /\ (run'[r].tracked => run[r].tracked)
  BY <1>1
<1>2. ASSUME NEW i, NEW s, UNCHANGED vars \/ Greeting \/ Expiring(i) \/ (\E ok \in BOOLEAN : Replying(i, ok))
                           \/ Stopping(s, i) \/ Interrupting(s) \/ GivingUp(s)
      PROVE  job' = job /\ run' = run
  BY <1>2 DEF vars, Greeting, Expiring, Replying, Stopping, Interrupting, GivingUp
<1>3. ASSUME NEW i, NEW n, Answering(n) \/ TurnBegins(i, n) \/ TurnStops(i, n)
      PROVE  job' = job /\ run' = run
  BY <1>3 DEF Answering, TurnBegins, TurnStops
<1>4. CASE Dying
  <2>1. job' = job
    BY <1>4 DEF Dying
  <2>2. run'[r].tracked = run[r].tracked \/ run'[r] = run[r]
    BY <1>4 DEF Dying
  <2> QED BY <1>1, <2>1, <2>2
<1>5. CASE Disposing
  BY <1>1, <1>5 DEF Disposing
<1>6. CASE Closing
  <2>1. job' = job /\ ~run'[bound].tracked /\ OthersKept(bound)
    BY <1>6 DEF Closing
  <2>2. run'[r] = run[r] \/ ~run'[r].tracked
    BY <2>1 DEF OthersKept
  <2> QED BY <1>1, <2>1, <2>2
<1>7. ASSUME NEW i, Starting(i) PROVE job'[r] = job[r] /\ (run'[r].tracked => run[r].tracked)
  <2>1. r # 1
    BY <1>7 DEF Starting, JobBecomes
  <2> QED BY <1>7, <2>1 DEF Starting, JobBecomes, OthersKept
<1>8. ASSUME NEW s \in Runs, NEW i, Following(s, i), s # r
      PROVE  job'[r] = job[r] /\ (run'[r].tracked => run[r].tracked)
  <2>1. run'[r].tracked = (run[r].tracked /\ r # bound)
    BY <1>8 DEF Following
  <2>2. job'[r] = job[r]
    BY <1>8 DEF Following, JobBecomes
  <2> QED BY <2>1, <2>2
<1>9. ASSUME NEW i, Following(r, i) PROVE \E k, j : Asking(k, j, "turn/start", 0) /\ job'[r].id = k
  BY <1>9 DEF Following, JobBecomes
<1>10. ASSUME NEW s \in Runs, NEW i, Resuming(s, i)
       PROVE  \/ job'[r] = job[r] /\ (run'[r].tracked => run[r].tracked)
              \/ \E k, j : Asking(k, j, "turn/start", 0) /\ job'[r].id = k
  BY <1>10 DEF Resuming, JobBecomes, OthersKept
<1>11. ASSUME NEW s \in Runs, Beginning(s) \/ Failing(s)
       PROVE  job'[r] = job[r] /\ (run'[r].tracked => run[r].tracked)
  <2>1. JobEnds(s) /\ (run' = run \/ OthersKept(s))
    BY <1>11 DEF Beginning, Failing
  <2> QED BY <2>1 DEF JobEnds, OthersKept
<1>12. ASSUME NEW m, Hearing(m) \/ Completing(m)
       PROVE  job'[r] = job[r] /\ (run'[r].tracked => run[r].tracked)
  <2>1. job' = job /\ (run' = run \/ (run'[bound].tracked = run[bound].tracked /\ OthersKept(bound)))
    BY <1>12 DEF Hearing, Completing
  <2> QED BY <2>1 DEF OthersKept
<1>13. CASE job' = job /\ run' = run
  BY <1>13
<1> QED BY <1>2, <1>3, <1>4, <1>5, <1>6, <1>7, <1>8, <1>9, <1>10, <1>11, <1>12, <1>13, Numbers DEF Steps

\* A request that was answered with a turn was so, or is the one that the child begins a turn for.
LEMMA AnswerMoves ==
  ASSUME TypeOK, Good, Moves, NEW i \in Requests, request[i].state # "free", NEW k \in Turns, AnswerIs(i, k)'
  PROVE  AnswerIs(i, k) \/ TurnBegins(i, k)
<1> DEFINE a == Answer(i, TRUE, k)
<1>1. a.id = i /\ a.turn = k /\ a.kind = "result" /\ k # 0
  BY Numbers DEF Answer
<1>2. \/ request'[i].state = "resolved" /\ request'[i].turn = k
      \/ request'[i].state = "sent" /\ a \in Lines'
  BY DEF AnswerIs
<1>3. AnswerIs(i, k) <=> \/ request[i].state = "resolved" /\ request[i].turn = k
                         \/ request[i].state = "sent" /\ a \in Lines
  BY DEF AnswerIs
<1>4. \A j, ok : a # Answer(j, ok, 0)
  BY <1>1 DEF Answer
<1>5. \A j, n : a = Answer(j, TRUE, n) => j = i /\ n = k
  BY DEF Answer
<1>6. \A n : a # News("started", n) /\ a # News("completed", n)
  BY DEF News, Answer
<1> HIDE DEF a
<1>7. ASSUME request' = request, a \in Lines' => a \in Lines PROVE AnswerIs(i, k)
  BY <1>2, <1>3, <1>7
<1>8. ASSUME NEW e, NEW j, NEW method, NEW t, Asking(e, j, method, t) PROVE AnswerIs(i, k)
  <2>1. i # e /\ Lines' = Lines
    BY <1>8 DEF Asking
  <2>2. Same(i) /\ (request'[i].state = "done" \/ request'[i].state = request[i].state)
    BY <1>8, <2>1 DEF Asking
  <2> QED BY <1>2, <1>3, <2>1, <2>2 DEF Same
<1>9. ASSUME NEW j, NEW state \in {"done", "rejected"}, Settling(j, state) PROVE AnswerIs(i, k)
  <2>1. Same(i) /\ (request'[i].state = state \/ request'[i].state = request[i].state) /\ Lines' = Lines
    BY <1>9 DEF Settling
  <2> QED BY <1>2, <1>3, <2>1 DEF Same
<1>10. ASSUME Shaking \/ Ending PROVE AnswerIs(i, k)
  <2>1. Lines' = {} /\ Same(i) /\ (request'[i].state = "resolved" => request[i].state = "resolved")
    BY <1>10 DEF Shaking, Ending
  <2> QED BY <1>2, <1>3, <2>1 DEF Same
<1>11. ASSUME NEW m, Reading(m), Taking(m) PROVE AnswerIs(i, k)
  <2>1. Lines' \subseteq Lines /\ m \in Lines
    BY <1>11 DEF Reading
  <2>2. CASE i # m.id \/ request[m.id].state # "sent"
    <3>1. Same(i) /\ request'[i].state = request[i].state
      BY <1>11, <2>2 DEF Taking
    <3> QED BY <1>2, <1>3, <2>1, <3>1 DEF Same
  <2>3. CASE i = m.id /\ request[m.id].state = "sent"
    <3>1. /\ request'[i].state = IF m.kind = "result" THEN "resolved" ELSE "rejected"
          /\ request'[i].turn = m.turn
      BY <1>11, <2>3 DEF Taking
    <3>2. m.kind = "result" /\ m.turn = k /\ m.id = i
      BY <1>2, <2>3, <3>1
    <3>3. m = a
      BY <2>1, <3>2, LineKnown DEF a, MessageType, Answer
    <3> QED BY <1>3, <2>1, <2>3, <3>3
  <2> QED BY <2>2, <2>3
<1>12. ASSUME NEW m, Reading(m), request' = request PROVE AnswerIs(i, k)
  BY <1>7, <1>12 DEF Reading
<1>13. ASSUME NEW j, NEW ok, Replying(j, ok) PROVE AnswerIs(i, k)
  BY <1>4, <1>7, <1>13 DEF Replying, Writing
<1>14. ASSUME NEW j, NEW n, TurnBegins(j, n) PROVE AnswerIs(i, k) \/ TurnBegins(i, k)
  <2>1. /\ request' = request
        /\ Lines' \subseteq Lines \cup {News("started", n), News("completed", n), Answer(j, TRUE, n)}
    BY <1>14 DEF TurnBegins, Writing
  <2>2. a \in Lines' => a \in Lines \/ (j = i /\ n = k)
    BY <1>5, <1>6, <2>1
  <2> QED BY <1>7, <1>14, <2>1, <2>2
<1>15. ASSUME NEW j, NEW n, TurnStops(j, n) PROVE AnswerIs(i, k)
  <2>1. request' = request /\ Lines' \subseteq Lines \cup {News("completed", n), Answer(j, TRUE, 0)}
    BY <1>15 DEF TurnStops, Writing
  <2> QED BY <1>4, <1>6, <1>7, <2>1
<1>16. CASE request' = request /\ Lines' = Lines
  BY <1>7, <1>16
<1> QED BY <1>8, <1>9, <1>10, <1>11, <1>12, <1>13, <1>14, <1>15, <1>16 DEF Moves

\* News of a turn is read before it is gone.
LEMMA StartedHeard ==
  ASSUME TypeOK, Good, Steps, ~Dying, ~Disposing, NEW k \in Turns, NEW c, c = News("started", k),
         c \in Lines, c \notin Lines'
  PROVE  Hearing(c)
<1>1. c.kind = "started"
  BY DEF News
<1>2. \A m : Reading(m) => m = c
  BY DEF Reading
<1>3. (\A i, j, method, t : ~Asking(i, j, method, t)) /\ \A j, state : ~Settling(j, state)
  BY DEF Asking, Settling
<1>4. \A r, i : /\ ~Starting(i) /\ ~Following(r, i) /\ ~Resuming(r, i) /\ ~Stopping(r, i)
                /\ ~Beginning(r) /\ ~Failing(r) /\ ~Interrupting(r) /\ ~Expiring(i)
  <2>1. \A r, i : ~Starting(i) /\ ~Following(r, i) /\ ~Resuming(r, i) /\ ~Stopping(r, i)
    BY <1>3, AskersAsk
  <2>2. \A r, i : ~Beginning(r) /\ ~Failing(r) /\ ~Interrupting(r) /\ ~Expiring(i)
    BY <1>3 DEF Beginning, Failing, Interrupting, Expiring
  <2> QED BY <2>1, <2>2
<1>5. ~Greeting
  BY DEF Greeting, Shaking
<1>6. \A r : ~(UNCHANGED vars) /\ ~Closing /\ ~GivingUp(r)
  BY DEF vars, Closing, GivingUp, connection, Lines
<1>7. \A i, n : ~TurnBegins(i, n) /\ ~TurnStops(i, n) /\ \A ok : ~Replying(i, ok)
  BY WritersWrite
<1>8. \A m : ~Completing(m) /\ ~Answering(m)
  <2>1. \A m : Completing(m) => m = c /\ m.kind = "completed"
    BY <1>2 DEF Completing
  <2>2. \A m : Answering(m) => m = c /\ m.kind \in Answers
    BY <1>2 DEF Answering, Taking
  <2> QED BY <1>1, <2>1, <2>2 DEF Answers
<1>9. \A m : Hearing(m) => m = c
  BY <1>2 DEF Hearing
<1> QED BY <1>4, <1>5, <1>6, <1>7, <1>8, <1>9 DEF Steps

Heard(m) == Hearing(m) /\ Hears /\ m.turn # run[bound].last
EndHeard(m) == Completing(m) /\ Hears /\ m.turn # run[bound].last /\ run[bound].turn \in {0, m.turn}

\* While its call waits, only what it reads changes the run that is followed.
LEMMA WaitingRun ==
  ASSUME TypeOK, Good, Steps, ~Dying, NEW r \in Runs, job'[r] = job[r], job[r].step = "turn",
         run[r].tracked, run'[r].tracked
  PROVE  run'[r] = run[r] \/ \E m : Heard(m) \/ EndHeard(m)
<1>1. r = bound
  BY FollowerIs
<1>2. ASSUME NEW i, Starting(i) PROVE run'[r] = run[r]
  BY <1>2 DEF Starting, JobBecomes, OthersKept
<1>3. ASSUME NEW s \in Runs, NEW i, Following(s, i) PROVE FALSE
  <2>1. s # r
    BY <1>3 DEF Following
  <2> QED BY <1>1, <1>3, <2>1 DEF Following
<1>4. ASSUME NEW s \in Runs, NEW i, Resuming(s, i) PROVE run'[r] = run[r]
  BY <1>4 DEF Resuming, OthersKept
<1>5. ASSUME NEW s \in Runs, Beginning(s) \/ Failing(s) PROVE run'[r] = run[r]
  <2>1. JobEnds(s) /\ (run' = run \/ OthersKept(s))
    BY <1>5 DEF Beginning, Failing
  <2> QED BY <2>1 DEF JobEnds, OthersKept
<1>6. ~Closing /\ ~Disposing
  BY DEF Closing, Disposing
<1>7. ASSUME NEW m, Hearing(m) PROVE run'[r] = run[r] \/ Heard(m)
  BY <1>7 DEF Hearing, Heard
<1>8. ASSUME NEW m, Completing(m) PROVE run'[r] = run[r] \/ EndHeard(m)
  BY <1>8 DEF Completing, EndHeard
<1>9. ASSUME NEW i, NEW s, UNCHANGED vars \/ Greeting \/ Expiring(i) \/ (\E ok \in BOOLEAN : Replying(i, ok))
                           \/ Stopping(s, i) \/ Interrupting(s) \/ GivingUp(s)
      PROVE  run' = run
  BY <1>9 DEF vars, Greeting, Expiring, Replying, Stopping, Interrupting, GivingUp
<1>10. ASSUME NEW i, NEW n, Answering(n) \/ TurnBegins(i, n) \/ TurnStops(i, n) PROVE run' = run
  BY <1>10 DEF Answering, TurnBegins, TurnStops
<1> QED BY <1>2, <1>3, <1>4, <1>5, <1>6, <1>7, <1>8, <1>9, <1>10 DEF Steps

LEMMA AnsweredTurn ==
  ASSUME TypeOK, Good, NEW i \in Requests, request[i].method = "turn/start", NEW k \in Turns, AnswerIs(i, k)
  PROVE  turn[k] # "none" /\ i \notin Inbox
<1>1. CASE request[i].state = "resolved" /\ request[i].turn = k
  BY <1>1, GoodParts DEF JobsOwn, Asked
<1>2. CASE request[i].state = "sent" /\ Answer(i, TRUE, k) \in Lines
  <2>1. PICK x : x = Answer(i, TRUE, k)
    OBVIOUS
  <2>2. x.id = i /\ x.turn = k /\ x.kind \in Answers /\ x \in Lines
    BY <1>2, <2>1 DEF Answer, Answers
  <2> QED BY <2>2, LineKnown, Numbers
<1> QED BY <1>1, <1>2 DEF AnswerIs

FitNow(r, k) ==
  /\ request'[job'[r].id].state = "resolved" => \A x \in Lines' : x.turn # 0 => x.turn >= k
  /\ News("started", k) \in Lines' \/ NowRunning(r, k) \/ run'[r].last = k
  /\ \A l \in Turns : turn'[l] # "none" => l <= k

\* A turn that the child begins for the call
LEMMA FitBegins ==
  ASSUME TypeOK, Good, NEW r \in Runs, NEW k \in Turns, job'[r] = job[r], TurnBegins(job[r].id, k)
  PROVE  FitNow(r, k)
<1>1. /\ job[r].id \in Inbox /\ job[r].id \in Requests /\ request' = request /\ News("started", k) \in Lines'
      /\ turn[k] = "none" /\ \A l \in Turns \ {k} : turn'[l] = turn[l]
  BY DEF TurnBegins, Writing, NextTurn
<1>2. request[job[r].id].state # "resolved"
  BY <1>1, GoodParts DEF Asked
<1>3. \A l \in Turns : turn[l] # "none" => l <= k
  BY <1>1, GoodParts DEF TurnsInOrder, Turns
<1>4. \A l \in Turns : turn'[l] # "none" => l <= k
  BY <1>1, <1>3 DEF Turns
<1> QED BY <1>1, <1>2, <1>4 DEF FitNow

\* Other steps while the call waits
LEMMA FitKeep ==
  ASSUME TypeOK, Good, Steps, Moves, NEW r \in Runs, NEW k \in Turns, job'[r] = job[r],
         job[r].step = "turn", run'[r].tracked, run[r].tracked,
         AnswerIs(job[r].id, k), AnswerIs(job[r].id, k)'
  PROVE  FitNow(r, k)
<1>1. PICK i \in Requests : i = job[r].id /\ request[i].method = "turn/start"
  BY CallParts DEF Method
<1>2. /\ request[i].state = "resolved" => \A x \in Lines : x.turn # 0 => x.turn >= k
      /\ News("started", k) \in Lines \/ Running(r, k) \/ run[r].last = k
      /\ \A l \in Turns : turn[l] # "none" => l <= k
  BY <1>1, GoodParts DEF AnswersFit
<1>3. r = bound /\ bound # 0
  BY FollowerIs, Numbers
<1>4. turn[k] # "none" /\ i \notin Inbox
  BY <1>1, AnsweredTurn
<1>5. \/ request'[i].state = "resolved" /\ request'[i].turn = k
      \/ request'[i].state = "sent" /\ Answer(i, TRUE, k) \in Lines'
  BY <1>1 DEF AnswerIs
<1>6. \A j, n : ~TurnBegins(j, n)
  <2> SUFFICES ASSUME NEW j, NEW n, TurnBegins(j, n) PROVE FALSE
    OBVIOUS
  <2>1. j \in Inbox /\ request[j].method = "turn/start"
    BY DEF TurnBegins
  <2>2. job[r].id = j
    BY <2>1, GoodParts DEF OneFollower
  <2> QED BY <1>1, <1>4, <2>1, <2>2
<1>7. \A l \in Turns : turn'[l] # "none" => l <= k
  <2>1. \A l \in Turns : turn'[l] # "none" => turn[l] # "none"
    <3>1. ASSUME NEW j, NEW n \in Turns, TurnStops(j, n)
          PROVE  \A l \in Turns : turn'[l] # "none" => turn[l] # "none"
      BY <3>1 DEF TurnStops
    <3> QED BY <1>6, <3>1, LinesMove
  <2> QED BY <1>2, <2>1
<1>8. ASSUME request'[i].state = "resolved", NEW x \in Lines', x.turn # 0 PROVE x.turn >= k
  <2>1. CASE x \notin Lines
    BY <1>4, <1>8, <2>1, TurnsMove
  <2>2. CASE x \in Lines /\ request[i].state = "resolved"
    BY <1>2, <1>8, <2>2
  <2>3. CASE x \in Lines /\ request[i].state # "resolved"
    <3>1. request[i].state = "sent" /\ Answer(i, TRUE, k) \in Lines
      BY <1>1, <2>3 DEF AnswerIs
    <3>2. ASSUME NEW m, Reading(m), Taking(m), m.id = i PROVE x.turn >= k
      <4>1. Behind(m, x) /\ m \in Lines /\ request'[i].turn = m.turn
        BY <3>1, <3>2, <1>8 DEF Reading, Taking
      <4>2. m.turn = k
        BY <1>5, <1>8, <4>1
      <4>3. k <= x.turn
        BY <1>8, <4>1, <4>2, Numbers DEF Behind
      <4>4. x.turn \in Turns \cup {0}
        BY <2>3, LineKnown
      <4> QED BY <4>3, <4>4 DEF Turns
    <3>3. ASSUME NEW m, Reading(m), Taking(m) PROVE m.id = i
      BY <1>8, <3>1, <3>3 DEF Taking
    <3>4. \E m : Reading(m) /\ Taking(m)
      <4>1. \A e, j, method, t : ~Asking(e, j, method, t)
        BY <1>8, <3>1 DEF Asking
      <4>2. \A j, state : state \in {"done", "rejected"} => ~Settling(j, state)
        BY <1>8, <3>1 DEF Settling
      <4>3. ~Shaking /\ ~Ending
        BY <1>8, <3>1 DEF Shaking, Ending
      <4>4. request' # request
        BY <1>8, <3>1
      <4>5. \A j, n, ok : ~Replying(j, ok) /\ ~TurnBegins(j, n) /\ ~TurnStops(j, n)
        BY <4>4, WritersWrite
      <4> QED BY <4>1, <4>2, <4>3, <4>4, <4>5 DEF Moves
    <3> QED BY <3>2, <3>3, <3>4
  <2> QED BY <2>1, <2>2, <2>3
<1>9. News("started", k) \in Lines' \/ NowRunning(r, k) \/ run'[r].last = k
  <2>1. ~Dying
    <3>1. ASSUME Dying PROVE FALSE
      <4>1. request[i].state # "resolved" /\ Ending
        BY <3>1 DEF Dying, NoneSettled, Settled
      <4>2. request'[i].state # "resolved" /\ request'[i].state # "sent"
        BY <4>1 DEF Ending
      <4> QED BY <1>5, <4>2
    <3> QED BY <3>1
  <2>2. ~Disposing
    BY DEF Disposing
  <2>3. CASE News("started", k) \in Lines /\ News("started", k) \notin Lines'
    <3>1. PICK m : m = News("started", k)
      OBVIOUS
    <3>2. m.turn = k
      BY <3>1 DEF News
    <3>3. Hearing(m)
      BY <2>1, <2>2, <2>3, <3>1, StartedHeard
    <3>4. loaded # 0
      BY <2>3, <3>1, <3>2, GoodParts, Numbers DEF LoadedFirst
    <3>5. Hears
      BY <1>3, <3>4, GoodParts DEF LoadedFirst, Hears
    <3> QED BY <1>3, <3>2, <3>3, <3>5 DEF Hearing, NowRunning
  <2>4. CASE Running(r, k) \/ run[r].last = k
    <3>1. CASE run'[r] = run[r]
      BY <2>4, <3>1 DEF Running, NowRunning
    <3>2. ASSUME NEW m, Heard(m) PROVE NowRunning(r, k) \/ run'[r].last = k
      <4>1. /\ m \in Lines /\ m.kind = "started" /\ run'[r].phase = "running" /\ run'[r].turn = m.turn
            /\ run'[r].last = run[r].last
        BY <1>3, <3>2 DEF Heard, Hearing, Reading
      <4>2. m.turn \in Turns /\ turn[m.turn] # "none"
        BY <4>1, NewsIs
      <4>3. ASSUME Running(r, k) PROVE m.turn = k
        <5>1. m.turn >= k
          BY <4>1, <4>2, <4>3, GoodParts, Numbers DEF Phases, Running
        <5>2. m.turn <= k
          BY <1>2, <4>2
        <5> QED BY <4>2, <5>1, <5>2 DEF Turns
      <4> QED BY <2>4, <4>1, <4>3 DEF NowRunning
    <3>3. ASSUME NEW m, EndHeard(m) PROVE NowRunning(r, k) \/ run'[r].last = k
      <4>1. /\ m \in Lines /\ m.kind = "completed" /\ run'[r].last = m.turn /\ m.turn # run[r].last
            /\ run[r].turn \in {0, m.turn}
        BY <1>3, <3>3 DEF EndHeard, Completing, Reading
      <4>2. m.turn \in Turns /\ turn[m.turn] # "none"
        BY <4>1, NewsIs
      <4>3. ASSUME run[r].last = k PROVE FALSE
        <5>1. m.turn >= k
          BY <4>1, <4>2, <4>3, GoodParts, Numbers DEF Phases
        <5>2. m.turn <= k
          BY <1>2, <4>2
        <5> QED BY <4>1, <4>2, <4>3, <5>1, <5>2 DEF Turns
      <4>4. ASSUME Running(r, k) PROVE m.turn = k
        BY <4>1, <4>4, Numbers DEF Running
      <4> QED BY <2>4, <4>1, <4>3, <4>4
    <3> QED BY <2>1, <3>1, <3>2, <3>3, WaitingRun
  <2> QED BY <1>2, <2>3, <2>4
<1> QED BY <1>1, <1>7, <1>8, <1>9 DEF FitNow

LEMMA AnswersFitStep ==
  ASSUME TypeOK, Good, Steps, Moves
  PROVE  AnswersFit'
<1> SUFFICES ASSUME NEW r \in Runs, NEW k \in Turns, job'[r].step = "turn", run'[r].tracked, AnswerIs(job[r].id, k)'
             PROVE  FitNow(r, k)
  BY DEF AnswersFit, FitNow, Running, NowRunning
<1>1. CASE job'[r] = job[r] /\ run[r].tracked
  <2>1. job[r].id \in Requests /\ request[job[r].id].state # "free"
    BY <1>1, CallParts DEF Waiting
  <2>2. PICK i : i = job[r].id
    OBVIOUS
  <2>3. AnswerIs(i, k)'
    BY <1>1, <2>2 DEF AnswerIs
  <2>4. AnswerIs(i, k) \/ TurnBegins(i, k)
    BY <2>1, <2>2, <2>3, AnswerMoves
  <2> QED BY <1>1, <2>2, <2>4, FitBegins, FitKeep
<1>2. ASSUME NEW i, NEW j, Asking(i, j, "turn/start", 0), job'[r].id = i PROVE FALSE
  <2>1. /\ i \in Requests /\ request[i].state = "free" /\ request'[i].state # "resolved" /\ Lines' = Lines
    BY <1>2 DEF Asking
  <2>2. request'[i].state = "sent" /\ Answer(i, TRUE, k) \in Lines
    BY <1>2, <2>1 DEF AnswerIs
  <2>3. PICK x : x = Answer(i, TRUE, k)
    OBVIOUS
  <2>4. x.id = i /\ x.kind \in Answers
    BY <2>3 DEF Answer, Answers
  <2> QED BY <2>1, <2>2, <2>3, <2>4, GoodParts DEF AnswersKnown
<1> QED BY <1>1, <1>2, CallsMove

-----------------------------------------------------------------------------
(* A turn is followed, or about to be *)

\* Requests that are over are done when the code behind them has run.
Progress ==
  \/ \E j : Settling(j, "done") /\ request[j].state \in Settled
  \/ \E i, j, method, t : Asking(i, j, method, t) /\ (j # 0 => request[j].state \in Settled)
  \/ Shaking \/ Ending
  \/ request' = request /\ Inbox' = Inbox /\ Lines' \subseteq Lines
  \/ \E m : Reading(m) /\ Taking(m)
  \/ \E i, ok : Replying(i, ok)
  \/ \E i, n : TurnBegins(i, n) \/ TurnStops(i, n)

LEMMA Progresses ==
  ASSUME TypeOK, Good, Steps, ~late'
  PROVE  ~late /\ Progress
<1>1. ASSUME NEW r, NEW i, Starting(i) \/ Following(r, i) \/ Resuming(r, i) \/ Stopping(r, i)
      PROVE  /\ late' = late
             /\ \E e, j, method, t : Asking(e, j, method, t) /\ (j # 0 => request[j].state \in Settled)
  <2>1. Starting(i) \/ Stopping(r, i) => \E method, t : Asking(i, 0, method, t)
    BY DEF Starting, Stopping
  <2>2. Following(r, i) => \E method : Asking(i, 0, method, 0)
    BY DEF Following
  <2>3. Resuming(r, i) => Asking(i, job[r].id, "turn/start", 0) /\ request[job[r].id].state \in Settled
    BY DEF Resuming, Settled
  <2>4. late' = late
    BY <1>1 DEF Starting, Following, Resuming, Stopping
  <2> QED BY <1>1, <2>1, <2>2, <2>3, <2>4
<1>2. ASSUME NEW r, Beginning(r) \/ Failing(r) \/ Interrupting(r)
      PROVE  late' = late /\ \E j : Settling(j, "done") /\ request[j].state \in Settled
  BY <1>2 DEF Beginning, Failing, Interrupting, Settled
<1>3. ASSUME NEW r, GivingUp(r) \/ Closing \/ UNCHANGED vars
      PROVE  late' = late /\ request' = request /\ Inbox' = Inbox /\ Lines' \subseteq Lines
  BY <1>3 DEF GivingUp, Closing, vars, connection, Inbox, Lines
<1>4. ASSUME Greeting \/ Dying \/ Disposing PROVE late' = late /\ (Shaking \/ Ending)
  BY <1>4 DEF Greeting, Dying, Disposing
<1>5. ASSUME NEW m, Hearing(m) \/ Completing(m)
      PROVE  late' = late /\ request' = request /\ Inbox' = Inbox /\ Lines' \subseteq Lines
  BY <1>5 DEF Hearing, Completing, Reading
<1>6. ASSUME NEW m, Answering(m) PROVE late' = late /\ Reading(m) /\ Taking(m)
  BY <1>6 DEF Answering
<1>7. ASSUME NEW i, NEW n, Replying(i, n) \/ TurnBegins(i, n) \/ TurnStops(i, n) PROVE late' = late
  BY <1>7 DEF Replying, TurnBegins, TurnStops
<1>8. \A i : ~Expiring(i)
  BY DEF Expiring
<1> QED BY <1>1, <1>2, <1>3, <1>4, <1>5, <1>6, <1>7, <1>8 DEF Steps, Progress

Awaited ==
  /\ \A x \in Lines : x.kind \in Answers => request[x.id].state = "sent"
  /\ \A i \in Inbox : request[i].state = "sent"

LEMMA AwaitedStep ==
  ASSUME TypeOK, Good, ~late, Progress
  PROVE  Awaited'
<1>1. Awaited /\ (\A x \in Lines : x.kind \in Answers => x.id \in Requests /\ x.id \notin Inbox)
      /\ Inbox \subseteq Requests
  BY GoodParts, Pipes, TypeParts DEF Followed, Awaited, AnswersKnown
<1>2. \A i, ok, k : Answer(i, ok, k).id = i
  BY DEF Answer
<1>3. \A kind, k : kind \in {"started", "completed"} => News(kind, k).kind \notin Answers
  BY DEF News, Answers
<1>4. ASSUME NEW j, Settling(j, "done"), request[j].state \in Settled PROVE Awaited'
  <2>1. \A i \in Requests : request[i].state = "sent" => request'[i].state = "sent"
    BY <1>4 DEF Settling, Settled
  <2>2. Lines' = Lines /\ Inbox' = Inbox
    BY <1>4 DEF Settling
  <2> QED BY <1>1, <2>1, <2>2 DEF Awaited
<1>5. ASSUME NEW e, NEW j, NEW method, NEW t, Asking(e, j, method, t), j # 0 => request[j].state \in Settled
      PROVE  Awaited'
  <2>1. \A i \in Requests : request[i].state = "sent" => request'[i].state = "sent"
    BY <1>5, Numbers DEF Asking, Settled
  <2>2. Lines' = Lines /\ Inbox' \subseteq Inbox \cup {e} /\ (e \in Inbox' => request'[e].state = "sent")
    BY <1>5 DEF Asking
  <2> QED BY <1>1, <2>1, <2>2 DEF Awaited
<1>6. CASE Shaking \/ Ending
  BY <1>6 DEF Shaking, Ending, Awaited
<1>7. CASE request' = request /\ Inbox' = Inbox /\ Lines' \subseteq Lines
  BY <1>1, <1>7 DEF Awaited
<1>8. ASSUME NEW m, Reading(m), Taking(m) PROVE Awaited'
  <2>1. /\ m \in Lines /\ Lines' \subseteq Lines /\ Inbox' = Inbox /\ m.kind \in Answers
        /\ \A x \in Lines' : x.kind \in Answers => x.id # m.id
    BY <1>8 DEF Reading, Taking, Behind
  <2>2. \A i \in Requests : i # m.id => request'[i].state = request[i].state
    BY <1>8 DEF Taking
  <2> QED BY <1>1, <2>1, <2>2 DEF Awaited
<1>9. ASSUME request' = request, Inbox' \subseteq Inbox,
             \A x \in Lines' : x \in Lines \/ x.kind \notin Answers \/ x.id \in Inbox
      PROVE  Awaited'
  BY <1>1, <1>9 DEF Awaited
<1>10. ASSUME NEW i, NEW ok, Replying(i, ok) PROVE Awaited'
  BY <1>2, <1>9, <1>10 DEF Replying, Writing
<1>11. ASSUME NEW i, NEW n, TurnBegins(i, n) PROVE Awaited'
  <2>1. /\ request' = request /\ Inbox' \subseteq Inbox /\ i \in Inbox
        /\ Lines' \subseteq Lines \cup {News("started", n), News("completed", n), Answer(i, TRUE, n)}
    BY <1>11 DEF TurnBegins, Writing
  <2>2. News("started", n).kind \notin Answers /\ News("completed", n).kind \notin Answers
    BY DEF News, Answers
  <2>3. Answer(i, TRUE, n).id = i
    BY DEF Answer
  <2>4. \A x \in Lines' : x \in Lines \/ x.kind \notin Answers \/ x.id \in Inbox
    BY <2>1, <2>2, <2>3
  <2> QED BY <1>9, <2>1, <2>4
<1>12. ASSUME NEW i, NEW n, TurnStops(i, n) PROVE Awaited'
  <2>1. /\ request' = request /\ Inbox' \subseteq Inbox
        /\ \/ i \in Inbox /\ Lines' = Lines \cup {News("completed", n), Answer(i, TRUE, 0)}
           \/ Lines' = Lines \cup {News("completed", n)}
    BY <1>12 DEF TurnStops, Writing
  <2>2. News("completed", n).kind \notin Answers
    BY DEF News, Answers
  <2>3. Answer(i, TRUE, 0).id = i
    BY DEF Answer
  <2>4. \A x \in Lines' : x \in Lines \/ x.kind \notin Answers \/ x.id \in Inbox
    BY <2>1, <2>2, <2>3
  <2> QED BY <1>9, <2>1, <2>4
<1> QED BY <1>4, <1>5, <1>6, <1>7, <1>8, <1>10, <1>11, <1>12 DEF Progress

\* Two lines do not answer the same request.
LEMMA OneAnswer ==
  ASSUME NEW m, Reading(m), NEW x \in Lines, x.kind \in Answers, m.kind \in Answers, x.id = m.id
  PROVE  x = m
BY DEF Reading, Behind

\* What was answered to a call that waits stays so.
LEMMA CallKept ==
  ASSUME TypeOK, Good, Steps, ~Dying, ~Disposing, ~late', NEW r \in Runs, job'[r] = job[r],
         job[r].step = "turn", NEW i, i = job[r].id, NEW k \in Turns, AnswerIs(i, k)
  PROVE  AnswerIs(i, k)' /\ (request[i].state = "resolved" => request'[i].state = "resolved")
<1> DEFINE a == Answer(i, TRUE, k)
           Stays == AnswerIs(i, k)' /\ (request[i].state = "resolved" => request'[i].state = "resolved")
<1>1. a.id = i /\ a.turn = k /\ a.kind = "result" /\ a.kind \in Answers
  BY DEF Answer, Answers
<1>2. \/ request[i].state = "resolved" /\ request[i].turn = k
      \/ request[i].state = "sent" /\ a \in Lines
  BY DEF AnswerIs
<1>3. AnswerIs(i, k)' <=> \/ request'[i].state = "resolved" /\ request'[i].turn = k
                          \/ request'[i].state = "sent" /\ a \in Lines'
  BY DEF AnswerIs
<1> HIDE DEF a
<1>4. i \in Requests /\ request[i].method = "turn/start" /\ request[i].state # "free"
  BY <1>2, CallParts DEF Method
<1>5. ASSUME Same(i), request'[i].state = request[i].state, a \in Lines => a \in Lines' PROVE Stays
  BY <1>2, <1>3, <1>5 DEF Same
<1>6. ASSUME NEW e, NEW j, NEW method, NEW t, Asking(e, j, method, t), i # j PROVE Stays
  <2>1. i # e /\ Lines' = Lines
    BY <1>4, <1>6 DEF Asking
  <2>2. Same(i) /\ request'[i].state = request[i].state
    BY <1>4, <1>6, <2>1 DEF Asking
  <2> QED BY <1>5, <2>1, <2>2
<1>7. ASSUME NEW j, Settling(j, "done"), i # j PROVE Stays
  BY <1>4, <1>5, <1>7 DEF Settling
<1>8. ASSUME NEW s \in Runs, NEW e, Starting(e) \/ Following(s, e) \/ Resuming(s, e) \/ Stopping(s, e)
      PROVE  Stays
  <2>1. i # 0
    BY <1>4, Numbers
  <2>2. CASE Starting(e) \/ Following(s, e) \/ Stopping(s, e)
    BY <1>6, <2>1, <2>2 DEF Starting, Following, Stopping
  <2>3. CASE Resuming(s, e)
    <3>1. job[s].step \in {"thread", "resume"} /\ Asking(e, job[s].id, "turn/start", 0)
      BY <2>3 DEF Resuming
    <3>2. request[job[s].id].method # "turn/start"
      BY <3>1, CallParts DEF Method
    <3> QED BY <1>4, <1>6, <3>1, <3>2
  <2> QED BY <1>8, <2>2, <2>3
<1>9. ASSUME NEW s \in Runs, Beginning(s) \/ Failing(s) PROVE Stays
  <2>1. Settling(job[s].id, "done") /\ JobEnds(s) /\ job[s].step # "none"
    BY <1>9 DEF Beginning, Failing
  <2>2. job[s].id # i
    BY <2>1, GoodParts DEF JobEnds, JobsOwn
  <2> QED BY <1>7, <2>1, <2>2
<1>10. ASSUME NEW s \in Runs, Interrupting(s) PROVE Stays
  <2>1. Settling(stop[s].id, "done") /\ stop[s].step \in {"interrupt", "told"}
    BY <1>10 DEF Interrupting
  <2>2. stop[s].id # i
    BY <1>4, <2>1, GoodParts DEF JobsOwn
  <2> QED BY <1>7, <2>1, <2>2
<1>11. ~Greeting
  <2>1. starting = 0
    BY <1>2, <1>4, GoodParts DEF Asked, Shaken
  <2> QED BY <2>1 DEF Greeting, Shaking
<1>12. ASSUME NEW s, GivingUp(s) \/ Closing \/ UNCHANGED vars PROVE Stays
  <2>1. request' = request /\ Lines' = Lines
    BY <1>12 DEF GivingUp, Closing, vars, connection, Lines
  <2> QED BY <1>5, <2>1 DEF Same
<1>13. ASSUME NEW m, Hearing(m) \/ Completing(m) PROVE Stays
  <2>1. request' = request /\ Lines' = Lines \ {m} /\ m.kind \in {"started", "completed"}
    BY <1>13 DEF Hearing, Completing, Reading
  <2>2. a # m
    BY <1>1, <2>1
  <2> QED BY <1>5, <2>1, <2>2 DEF Same
<1>14. ASSUME NEW m, Answering(m) PROVE Stays
  <2>1. Reading(m) /\ Taking(m) /\ Lines' = Lines \ {m} /\ m.kind \in Answers
    BY <1>14 DEF Answering, Reading, Taking
  <2>2. CASE m.id # i \/ request[m.id].state # "sent"
    <3>1. Same(i) /\ request'[i].state = request[i].state
      BY <1>4, <2>1, <2>2 DEF Taking
    <3>2. CASE request[i].state = "resolved"
      BY <1>2, <1>3, <3>1, <3>2 DEF Same
    <3>3. CASE request[i].state = "sent"
      <4>1. a # m
        BY <1>1, <2>2, <3>3
      <4> QED BY <1>5, <2>1, <3>1, <4>1
    <3> QED BY <1>2, <3>2, <3>3
  <2>3. CASE m.id = i /\ request[i].state = "sent"
    <3>1. a = m
      BY <1>1, <1>2, <2>1, <2>3, OneAnswer
    <3>2. request'[i].state = "resolved" /\ request'[i].turn = k
      BY <1>1, <2>1, <2>3, <3>1 DEF Taking
    <3> QED BY <1>3, <3>2
  <2> QED BY <2>2, <2>3
<1>15. ASSUME NEW e, NEW n, Replying(e, n) \/ TurnBegins(e, n) \/ TurnStops(e, n) PROVE Stays
  <2>1. request' = request /\ Lines \subseteq Lines'
    BY <1>15 DEF Replying, TurnBegins, TurnStops, Writing
  <2> QED BY <1>5, <2>1 DEF Same
<1>16. \A e : ~Expiring(e)
  BY DEF Expiring
<1> QED BY <1>8, <1>9, <1>10, <1>11, <1>12, <1>13, <1>14, <1>15, <1>16 DEF Steps

\* A turn is asked for when none is followed.
LEMMA NewCall ==
  ASSUME TypeOK, Good, Steps, NEW r \in Runs, job'[r].step = "turn", job'[r] # job[r]
  PROVE  run'[r].phase = "turn-starting"
<1>1. ASSUME NEW i, Starting(i) PROVE FALSE
  BY <1>1, Numbers DEF Starting, JobBecomes
<1>2. ASSUME NEW s \in Runs, NEW i, Following(s, i) \/ Resuming(s, i) PROVE run'[r].phase = "turn-starting"
  <2>1. s = r
    BY <1>2 DEF Following, Resuming, JobBecomes
  <2> QED BY <1>2, <2>1 DEF Following, Resuming, JobBecomes
<1>3. ASSUME NEW s \in Runs, Beginning(s) \/ Failing(s) PROVE FALSE
  BY <1>3 DEF Beginning, Failing, JobEnds
<1>4. ASSUME NEW s, NEW i, UNCHANGED vars \/ Greeting \/ Dying \/ Disposing \/ Closing \/ Expiring(i)
             \/ (\E ok \in BOOLEAN : Replying(i, ok)) \/ Stopping(s, i) \/ Interrupting(s) \/ GivingUp(s)
      PROVE  job' = job
  <2>1. CASE UNCHANGED vars \/ Greeting \/ Dying \/ Disposing \/ Closing
    BY <2>1 DEF vars, Greeting, Dying, Disposing, Closing
  <2>2. CASE Expiring(i) \/ (\E ok \in BOOLEAN : Replying(i, ok)) \/ Stopping(s, i) \/ Interrupting(s) \/ GivingUp(s)
    BY <2>2 DEF Expiring, Replying, Stopping, Interrupting, GivingUp
  <2> QED BY <1>4, <2>1, <2>2
<1>5. ASSUME NEW i, NEW m, Hearing(m) \/ Completing(m) \/ Answering(m) \/ TurnBegins(i, m) \/ TurnStops(i, m)
      PROVE  job' = job
  BY <1>5 DEF Hearing, Completing, Answering, TurnBegins, TurnStops
<1> QED BY <1>1, <1>2, <1>3, <1>4, <1>5 DEF Steps

\* The clauses of Followed
TurnsFollowed ==
  \A k \in Turns : Current(k) =>
    /\ bound # 0
    /\ \/ Running(bound, k)
       \/ /\ job[bound].step = "turn" /\ AnswerIs(job[bound].id, k)
          /\ request[job[bound].id].state = "resolved" \/ News("started", k) \in Lines
CallFits ==
  bound # 0 /\ job[bound].step = "turn" =>
    /\ request[job[bound].id].state \in {"sent", "resolved"} /\ run[bound].phase = "idle"
         => run[bound].last # 0 /\ AnswerIs(job[bound].id, run[bound].last)
    /\ run[bound].phase = "running" => AnswerIs(job[bound].id, run[bound].turn)

LEMMA FollowedParts ==
  /\ Followed <=> (~late => Awaited /\ TurnsFollowed /\ CallFits)
  /\ Followed' <=> (~late' => Awaited' /\ TurnsFollowed' /\ CallFits')
BY DEF Followed, Awaited, TurnsFollowed, CallFits

\* While a call waits, every turn that is not over was its answer.
LEMMA CurrentAnswers ==
  ASSUME Good, ~late, bound # 0, job[bound].step = "turn", NEW k \in Turns, Current(k)
  PROVE  AnswerIs(job[bound].id, k)
<1>1. TurnsFollowed /\ CallFits
  BY GoodParts, FollowedParts
<1> QED BY <1>1 DEF TurnsFollowed, CallFits, Running

\* A call that is sent or answered was so.
LEMMA LiveCall ==
  ASSUME TypeOK, Good, Progress, NEW r \in Runs, job[r].step = "turn", NEW i, i = job[r].id,
         request'[i].state \in {"sent", "resolved"}
  PROVE  request[i].state \in {"sent", "resolved"}
<1>1. i \in Requests /\ request[i].method = "turn/start" /\ request[i].state \in Waiting
  BY CallParts DEF Method
<1>2. request[i].state # "queued"
  BY <1>1, GoodParts DEF LoadedFirst, Asked
<1>3. ASSUME request[i].state = "rejected" PROVE FALSE
  <2>1. ASSUME NEW j, Settling(j, "done") PROVE FALSE
    BY <1>1, <1>3, <2>1 DEF Settling
  <2>2. ASSUME NEW e, NEW j, NEW method, NEW t, Asking(e, j, method, t) PROVE FALSE
    <3>1. e # i
      BY <1>3, <2>2 DEF Asking
    <3> QED BY <1>1, <1>3, <2>2, <3>1 DEF Asking
  <2>3. ~Shaking /\ ~Ending
    BY <1>1, <1>3 DEF Shaking, Ending
  <2>4. ASSUME NEW m, Reading(m), Taking(m) PROVE FALSE
    BY <1>1, <1>3, <2>4 DEF Taking
  <2>5. \A e, n : ~Replying(e, n) /\ ~TurnBegins(e, n) /\ ~TurnStops(e, n)
    BY <1>3 DEF Replying, TurnBegins, TurnStops, Writing
  <2> QED BY <1>3, <2>1, <2>2, <2>3, <2>4, <2>5 DEF Progress
<1> QED BY <1>1, <1>2, <1>3 DEF Waiting

LEMMA CallFitsStep ==
  ASSUME TypeOK, Good, TypeOK', OneFollower', Steps, Progress, ~late, ~late'
  PROVE  CallFits'
<1> SUFFICES ASSUME NEW b, b = bound', b # 0, job'[b].step = "turn", NEW i, i = job'[b].id
             PROVE  /\ request'[i].state \in {"sent", "resolved"} /\ run'[b].phase = "idle"
                         => run'[b].last # 0 /\ \E k \in Turns : k = run'[b].last /\ AnswerIs(i, k)'
                    /\ run'[b].phase = "running" => \E k \in Turns : k = run'[b].turn /\ AnswerIs(i, k)'
  BY DEF CallFits, AnswerIs
<1>1. b \in Runs /\ run'[b].tracked
  BY DEF TypeOK, ProviderTypes, OneFollower
<1>2. CASE job'[b] # job[b]
  BY <1>1, <1>2, NewCall
<1>3. CASE job'[b] = job[b]
  <2>1. /\ i = job[b].id /\ i \in Requests /\ job[b].step = "turn" /\ request[i].state # "free"
    BY <1>1, <1>3, CallParts DEF Waiting
  <2>2. run[b].tracked
    <3>1. \A e, j : ~(Asking(e, j, "turn/start", 0) /\ job'[b].id = e)
      BY <2>1 DEF Asking
    <3> QED BY <1>1, <3>1, CallsMove
  <2>3. b = bound
    BY <1>1, <2>1, <2>2, FollowerIs
  <2>4. CallFits
    BY GoodParts, FollowedParts
  <2>5. run[b] \in RunType /\ run[b].phase \in {"idle", "turn-starting", "running"}
        /\ run[b].last \in Turns \cup {0}
    BY <1>1, TypeParts, RunParts
  <2>6. CASE Dying
    <3>1. request'[i].state \notin {"sent", "resolved"}
      <4>1. Ending /\ request[i].state # "resolved"
        BY <2>1, <2>6 DEF Dying, NoneSettled, Settled
      <4> QED BY <2>1, <4>1 DEF Ending
    <3>2. run'[b].phase # "running"
      <4>1. run[b].phase = "running" => Interrupted(b)
        BY <1>1, <2>2, FollowerIs DEF Interrupted, Hears
      <4> QED BY <1>1, <2>6, <4>1 DEF Dying
    <3> QED BY <3>1, <3>2
  <2>7. ~Disposing
    BY DEF Disposing
  <2>8. CASE ~Dying
    <3>1. \A k \in Turns : AnswerIs(i, k) => AnswerIs(i, k)'
      <4> SUFFICES ASSUME NEW k \in Turns, AnswerIs(i, k) PROVE AnswerIs(i, k)'
        OBVIOUS
      <4> QED BY <1>1, <1>3, <2>1, <2>7, <2>8, CallKept
    <3>2. CASE run'[b] = run[b]
      <4>1. ASSUME request'[i].state \in {"sent", "resolved"}, run'[b].phase = "idle"
            PROVE  run'[b].last # 0 /\ \E k \in Turns : k = run'[b].last /\ AnswerIs(i, k)'
        <5>1. request[i].state \in {"sent", "resolved"}
          BY <1>1, <2>1, <4>1, LiveCall
        <5>2. run[b].last # 0 /\ AnswerIs(i, run[b].last)
          BY <2>1, <2>3, <2>4, <3>2, <4>1, <5>1 DEF CallFits
        <5> QED BY <2>5, <3>1, <3>2, <5>2
      <4>2. ASSUME run'[b].phase = "running" PROVE \E k \in Turns : k = run'[b].turn /\ AnswerIs(i, k)'
        <5>1. AnswerIs(i, run[b].turn)
          BY <2>1, <2>3, <2>4, <3>2, <4>2 DEF CallFits
        <5>2. run[b].turn \in Turns
          BY <1>1, <2>2, <3>2, <4>2, FollowerIs
        <5> QED BY <3>1, <3>2, <5>1, <5>2
      <4> QED BY <4>1, <4>2
    <3>3. ASSUME NEW m \in Lines, m.kind \in {"started", "completed"}
          PROVE  m.turn \in Turns /\ m.turn # 0 /\ AnswerIs(i, m.turn)
      <4>1. m = News(m.kind, m.turn) /\ m.turn \in Turns /\ m.turn # 0
        BY <3>3, NewsIs, Numbers
      <4>2. Current(m.turn)
        BY <3>3, <4>1, GoodParts DEF NewsKnown, Current
      <4> QED BY <2>1, <2>3, <4>1, <4>2, CurrentAnswers
    <3>4. ASSUME NEW m, Heard(m) PROVE run'[b].phase = "running" /\ AnswerIs(i, m.turn) /\ run'[b].turn = m.turn /\ m.turn \in Turns
      <4>1. m \in Lines /\ m.kind = "started" /\ run'[b].phase = "running" /\ run'[b].turn = m.turn
        BY <2>3, <3>4 DEF Heard, Hearing, Reading
      <4> QED BY <3>3, <4>1
    <3>5. ASSUME NEW m, EndHeard(m) PROVE run'[b].phase = "idle" /\ AnswerIs(i, m.turn) /\ run'[b].last = m.turn /\ m.turn \in Turns /\ m.turn # 0
      <4>1. m \in Lines /\ m.kind = "completed" /\ run'[b].phase = "idle" /\ run'[b].last = m.turn
        BY <2>3, <3>5 DEF EndHeard, Completing, Reading
      <4> QED BY <3>3, <4>1
    <3> QED BY <1>1, <1>3, <2>1, <2>2, <2>8, <3>1, <3>2, <3>4, <3>5, WaitingRun
  <2> QED BY <2>6, <2>8
<1> QED BY <1>2, <1>3

\* A turn that is not over was so, or was just begun.
LEMMA CurrentWas ==
  ASSUME TypeOK, Good, Moves, NEW k \in Turns, Current(k)'
  PROVE  Current(k) \/ \E i : TurnBegins(i, k)
<1> DEFINE c == News("completed", k)
<1>1. turn'[k] = "busy" \/ c \in Lines'
  BY DEF Current
<1>2. Current(k) <=> turn[k] = "busy" \/ c \in Lines
  BY DEF Current
<1>3. \A i, ok, n : c # Answer(i, ok, n) /\ c # News("started", n)
  BY DEF Answer, News
<1>4. \A n : c = News("completed", n) => n = k
  BY DEF News
<1> HIDE DEF c
<1>5. CASE UNCHANGED turn /\ (Lines' = Lines \/ \E m : Reading(m))
  BY <1>1, <1>2, <1>5 DEF Reading
<1>6. ASSUME NEW i, NEW ok, UNCHANGED turn, Lines' = Lines \cup {Answer(i, ok, 0)} PROVE Current(k)
  BY <1>1, <1>2, <1>3, <1>6
<1>7. ASSUME Lines' = {}, turn'[k] = turn[k] \/ (turn[k] = "busy" /\ turn'[k] = "done") PROVE Current(k)
  BY <1>1, <1>2, <1>7
<1>8. ASSUME NEW i, NEW n \in Turns, TurnBegins(i, n), n # k PROVE Current(k)
  <2>1. /\ turn'[k] = turn[k]
        /\ Lines' \subseteq Lines \cup {News("started", n), News("completed", n), Answer(i, TRUE, n)}
    BY <1>8 DEF TurnBegins, Writing
  <2>2. c \in Lines' => c \in Lines
    BY <1>3, <1>4, <1>8, <2>1
  <2> QED BY <1>1, <1>2, <2>1, <2>2
<1>9. ASSUME NEW i, NEW n \in Turns, TurnStops(i, n) PROVE Current(k)
  <2>1. /\ turn[n] = "busy" /\ (k # n => turn'[k] = turn[k])
        /\ Lines' \subseteq Lines \cup {News("completed", n), Answer(i, TRUE, 0)}
    BY <1>9 DEF TurnStops, Writing
  <2>2. c \in Lines' => c \in Lines \/ n = k
    BY <1>3, <1>4, <2>1
  <2> QED BY <1>1, <1>2, <2>1, <2>2
<1> QED BY <1>5, <1>6, <1>7, <1>8, <1>9, LinesMove

\* No step of a new call or of a call that fails is taken while a turn is followed.
LEMMA NotNow ==
  ASSUME TypeOK, Good, loaded # 0, bound # 0
  PROVE  /\ bound \in Runs /\ run[bound].tracked /\ Hears
         /\ \A i : ~Starting(i)
         /\ \A r \in Runs : \A i : ~Resuming(r, i)
<1>1. bound \in Runs /\ run[bound].tracked
  BY GoodParts, TypeParts DEF OneFollower
<1>2. Hears
  BY GoodParts DEF LoadedFirst, Hears
<1>3. \A i : ~Starting(i)
  BY GoodParts DEF Starting, FirstRequest
<1>4. \A r \in Runs : \A i : ~Resuming(r, i)
  BY Resumes DEF Resuming
<1> QED BY <1>1, <1>2, <1>3, <1>4

\* A call that was answered with a turn does not fail.
LEMMA NoFailure ==
  ASSUME TypeOK, Good, loaded # 0, bound # 0, NEW k \in Turns,
         job[bound].step = "turn" => AnswerIs(job[bound].id, k)
  PROVE  ~Failing(bound)
<1>1. bound \in Runs /\ run[bound].tracked
  BY NotNow
<1>2. CASE job[bound].step = "turn"
  <2>1. request[job[bound].id].state \in {"sent", "resolved"}
    BY <1>2 DEF AnswerIs
  <2> QED BY <1>1, <2>1 DEF Failing, Settled
<1>3. CASE job[bound].step = "thread"
  BY <1>1, <1>3, GoodParts DEF OneFollower
<1>4. CASE job[bound].step = "resume"
  <2>1. closing
    BY <1>1, <1>4, GoodParts DEF OneFollower
  <2>2. child # 0
    BY GoodParts DEF LoadedFirst
  <2> QED BY <2>1, <2>2, GoodParts DEF OneChild
<1>5. CASE job[bound].step = "none"
  BY <1>5 DEF Failing
<1>6. job[bound].step \in {"none", "thread", "resume", "turn"}
  BY <1>1, TypeParts DEF JobType
<1> QED BY <1>2, <1>3, <1>4, <1>5, <1>6

\* A run that is running with a turn stays so until the turn is over.
LEMMA RunningKept ==
  ASSUME TypeOK, Good, Steps, Moves, ~late, ~Dying, ~Disposing, NEW k \in Turns, Current(k), Current(k)',
         bound # 0, Running(bound, k)
  PROVE  bound' # 0 /\ NowRunning(bound', k)
<1>1. /\ loaded # 0 /\ bound \in Runs /\ run[bound].tracked /\ Hears
      /\ (\A i : ~Starting(i)) /\ \A r \in Runs : \A i : ~Resuming(r, i)
  <2>1. loaded # 0
    BY FollowerIs, GoodParts, TypeParts DEF Running, OneFollower
  <2> QED BY <2>1, NotNow
<1>2. job[bound].step = "turn" => AnswerIs(job[bound].id, k)
  BY CurrentAnswers
<1>3. CASE bound' = bound /\ run'[bound] = run[bound]
  BY <1>3 DEF Running, NowRunning
<1>4. ASSUME NEW r \in Runs, NEW i, Following(r, i) PROVE FALSE
  BY <1>4 DEF Following, Running
<1>5. ~Closing
  BY DEF Closing, Running
<1>6. ASSUME NEW r \in Runs, Failing(r) PROVE bound' = bound /\ run'[bound] = run[bound]
  <2>1. r # bound
    BY <1>1, <1>2, <1>6, NoFailure
  <2> QED BY <1>1, <1>6, <2>1 DEF Failing, OthersKept
<1>7. ASSUME NEW r \in Runs, Beginning(r) PROVE bound' = bound /\ NowRunning(bound, k)
  <2>1. CASE r # bound \/ run' = run
    BY <1>1, <1>7, <2>1 DEF Beginning, OthersKept, Running, NowRunning
  <2>2. CASE r = bound /\ run' # run
    <3>1. request[job[r].id].turn = k
      BY <1>2, <1>7, <2>2 DEF Beginning, AnswerIs
    <3> QED BY <1>7, <2>2, <3>1 DEF Beginning, Running, NowRunning
  <2> QED BY <2>1, <2>2
<1>8. ASSUME NEW m, Hearing(m) PROVE bound' = bound /\ NowRunning(bound, k)
  <2>1. m \in Lines /\ Lines' = Lines \ {m} /\ m.kind = "started" /\ bound' = bound
        /\ \A x \in Lines' : Behind(m, x)
    BY <1>8 DEF Hearing, Reading
  <2>2. m.turn \in Turns /\ turn[m.turn] # "none" /\ m.turn # 0
    BY <2>1, NewsIs, Numbers
  <2>3. m.turn >= k
    BY <1>1, <2>1, <2>2, GoodParts DEF Phases, Running
  <2>4. m.turn <= k
    <3>1. CASE turn[k] = "busy"
      BY <2>2, <3>1, BusyIsLast
    <3>2. ASSUME NEW c, c = News("completed", k), c \in Lines PROVE m.turn <= k
      <4>1. c.kind = "completed" /\ c.turn = k /\ k # 0
        BY <3>2, Numbers DEF News
      <4>2. c \in Lines'
        BY <2>1, <3>2, <4>1
      <4>3. Behind(m, c)
        BY <2>1, <4>2
      <4> QED BY <2>2, <4>1, <4>3 DEF Behind
    <3> QED BY <3>1, <3>2 DEF Current
  <2>5. m.turn = k
    BY <2>2, <2>3, <2>4 DEF Turns
  <2> QED BY <1>1, <1>8, <2>1, <2>5 DEF Hearing, Running, NowRunning
<1>9. ASSUME NEW m, Completing(m) PROVE bound' = bound /\ run'[bound] = run[bound]
  <2>1. m \in Lines /\ Lines' = Lines \ {m} /\ m.kind = "completed" /\ bound' = bound /\ turn' = turn
    BY <1>9 DEF Completing, Reading
  <2>2. m = News("completed", m.turn) /\ turn[m.turn] = "done"
    BY <2>1, NewsIs, GoodParts DEF NewsKnown
  <2>3. m.turn # k
    <3>1. turn'[k] = "busy" \/ News("completed", k) \in Lines'
      BY DEF Current
    <3> QED BY <2>1, <2>2, <3>1
  <2>4. run[bound].turn \notin {0, m.turn}
    BY <2>3, Numbers DEF Running
  <2> QED BY <1>9, <2>1, <2>4 DEF Completing
<1>10. ASSUME NEW i, NEW s, UNCHANGED vars \/ Greeting \/ Expiring(i) \/ (\E ok \in BOOLEAN : Replying(i, ok))
                           \/ Stopping(s, i) \/ Interrupting(s) \/ GivingUp(s)
      PROVE  run' = run /\ bound' = bound
  BY <1>10 DEF vars, Greeting, Expiring, Replying, Stopping, Interrupting, GivingUp
<1>11. ASSUME NEW i, NEW n, Answering(n) \/ TurnBegins(i, n) \/ TurnStops(i, n) PROVE run' = run /\ bound' = bound
  BY <1>11 DEF Answering, TurnBegins, TurnStops
<1> QED BY <1>1, <1>3, <1>4, <1>5, <1>6, <1>7, <1>8, <1>9, <1>10, <1>11 DEF Steps

LEMMA CurrentLoaded ==
  ASSUME Good, NEW k \in Turns, Current(k)
  PROVE  loaded # 0 /\ turn[k] # "none"
<1>1. ASSUME NEW c, c = News("completed", k), c \in Lines PROVE loaded # 0 /\ turn[k] # "none"
  <2>1. c.turn = k /\ c.kind = "completed" /\ k # 0
    BY <1>1, Numbers DEF News
  <2> QED BY <1>1, <2>1, GoodParts DEF LoadedFirst, NewsKnown
<1>2. CASE turn[k] = "busy"
  BY <1>2, GoodParts DEF LoadedFirst
<1> QED BY <1>1, <1>2 DEF Current

\* The last turn of a run that has ended is over.
LEMMA LastIsOver ==
  ASSUME Good, NEW r \in Runs, NEW k \in Turns, Current(k)
  PROVE  run[r].last # k
BY GoodParts, Numbers DEF Phases, Current

\* A turn that a call waits for is followed when the call is answered or its news is read.
LEMMA CallingKept ==
  ASSUME TypeOK, Good, Steps, Moves, ~late, ~late', ~Dying, ~Disposing, NEW k \in Turns, Current(k),
         bound # 0, job[bound].step = "turn", NEW i, i = job[bound].id, AnswerIs(i, k),
         request[i].state = "resolved" \/ News("started", k) \in Lines
  PROVE  /\ bound' = bound
         /\ \/ NowRunning(bound, k)
            \/ /\ job'[bound] = job[bound] /\ AnswerIs(i, k)'
               /\ request'[i].state = "resolved" \/ News("started", k) \in Lines'
<1>1. /\ loaded # 0 /\ bound \in Runs /\ run[bound].tracked /\ Hears
      /\ (\A e : ~Starting(e)) /\ \A r \in Runs : \A e : ~Resuming(r, e)
  BY CurrentLoaded, NotNow
<1>2. ASSUME NEW r \in Runs, NEW e, Following(r, e) PROVE FALSE
  <2>1. run[bound].phase = "idle"
    BY <1>2 DEF Following
  <2>2. request[i].state \in {"sent", "resolved"}
    BY DEF AnswerIs
  <2>3. PICK l : l = run[bound].last
    OBVIOUS
  <2>4. l # 0 /\ AnswerIs(i, l)
    <3>1. CallFits
      BY GoodParts, FollowedParts
    <3>2. run[bound].last # 0 /\ AnswerIs(i, run[bound].last)
      BY <2>1, <2>2, <3>1 DEF CallFits
    <3> QED BY <2>3, <3>2
  <2>5. l \in Turns /\ turn[l] = "done" /\ turn[k] # "none"
    <3>1. l \in Turns \cup {0}
      <4>1. run[bound] \in RunType
        BY <1>1, TypeParts
      <4> QED BY <2>3, <4>1, RunParts
    <3>2. turn[l] = "done"
      BY <1>1, <2>3, <2>4, GoodParts DEF Phases
    <3> QED BY <2>4, <3>1, <3>2, CurrentLoaded
  <2>6. \A n \in Turns : AnswerIs(i, n) => \A j \in Turns : turn[j] # "none" => j <= n
    BY <1>1, GoodParts DEF AnswersFit
  <2>7. l <= k /\ k <= l
    BY <2>4, <2>5, <2>6
  <2>8. l = k
    BY <2>5, <2>7 DEF Turns
  <2> QED BY <1>1, <2>3, <2>8, LastIsOver
<1>3. ~Closing
  BY <1>1 DEF Closing
<1>4. ~Failing(bound)
  BY <1>1, NoFailure
<1>5. ASSUME Beginning(bound) PROVE bound' = bound /\ NowRunning(bound, k)
  <2>1. request[i].turn = k
    BY <1>5 DEF Beginning, AnswerIs
  <2>2. run[bound].last # k
    BY <1>1, LastIsOver
  <2> QED BY <1>1, <1>5, <2>1, <2>2 DEF Beginning, NowRunning
<1>6. CASE bound' = bound /\ job'[bound] = job[bound]
  <2>1. AnswerIs(i, k)' /\ (request[i].state = "resolved" => request'[i].state = "resolved")
    BY <1>1, <1>6, CallKept
  <2>2. ASSUME NEW c, c = News("started", k), c \in Lines, c \notin Lines' PROVE NowRunning(bound, k)
    <3>1. Hearing(c)
      BY <2>2, StartedHeard
    <3>2. c.turn = k /\ run[bound].last # k
      BY <1>1, <2>2, LastIsOver DEF News
    <3> QED BY <1>1, <3>1, <3>2 DEF Hearing, NowRunning
  <2> QED BY <1>6, <2>1, <2>2
<1>7. ASSUME NEW r \in Runs, r # bound, Failing(r) \/ Beginning(r) PROVE bound' = bound /\ job'[bound] = job[bound]
  BY <1>1, <1>7 DEF Failing, Beginning, JobEnds
<1>8. ASSUME NEW e, NEW s, UNCHANGED vars \/ Greeting \/ Expiring(e) \/ (\E ok \in BOOLEAN : Replying(e, ok))
                           \/ Stopping(s, e) \/ Interrupting(s) \/ GivingUp(s)
      PROVE  bound' = bound /\ job' = job
  BY <1>8 DEF vars, Greeting, Expiring, Replying, Stopping, Interrupting, GivingUp
<1>9. ASSUME NEW e, NEW n, Hearing(n) \/ Completing(n) \/ Answering(n) \/ TurnBegins(e, n) \/ TurnStops(e, n)
      PROVE  bound' = bound /\ job' = job
  BY <1>9 DEF Hearing, Completing, Answering, TurnBegins, TurnStops
<1> QED BY <1>1, <1>2, <1>3, <1>4, <1>5, <1>6, <1>7, <1>8, <1>9 DEF Steps

\* A turn that begins was asked for by the run that is followed.
LEMMA BegunFollowed ==
  ASSUME TypeOK, Good, ~late, NEW i, NEW k \in Turns, TurnBegins(i, k)
  PROVE  /\ bound # 0 /\ bound' = bound /\ job' = job /\ job[bound].step = "turn" /\ job[bound].id = i
         /\ AnswerIs(i, k)' /\ News("started", k) \in Lines'
<1>1. /\ i \in Inbox /\ i \in Requests /\ request[i].method = "turn/start" /\ request' = request
      /\ Answer(i, TRUE, k) \in Lines' /\ News("started", k) \in Lines'
  BY DEF TurnBegins, Writing
<1>2. request[i].state = "sent"
  BY <1>1, GoodParts DEF Followed
<1>3. PICK r \in Runs : job[r].step = "turn" /\ job[r].id = i
  BY <1>1, <1>2, GoodParts DEF JobsOwn
<1>4. bound = r
  BY <1>1, <1>3, GoodParts DEF OneFollower
<1>5. bound' = bound /\ job' = job
  BY DEF TurnBegins
<1> QED BY <1>1, <1>2, <1>3, <1>4, <1>5, Numbers DEF AnswerIs

LEMMA TurnsFollowedStep ==
  ASSUME TypeOK, Good, Steps, Moves, ~late, ~late'
  PROVE  TurnsFollowed'
<1> SUFFICES ASSUME NEW k \in Turns, Current(k)'
             PROVE  /\ bound' # 0
                    /\ \/ NowRunning(bound', k)
                       \/ /\ job'[bound'].step = "turn"
                          /\ \E i : /\ i = job'[bound'].id /\ AnswerIs(i, k)'
                                    /\ request'[i].state = "resolved" \/ News("started", k) \in Lines'
  BY DEF TurnsFollowed, Running, NowRunning, AnswerIs
<1>1. ~Dying /\ ~Disposing
  <2>1. ASSUME Ending, turn'[k] = (IF turn[k] = "busy" THEN "done" ELSE turn[k]) PROVE FALSE
    BY <2>1 DEF Ending, Current
  <2> QED BY <2>1 DEF Dying, Disposing
<1>2. ASSUME NEW i, TurnBegins(i, k)
      PROVE  /\ bound' # 0 /\ job'[bound'].step = "turn" /\ i = job'[bound'].id
             /\ AnswerIs(i, k)' /\ News("started", k) \in Lines'
  BY <1>2, BegunFollowed
<1>3. CASE Current(k)
  <2>1. bound # 0 /\ \/ Running(bound, k)
                     \/ /\ job[bound].step = "turn" /\ AnswerIs(job[bound].id, k)
                        /\ request[job[bound].id].state = "resolved" \/ News("started", k) \in Lines
    BY <1>3, GoodParts DEF Followed
  <2>2. CASE Running(bound, k)
    BY <1>1, <1>3, <2>1, <2>2, RunningKept
  <2>3. CASE ~Running(bound, k)
    <3>1. PICK i : i = job[bound].id
      OBVIOUS
    <3>2. /\ bound' = bound
          /\ \/ NowRunning(bound, k)
             \/ /\ job'[bound] = job[bound] /\ AnswerIs(i, k)'
                /\ request'[i].state = "resolved" \/ News("started", k) \in Lines'
      BY <1>1, <1>3, <2>1, <2>3, <3>1, CallingKept
    <3> QED BY <2>1, <2>3, <3>1, <3>2
  <2> QED BY <2>2, <2>3
<1> QED BY <1>2, <1>3, CurrentWas

LEMMA FollowedStep ==
  ASSUME TypeOK, Good, TypeOK', OneFollower', Steps, Moves
  PROVE  Followed'
<1> SUFFICES ASSUME ~late' PROVE Awaited' /\ TurnsFollowed' /\ CallFits'
  BY FollowedParts
<1>1. ~late /\ Progress
  BY Progresses
<1> QED BY <1>1, AwaitedStep, TurnsFollowedStep, CallFitsStep

-----------------------------------------------------------------------------
(* The theorems *)

LEMMA CrossedStays ==
  ASSUME [Next]_vars
  PROVE  \/ crossed' = crossed
         \/ \E r, q \in Runs, i \in Requests : Followup(r, q, i)
<1>1. CASE UNCHANGED vars
  BY <1>1 DEF vars
<1>2. CASE Line
  BY <1>2 DEF Line, ReadStarted, ReadCompleted, history
<1>3. CASE Continuation
  BY <1>3 DEF Continuation, ThreadAnswered, TurnAnswered, JobFails, InterruptAnswered, history
<1>4. CASE Child
  BY <1>4 DEF Child, ChildHandles, TurnEnds, history
<1>5. CASE Timeout
  BY <1>5 DEF Timeout, RequestTimesOut, StopTimesOut, HandshakeEnds, history
<1>6. CASE Event /\ ~Timeout
  <2>1. \A i : Start(i) => crossed' = crossed
    BY DEF Start, history
  <2>2. \A r, i : Stop(r, i) => crossed' = crossed
    BY DEF Stop, history
  <2>3. \A r : Close(r) => crossed' = crossed
    BY DEF Close, history
  <2>4. ChildExits \/ Dispose => crossed' = crossed
    BY DEF ChildExits, Dispose, history
  <2> QED BY <1>6, <2>1, <2>2, <2>3, <2>4 DEF Event
<1> QED BY <1>1, <1>2, <1>3, <1>4, <1>5, <1>6 DEF Next

LEMMA TypeInit == Init => TypeOK
<1> SUFFICES ASSUME Init PROVE TypeOK
  OBVIOUS
<1>1. ConnectionTypes
  <2>1. <<>> \in Seq(MessageType)
    OBVIOUS
  <2> QED BY <2>1, Values DEF Init, ConnectionInit, ConnectionTypes
<1>2. run \in [Runs -> RunType] /\ turn \in [Turns -> {"none", "busy", "done"}]
  <2>1. NoRun \in RunType /\ [NoRun EXCEPT !.row = 1] \in RunType
    BY Numbers DEF NoRun, RunType
  <2> QED BY <2>1 DEF Init
<1>3. /\ bound = 0 /\ loaded = 0 /\ late = FALSE /\ crossed = FALSE
      /\ job = [r \in Runs |-> NoJob] /\ stop = [r \in Runs |-> NoStop]
  BY DEF Init
<1>4. ProviderTypes /\ IdsKnown
  BY <1>2, <1>3, Values DEF ProviderTypes, IdsKnown
<1> QED BY <1>1, <1>4 DEF TypeOK

LEMMA InvInit == Init => IInv
<1> SUFFICES ASSUME Init PROVE IInv
  OBVIOUS
<1>1. TypeOK
  BY TypeInit
<1>2. /\ child = 0 /\ starting = 0 /\ closing = FALSE /\ bound = 0 /\ loaded = 0
      /\ proc = [c \in Children |-> "none"] /\ request = [i \in Requests |-> NoRequest]
      /\ inbox = [c \in Children |-> {}] /\ out = [c \in Children |-> <<>>]
      /\ job = [r \in Runs |-> NoJob] /\ stop = [r \in Runs |-> NoStop]
      /\ ended = [k \in Turns |-> 0]
      /\ \A r \in Runs : run[r] = NoRun \/ run[r] = [NoRun EXCEPT !.row = 1]
      /\ \A k \in Turns : turn[k] = "none" \/ (turn[k] = "done" /\ k = 1)
  BY DEF Init, ConnectionInit
<1>3. Lines = {} /\ Inbox = {}
  BY <1>2 DEF Lines, Inbox
<1>4. \A i \in Requests : request[i].state = "free" /\ request[i].method = "none"
  BY <1>2 DEF NoRequest
<1>5. \A r \in Runs : job[r].step = "none" /\ stop[r].step = "none"
  BY <1>2 DEF NoJob, NoStop
<1>6. \A r \in Runs : ~run[r].tracked /\ run[r].phase = "idle" /\ run[r].last = 0
  <2>1. ~NoRun.tracked /\ NoRun.phase = "idle" /\ NoRun.last = 0
    BY DEF NoRun
  <2>2. LET x == [NoRun EXCEPT !.row = 1] IN ~x.tracked /\ x.phase = "idle" /\ x.last = 0
    BY DEF NoRun
  <2> QED BY <1>2, <2>1, <2>2
<1>7. OneChild /\ Asked /\ InOrder
  <2>1. OneChild
    BY <1>2, <1>3, Numbers DEF OneChild
  <2>2. Asked
    BY <1>3, <1>4 DEF Asked
  <2>3. InOrder
    BY <1>2 DEF InOrder
  <2> QED BY <2>1, <2>2, <2>3
<1>8. AnswersKnown /\ InterruptsName
  BY <1>3, <1>4 DEF AnswersKnown, InterruptsName
<1>9. NewsKnown /\ LoadedFirst
  BY <1>2, <1>3, <1>4 DEF NewsKnown, LoadedFirst
<1>10. TurnsInOrder
  BY <1>2 DEF TurnsInOrder, Turns
<1>11. JobsOwn /\ FirstRequest
  BY <1>2, <1>4, <1>5 DEF JobsOwn, FirstRequest
<1>12. OneFollower /\ Phases
  BY <1>2, <1>3, <1>5, <1>6 DEF OneFollower, Phases
<1>13. AnswersFit /\ EndsReported /\ StopsFit
  BY <1>2, <1>3, <1>5 DEF AnswersFit, EndsReported, StopsFit
<1>14. Followed
  <2>1. \A k \in Turns : ~Current(k)
    BY <1>2, <1>3 DEF Current
  <2> QED BY <1>2, <1>3, <2>1 DEF Followed
<1> QED BY <1>1, <1>7, <1>8, <1>9, <1>10, <1>11, <1>12, <1>13, <1>14 DEF IInv, Good, Connected

LEMMA GoodStep ==
  ASSUME TypeOK, Good, [Next]_vars, ~crossed'
  PROVE  Good'
<1>1. TypeOK'
  BY TypeStep
<1>2. Steps /\ Piped'
  BY NextSteps
<1>3. Moves
  BY <1>2, StepMoves
<1>4. LinesTyped'
  <2>1. ConnectionTypes' /\ OneChild'
    BY <1>1, <1>2 DEF TypeOK, Piped
  <2>2. (Lines \subseteq MessageType)'
    BY <2>1, PTL, Pipes
  <2> QED BY <2>2 DEF LinesTyped, MessageType
<1>5. Connected'
  BY <1>2, <1>3, InterruptsNameStep, AnswersKnownStep DEF Connected, Piped
<1>6. NewsKnown' /\ TurnsInOrder' /\ LoadedFirst'
  BY <1>2, <1>3, NewsKnownStep, TurnsInOrderStep, LoadedFirstStep
<1>7. JobsOwn' /\ FirstRequest'
  BY <1>2, <1>3, JobsOwnStep, FirstRequestStep
<1>8. OneFollower'
  BY <1>2, <1>3, <1>7, OneFollowerStep
<1>9. Phases' /\ AnswersFit'
  BY <1>2, <1>3, <1>4, PhasesStep, AnswersFitStep
<1>10. EndsReported' /\ StopsFit'
  BY <1>2, <1>3, EndsReportedStep, StopsFitStep
<1>11. Followed'
  BY <1>1, <1>2, <1>3, <1>8, FollowedStep
<1> QED BY <1>5, <1>6, <1>7, <1>8, <1>9, <1>10, <1>11 DEF Good

LEMMA InvStep == IInv /\ [Next]_vars => IInv'
<1> SUFFICES ASSUME IInv, [Next]_vars PROVE IInv'
  OBVIOUS
<1>1. TypeOK /\ TypeOK'
  BY TypeStep DEF IInv
<1>2. ASSUME ~crossed' PROVE Good'
  <2>1. ~crossed
    <3>1. \A r, q \in Runs, i \in Requests : Followup(r, q, i) => (crossed => crossed')
      BY DEF Followup
    <3> QED BY <1>2, <3>1, CrossedStays
  <2> QED BY <1>1, <1>2, <2>1, GoodStep DEF IInv
<1> QED BY <1>1, <1>2 DEF IInv

\* The types of what the provider and the connection keep, and what the turns of the thread
\* are known to be as long as no message was accepted before the turn of an earlier one was
\* begun, hold in every state.
THEOREM TurnsInvariant == Spec => []IInv
<1>1. Init => IInv
  BY InvInit
<1>2. IInv /\ [Next]_vars => IInv'
  BY InvStep
<1> QED BY <1>1, <1>2, PTL DEF Spec

\* A run that is shown as running has a turn, or the news of its end is on the way: no answer
\* or news that comes late, of a stop, a timeout or an earlier turn, revives a turn that has ended
\* (handleNotification, startTurnFor).
THEOREM RunningIsRealHolds == Spec => []RunningIsReal
<1>1. IInv => RunningIsReal
  <2>1. Good => \A r \in Runs : run[r].tracked /\ run[r].phase = "running" => Current(run[r].turn)
    BY GoodParts DEF Phases
  <2> QED BY <2>1 DEF IInv, RunningIsReal, Current
<1> QED BY <1>1, TurnsInvariant, PTL

\* The end of a turn is reported once, whether it is read as news or seen as the end of the
\* child (finishTurn, handleTerminated).
THEOREM EndReportedOnceHolds == Spec => []EndReportedOnce
<1>1. IInv => EndReportedOnce
  <2>1. Good => \A k \in Turns : ended[k] \in {0, 1}
    BY GoodParts DEF EndsReported
  <2> QED BY <2>1 DEF IInv, EndReportedOnce
<1> QED BY <1>1, TurnsInvariant, PTL

\* A turn of the process works for a run that follows it or is about to be told of it, as long
\* as no request timed out.
THEOREM TurnIsFollowedHolds == Spec => []TurnIsFollowed
<1>1. IInv => TurnIsFollowed
  <2> SUFFICES ASSUME IInv, ~late, ~crossed, NEW k \in Turns, turn[k] = "busy"
               PROVE  \/ \E r \in Runs : run[r].tracked /\ run[r].phase = "running" /\ run[r].turn = k
                      \/ News("started", k) \in Lines
                      \/ \E i \in Requests : request[i].state = "resolved" /\ request[i].turn = k
    BY DEF TurnIsFollowed
  <2>1. TypeOK /\ Good
    BY DEF IInv
  <2>2. /\ bound # 0
        /\ \/ Running(bound, k)
           \/ /\ job[bound].step = "turn" /\ AnswerIs(job[bound].id, k)
              /\ request[job[bound].id].state = "resolved" \/ News("started", k) \in Lines
    BY <2>1, GoodParts DEF Followed, Current
  <2>3. bound \in Runs
    BY <2>1, <2>2, TypeParts
  <2>4. job[bound].step = "turn" => job[bound].id \in Requests
    BY <2>1, <2>3, CallParts
  <2> QED BY <2>2, <2>3, <2>4 DEF Running, AnswerIs
<1> QED BY <1>1, TurnsInvariant, PTL

\* Who is told that a running turn was stopped can rely on it: stop() says so when the end of
\* the turn was read, when the child that had it ended, or when the turn was over before.
THEOREM StoppedHasEndedHolds == Spec => StoppedHasEnded
<1>1. IInv /\ [Next]_vars =>
        [\A r \in Runs :
           ~crossed /\ ~stop[r].stopped /\ stop'[r].stopped
           => turn[stop[r].turn] # "busy" \/ turn'[stop[r].turn] # "busy"]_vars
  <2> SUFFICES ASSUME IInv, [Next]_vars, NEW q \in Runs, ~crossed, ~stop[q].stopped, stop'[q].stopped
               PROVE  turn[stop[q].turn] # "busy" \/ turn'[stop[q].turn] # "busy"
    OBVIOUS
  <2>1. TypeOK /\ Good
    BY DEF IInv
  <2>2. CASE ~crossed'
    <3>1. Steps
      BY <2>1, <2>2, NextSteps
    <3> QED BY <2>1, <3>1, StoppedStep
  <2>3. CASE crossed' # crossed
    <3>1. PICK r \in Runs, p \in Runs, i \in Requests : Followup(r, p, i)
      BY <2>3, CrossedStays
    <3>2. ThreadIdle(r) /\ stop' = BoundStops(r)
      BY <3>1 DEF Followup
    <3>3. bound \notin {0, r} /\ run[bound].phase = "idle" /\ stop' = Told(stop, bound, TRUE)
      BY <3>2 DEF ThreadIdle, BoundStops
    <3>4. stop[q].step \in {"interrupt", "wait"}
      <4>1. Telling(bound, TRUE)
        BY <2>1, <3>3, ToldTells, TypeParts
      <4>2. stop'[q].stopped # stop[q].stopped
        OBVIOUS
      <4> QED BY <4>1, <4>2, TellingWaits
    <3>5. turn[stop[q].turn] = "busy" => Running(bound, stop[q].turn)
      BY <2>1, <3>4, GoodParts DEF StopsFit
    <3> QED BY <3>3, <3>5 DEF Running
  <2>4. crossed' \in BOOLEAN
    BY <2>1, TypeStep DEF TypeOK, ProviderTypes
  <2> QED BY <2>2, <2>3, <2>4
<1>2. IInv /\ [Next]_vars => IInv'
  BY InvStep
<1>3. Init => IInv
  BY InvInit
<1> QED BY <1>1, <1>2, <1>3, PTL DEF Spec, StoppedHasEnded

=============================================================================
