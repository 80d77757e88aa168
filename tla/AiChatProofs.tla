----------------------------- MODULE AiChatProofs -----------------------------
(***************************************************************************)
(* Theorems about a conversation of the AI chat, for any number of         *)
(* requests, runs and processes of the app-server.                         *)
(***************************************************************************)
EXTENDS AiChat, SequenceTheorems, TLAPS

USE AiChatAssumption DEF Calls, Runs, Turns

EndStatus == {"completed", "failed", "interrupted"}
RowStatus == {"none", "running", "deleted"} \cup EndStatus
TurnType  == [state : {"none", "busy", "done"}, run : Runs \cup {0}]

-----------------------------------------------------------------------------
(* Values *)

LEMMA Numbers == MaxCalls \in Nat /\ MaxRuns \in Nat /\ MaxEpochs \in Nat /\ MaxEpochs >= 1
BY AiChatAssumption

\* What the board keeps of a run that does not exist
LEMMA NoEntryValue ==
  /\ NoEntry \in EntryType /\ NoEntry.kind = "none" /\ ~NoEntry.attach
<1>1. 0 \in 0 .. MaxEpochs
  BY Numbers
<1> QED BY <1>1 DEF NoEntry, EntryType

\* The entry of a run that was started
LEMMA EntryValue ==
  ASSUME NEW q \in Calls, NEW kind \in {"cli", "app-server"}, NEW child \in 0 .. MaxEpochs,
         call \in [Calls -> CallType]
  PROVE  /\ Entry(q, kind, child) \in EntryType
         /\ Entry(q, kind, child).kind = kind
         /\ Entry(q, kind, child).call = q
         /\ Entry(q, kind, child).attach = call[q].attach
<1>1. call[q].attach \in BOOLEAN
  BY DEF CallType
<1> QED BY <1>1 DEF Entry, NoEntry, EntryType

\* A call that is free, and one that is over
LEMMA CallValues ==
  /\ NoCall \in CallType /\ NoCall.step = "free" /\ ~NoCall.attach
  /\ [NoCall EXCEPT !.step = "done"] \in CallType
  /\ [NoCall EXCEPT !.step = "done"].step = "done"
  /\ ~[NoCall EXCEPT !.step = "done"].attach
<1>1. 0 \in 0 .. MaxEpochs
  BY Numbers
<1> QED BY <1>1 DEF NoCall, CallType, Kinds

\* Calls after one of them was answered
LEMMA OverValue ==
  ASSUME call \in [Calls -> CallType], NEW q \in Calls
  PROVE  /\ Over(q) \in [Calls -> CallType]
         /\ Over(q)[q].step = "done" /\ ~Over(q)[q].attach
         /\ \A p \in Calls : p # q => Over(q)[p] = call[p]
BY CallValues DEF Over

\* Messages written and read
LEMMA MessageValues ==
  ASSUME NEW k \in Turns \cup {0}, NEW r \in Runs \cup {0},
         NEW kind \in {"started", "completed", "failed", "interrupted"}
  PROVE  Answer(r, k) \in MessageType /\ News(kind, k) \in MessageType
BY DEF Answer, News, MessageType

LEMMA HeadValues ==
  ASSUME out \in Seq(MessageType), out # <<>>
  PROVE  /\ Head(out).run \in Runs \cup {0} /\ Head(out).turn \in Turns \cup {0}
         /\ Tail(out) \in Seq(MessageType)
<1>1. Head(out) \in MessageType /\ Tail(out) \in Seq(MessageType)
  BY HeadTailProperties
<1> QED BY <1>1 DEF MessageType

-----------------------------------------------------------------------------
(* What a step does to rows and entries *)

\* A run is started by the call q.
Begins(q, r) ==
  /\ MayInsert /\ NewRow(r)
  /\ row' = [row EXCEPT ![r] = "running"]
  /\ active'[r] \in EntryType
  /\ active'[r].kind # "none" /\ active'[r].call = q /\ active'[r].attach = call[q].attach
  /\ active' = [active EXCEPT ![r] = active'[r]]

\* A run that is going on ends.
EndsAs(r, status) ==
  /\ IsActive(r)
  /\ row' = [row EXCEPT ![r] = status]
  /\ active' = [active EXCEPT ![r] = NoEntry]

\* Entries learn of turns and interrupts only.
Goes ==
  /\ row' = row
  /\ active' \in [Runs -> EntryType]
  /\ \A r \in Runs : /\ active'[r].kind = active[r].kind /\ active'[r].call = active[r].call
                     /\ active'[r].attach = active[r].attach
                     /\ active'[r] # active[r] => IsActive(r)

\* The row and the entries after Finish
LEMMA FinishEffect ==
  ASSUME TypeOK, NEW r, NEW status \in EndStatus, r \in Runs, Finish(r, status)
  PROVE  \/ EndsAs(r, status) /\ files' = files \ {active[r].call}
         \/ Goes /\ UNCHANGED <<active, files>>
BY DEF TypeOK, Finish, Finishes, EndsAs, Goes, EndStatus

\* The call of a turn that waits for turn/start belongs to a run.
Waiting == \A q \in Calls : call[q].step = "turn" => call[q].run \in Runs

-----------------------------------------------------------------------------
(* Types *)

\* A step keeps the types if it keeps those of the parts it changes.
LEMMA TypeFrom ==
  ASSUME TypeOK,
         deleted' \in BOOLEAN, remote' = remote,
         row' \in [Runs -> RowStatus], active' \in [Runs -> EntryType],
         call' \in [Calls -> CallType], files' \subseteq Calls,
         stop' \in [Runs -> {"none", "asked", "grace", "killed"}],
         epoch' \in 1 .. MaxEpochs, asked' \subseteq Runs, interrupts' \subseteq Turns,
         turn' \in [Turns -> TurnType], out' \in Seq(MessageType), left' \in BOOLEAN
  PROVE  TypeOK'
BY DEF TypeOK, RowStatus, EndStatus, TurnType

LEMMA TypeParts ==
  ASSUME TypeOK
  PROVE  /\ deleted \in BOOLEAN /\ remote \in BOOLEAN
         /\ row \in [Runs -> RowStatus] /\ active \in [Runs -> EntryType]
         /\ call \in [Calls -> CallType] /\ files \subseteq Calls
         /\ stop \in [Runs -> {"none", "asked", "grace", "killed"}]
         /\ epoch \in 1 .. MaxEpochs /\ asked \subseteq Runs /\ interrupts \subseteq Turns
         /\ turn \in [Turns -> TurnType] /\ out \in Seq(MessageType) /\ left \in BOOLEAN
BY DEF TypeOK, RowStatus, EndStatus, TurnType

\* Ending a run keeps the types.
LEMMA FinishTypes ==
  ASSUME TypeOK, NEW r \in Runs, NEW status \in EndStatus, Finish(r, status)
  PROVE  row' \in [Runs -> RowStatus] /\ active' \in [Runs -> EntryType] /\ files' \subseteq Calls
<1>1. row \in [Runs -> RowStatus] /\ active \in [Runs -> EntryType] /\ files \subseteq Calls
  BY TypeParts
<1>2. NoEntry \in EntryType /\ status \in RowStatus
  BY NoEntryValue DEF RowStatus
<1> QED BY <1>1, <1>2 DEF Finish

\* The start of a turn keeps the types.
LEMMA LaunchTypes ==
  ASSUME TypeOK, NEW q \in Calls, Launch(q)
  PROVE  /\ row' \in [Runs -> RowStatus] /\ active' \in [Runs -> EntryType]
         /\ call' \in [Calls -> CallType] /\ files' \subseteq Calls
<1>1. /\ row \in [Runs -> RowStatus] /\ active \in [Runs -> EntryType]
      /\ call \in [Calls -> CallType] /\ files \subseteq Calls /\ epoch \in 0 .. MaxEpochs
  BY TypeParts, Numbers
<1>2. 0 \in 0 .. MaxEpochs
  BY Numbers
<1>3. Entry(q, "cli", 0) \in EntryType
  BY <1>1, <1>2, EntryValue
<1>4. Over(q) \in [Calls -> CallType] /\ "running" \in RowStatus
  BY <1>1, OverValue DEF RowStatus
<1>5. [call EXCEPT ![q].step = "thread", ![q].child = epoch] \in [Calls -> CallType]
  BY <1>1 DEF CallType
<1> QED BY <1>1, <1>3, <1>4, <1>5 DEF Launch, DropFiles

LEMMA TypeStep == TypeOK /\ Waiting /\ [Next]_vars => TypeOK'
<1> SUFFICES ASSUME TypeOK, Waiting, [Next]_vars PROVE TypeOK'
  OBVIOUS
<1> USE DEF server, board
<1>1. /\ deleted \in BOOLEAN /\ remote \in BOOLEAN
      /\ row \in [Runs -> RowStatus] /\ active \in [Runs -> EntryType]
      /\ call \in [Calls -> CallType] /\ files \subseteq Calls
      /\ stop \in [Runs -> {"none", "asked", "grace", "killed"}]
      /\ epoch \in 1 .. MaxEpochs /\ asked \subseteq Runs /\ interrupts \subseteq Turns
      /\ turn \in [Turns -> TurnType] /\ out \in Seq(MessageType) /\ left \in BOOLEAN
  BY TypeParts
<1>2. ASSUME NEW q \in Calls, NEW kind \in Kinds, NEW attach \in BOOLEAN,
             StartTurn(q, kind, attach)
      PROVE  TypeOK'
  <2>1. [NoCall EXCEPT !.step = "context", !.kind = kind, !.attach = attach] \in CallType
    BY CallValues DEF CallType
  <2> QED BY <1>1, <1>2, <2>1, TypeFrom DEF StartTurn
<1>3. ASSUME NEW q \in Calls, ContextLaunches(q) \/ Prepared(q) PROVE TypeOK'
  BY <1>1, <1>3, LaunchTypes, TypeFrom DEF ContextLaunches, Prepared
<1>4. ASSUME NEW q \in Calls, ContextPrepares(q) PROVE TypeOK'
  <2>1. [call EXCEPT ![q].step = "files"] \in [Calls -> CallType]
    BY <1>1 DEF CallType
  <2> QED BY <1>1, <1>4, <2>1, TypeFrom DEF ContextPrepares
<1>5. ASSUME NEW q \in Calls, CallFails(q) PROVE TypeOK'
  BY <1>1, <1>5, OverValue, TypeFrom DEF CallFails, DropFiles
<1>6. ASSUME NEW q \in Calls, ThreadAnswered(q) PROVE TypeOK'
  <2>1. PICK r \in Runs :
          /\ row' = [row EXCEPT ![r] = "running"]
          /\ active' = [active EXCEPT ![r] = Entry(q, "app-server", epoch)]
          /\ call' = [call EXCEPT ![q] = [NoCall EXCEPT !.step = "turn", !.run = r]]
          /\ asked' = asked \cup {r}
    BY <1>6 DEF ThreadAnswered
  <2>2. epoch \in 0 .. MaxEpochs /\ "running" \in RowStatus
    BY <1>1 DEF RowStatus
  <2>3. Entry(q, "app-server", epoch) \in EntryType
    BY <1>1, <2>2, EntryValue
  <2>4. [NoCall EXCEPT !.step = "turn", !.run = r] \in CallType
    BY CallValues DEF CallType
  <2> QED BY <1>1, <1>6, <2>1, <2>2, <2>3, <2>4, TypeFrom DEF ThreadAnswered
<1>7. ASSUME NEW q \in Calls, TurnFails(q) PROVE TypeOK'
  <2>1. call[q].run \in Runs /\ "failed" \in EndStatus
    BY <1>7 DEF TurnFails, At, Waiting, EndStatus
  <2>2. row' \in [Runs -> RowStatus] /\ active' \in [Runs -> EntryType] /\ files' \subseteq Calls
    BY <1>7, <2>1, FinishTypes DEF TurnFails
  <2>3. Over(q) \in [Calls -> CallType] /\ left' \in BOOLEAN
    BY <1>1, <1>7, OverValue DEF TurnFails
  <2> QED BY <1>1, <1>7, <2>2, <2>3, TypeFrom DEF TurnFails
<1>8. ASSUME NEW r \in Runs, Interrupt(r) PROVE TypeOK'
  <2>1. [active EXCEPT ![r].interrupted = TRUE] \in [Runs -> EntryType]
    BY <1>1 DEF EntryType
  <2>2. active[r].turn \in Turns \cup {0}
    BY <1>1 DEF EntryType
  <2>3. interrupts' \subseteq Turns
    BY <1>1, <1>8, <2>2 DEF Interrupt
  <2>4. stop' \in [Runs -> {"none", "asked", "grace", "killed"}]
    BY <1>1, <1>8 DEF Interrupt
  <2> QED BY <1>1, <1>8, <2>1, <2>3, <2>4, TypeFrom DEF Interrupt
<1>9. ASSUME NEW r \in Runs, InterruptAnswered(r) PROVE TypeOK'
  BY <1>1, <1>9, TypeFrom DEF InterruptAnswered
<1>10. ASSUME NEW r \in Runs, GraceEnds(r) PROVE TypeOK'
  <2>1. row' \in [Runs -> RowStatus] /\ active' \in [Runs -> EntryType] /\ files' \subseteq Calls
    <3>1. CASE active[r].kind = "cli"
      BY <1>1, <1>10, <3>1 DEF GraceEnds
    <3>2. CASE active[r].kind # "cli"
      <4>1. Finish(r, "interrupted") /\ "interrupted" \in EndStatus
        BY <1>10, <3>2 DEF GraceEnds, EndsInterrupted, EndStatus
      <4> QED BY <4>1, FinishTypes
    <3> QED BY <3>1, <3>2
  <2>2. left' \in BOOLEAN /\ stop' \in [Runs -> {"none", "asked", "grace", "killed"}]
    BY <1>1, <1>10 DEF GraceEnds
  <2> QED BY <1>1, <1>10, <2>1, <2>2, TypeFrom DEF GraceEnds
<1>11. CASE DeleteThread
  <2>1. row' \in [Runs -> RowStatus]
    BY <1>11 DEF DeleteThread, RowStatus
  <2> QED BY <1>1, <1>11, <2>1, TypeFrom DEF DeleteThread
<1>12. ASSUME NEW r \in Runs, CliEnds(r) PROVE TypeOK'
  <2>1. PICK status \in EndStatus : Finish(r, status)
    BY <1>12 DEF CliEnds, EndStatus
  <2>2. row' \in [Runs -> RowStatus] /\ active' \in [Runs -> EntryType] /\ files' \subseteq Calls
    BY <2>1, FinishTypes
  <2> QED BY <1>1, <1>12, <2>2, TypeFrom DEF CliEnds
<1>13. ASSUME NEW r \in Runs, HandlesStart(r) PROVE TypeOK'
  <2>1. ASSUME NEW k \in Turns, NEW state \in {"busy", "done"}
        PROVE  [turn EXCEPT ![k] = [state |-> state, run |-> r]] \in [Turns -> TurnType]
    BY <1>1 DEF TurnType
  <2>2. ASSUME NEW k \in Turns
        PROVE  /\ out \o <<News("started", k), Answer(r, k)>> \in Seq(MessageType)
               /\ out \o <<Answer(r, k), News("started", k)>> \in Seq(MessageType)
               /\ out \o <<News("started", k), News("completed", k), Answer(r, k)>>
                    \in Seq(MessageType)
    <3>1. /\ News("started", k) \in MessageType /\ News("completed", k) \in MessageType
          /\ Answer(r, k) \in MessageType
      BY MessageValues
    <3>2. /\ <<News("started", k), Answer(r, k)>> \in Seq(MessageType)
          /\ <<Answer(r, k), News("started", k)>> \in Seq(MessageType)
          /\ <<News("started", k), News("completed", k), Answer(r, k)>> \in Seq(MessageType)
      BY <3>1
    <3> QED BY <1>1, <3>2, ConcatProperties
  <2>3. Append(out, Answer(r, 0)) \in Seq(MessageType)
    BY <1>1, MessageValues, AppendProperties
  <2>4. turn' \in [Turns -> TurnType] /\ out' \in Seq(MessageType)
    <3>1. CASE UNCHANGED turn
      BY <1>1, <1>13, <2>2, <2>3, <3>1 DEF HandlesStart
    <3>2. ASSUME NEW k \in Turns, NEW state \in {"busy", "done"},
                 turn' = [turn EXCEPT ![k] = [state |-> state, run |-> r]],
                 \/ out' = out \o <<News("started", k), Answer(r, k)>>
                 \/ out' = out \o <<Answer(r, k), News("started", k)>>
                 \/ out' = out \o <<News("started", k), News("completed", k), Answer(r, k)>>
          PROVE  turn' \in [Turns -> TurnType] /\ out' \in Seq(MessageType)
      BY <2>1, <2>2, <3>2
    <3>3. \/ UNCHANGED turn
          \/ \E k \in Turns, state \in {"busy", "done"} :
               /\ turn' = [turn EXCEPT ![k] = [state |-> state, run |-> r]]
               /\ \/ out' = out \o <<News("started", k), Answer(r, k)>>
                  \/ out' = out \o <<Answer(r, k), News("started", k)>>
                  \/ out' = out \o <<News("started", k), News("completed", k), Answer(r, k)>>
      BY <1>13 DEF HandlesStart
    <3> QED BY <3>1, <3>2, <3>3
  <2> QED BY <1>1, <1>13, <2>4, TypeFrom DEF HandlesStart
<1>14. ASSUME NEW k \in Turns, HandlesInterrupt(k) \/ TurnEnds(k) PROVE TypeOK'
  <2>1. [turn EXCEPT ![k].state = "done"] \in [Turns -> TurnType]
    BY <1>1 DEF TurnType
  <2>2. ASSUME NEW kind \in {"completed", "failed", "interrupted"}
        PROVE  Append(out, News(kind, k)) \in Seq(MessageType)
    BY <1>1, MessageValues, AppendProperties
  <2> QED BY <1>1, <1>14, <2>1, <2>2, TypeFrom DEF HandlesInterrupt, TurnEnds
<1>15. CASE ServerExits
  <2>1. TurnsDone \in [Turns -> TurnType]
    BY <1>1 DEF TurnsDone, TurnType
  <2>2. \A r \in Runs : Ended(r) \in RowStatus
    BY DEF Ended, RowStatus, EndStatus
  <2>3. epoch' \in 1 .. MaxEpochs /\ <<>> \in Seq(MessageType)
    BY <1>1, <1>15, Numbers DEF ServerExits
  <2>4. row' \in [Runs -> RowStatus] /\ active' \in [Runs -> EntryType]
    BY <1>1, <1>15, <2>2, NoEntryValue DEF ServerExits
  <2> QED BY <1>1, <1>15, <2>1, <2>3, <2>4, TypeFrom DEF ServerExits
<1>16. CASE BridgeBreaks
  BY <1>1, <1>16, TypeFrom DEF BridgeBreaks
<1>17. CASE ReadAnswer
  <2> DEFINE r == Head(out).run
             k == Head(out).turn
  <2>1. r \in Runs \cup {0} /\ k \in Turns \cup {0} /\ out' \in Seq(MessageType)
    BY <1>1, <1>17, HeadValues DEF ReadAnswer, Reads
  <2> HIDE DEF r, k
  <2>2. \/ UNCHANGED <<row, active, files, call>>
        \/ \E q \in Calls :
             /\ At(q, "turn") /\ call[q].run = r
             /\ call' = Over(q)
             /\ \/ /\ active' = IF IsActive(r) THEN [active EXCEPT ![r].turn = k] ELSE active
                   /\ UNCHANGED <<row, files>>
                \/ Finish(r, "failed")
    BY <1>17 DEF ReadAnswer, r, k
  <2>3. ASSUME NEW q \in Calls, At(q, "turn"), call[q].run = r, call' = Over(q),
               \/ /\ active' = IF IsActive(r) THEN [active EXCEPT ![r].turn = k] ELSE active
                  /\ UNCHANGED <<row, files>>
               \/ Finish(r, "failed")
        PROVE  /\ row' \in [Runs -> RowStatus] /\ active' \in [Runs -> EntryType]
               /\ call' \in [Calls -> CallType] /\ files' \subseteq Calls
    <3>1. r \in Runs /\ "failed" \in EndStatus
      BY <2>3 DEF At, Waiting, EndStatus
    <3>2. call' \in [Calls -> CallType]
      BY <1>1, <2>3, OverValue
    <3>3. [active EXCEPT ![r].turn = k] \in [Runs -> EntryType]
      BY <1>1, <2>1, <3>1 DEF EntryType
    <3> QED BY <1>1, <2>3, <3>1, <3>2, <3>3, FinishTypes
  <2>4. /\ row' \in [Runs -> RowStatus] /\ active' \in [Runs -> EntryType]
        /\ call' \in [Calls -> CallType] /\ files' \subseteq Calls
    BY <1>1, <2>2, <2>3
  <2> QED BY <1>1, <1>17, <2>1, <2>4, TypeFrom DEF ReadAnswer
<1>18. CASE ReadStarted
  <2>1. Head(out).turn \in Turns \cup {0} /\ out' \in Seq(MessageType)
    BY <1>1, <1>18, HeadValues DEF ReadStarted, Reads
  <2>2. ASSUME NEW r \in Runs PROVE [active[r] EXCEPT !.turn = Head(out).turn] \in EntryType
    <3>1. active[r] \in EntryType
      BY <1>1
    <3> HIDE DEF Turns
    <3> QED BY <2>1, <3>1 DEF EntryType
  <2>3. active' \in [Runs -> EntryType]
    BY <1>1, <1>18, <2>2 DEF ReadStarted
  <2> QED BY <1>1, <1>18, <2>1, <2>3, TypeFrom DEF ReadStarted
<1>19. ASSUME NEW kind \in {"completed", "failed", "interrupted"}, ReadEnd(kind) PROVE TypeOK'
  <2>1. out' \in Seq(MessageType)
    BY <1>1, <1>19, HeadValues DEF ReadEnd, Reads
  <2>2. UNCHANGED <<row, active, files>> \/ \E r \in Runs, s \in EndStatus : Finish(r, s)
    BY <1>19 DEF ReadEnd, EndStatus
  <2>3. row' \in [Runs -> RowStatus] /\ active' \in [Runs -> EntryType] /\ files' \subseteq Calls
    BY <1>1, <2>2, FinishTypes
  <2> QED BY <1>1, <1>19, <2>1, <2>3, TypeFrom DEF ReadEnd
<1>20. CASE Restart
  <2>1. TurnsDone \in [Turns -> TurnType]
    BY <1>1 DEF TurnsDone, TurnType
  <2>2. epoch' \in 1 .. MaxEpochs /\ <<>> \in Seq(MessageType) /\ left' \in BOOLEAN
    <3>1. epoch' = epoch + 1 /\ epoch < MaxEpochs
      BY <1>20 DEF Restart
    <3>2. left' \in BOOLEAN
      BY <1>1, <1>20 DEF Restart
    <3> QED BY <1>1, <3>1, <3>2, Numbers
  <2>3. row' \in [Runs -> RowStatus] /\ active' \in [Runs -> EntryType]
    BY <1>1, <1>20, NoEntryValue DEF Restart, AbandonedRows, RowStatus, EndStatus
  <2>4. call' \in [Calls -> CallType]
    BY <1>20, CallValues DEF Restart
  <2>5. stop' \in [Runs -> {"none", "asked", "grace", "killed"}]
    BY <1>20 DEF Restart
  <2>6. asked' \subseteq Runs /\ interrupts' \subseteq Turns /\ turn' \in [Turns -> TurnType]
    BY <1>1, <1>20, <2>1 DEF Restart
  <2> QED BY <1>1, <1>20, <2>2, <2>3, <2>4, <2>5, <2>6, TypeFrom DEF Restart
<1>21. CASE UNCHANGED vars
  BY <1>1, <1>21, TypeFrom DEF vars
<1> QED BY <1>2, <1>3, <1>4, <1>5, <1>6, <1>7, <1>8, <1>9, <1>10, <1>11, <1>12, <1>13, <1>14, <1>15,
           <1>16, <1>17, <1>18, <1>19, <1>20, <1>21
           DEF Next, Request, Continuation, Stopping, Reading, Server

-----------------------------------------------------------------------------
(* Rows and entries *)

\* An entry says how its turn runs.
Entries == \A r \in Runs : IsActive(r) => active[r].kind # "none"

\* Every step has one of these effects.
LEMMA Effects ==
  TypeOK /\ Waiting /\ Entries /\ [Next]_vars =>
    \/ Goes
    \/ \E q \in Calls, r \in Runs : Begins(q, r)
    \/ \E r \in Runs, status \in EndStatus : EndsAs(r, status)
    \/ DeleteThread \/ ServerExits \/ Restart
<1> DEFINE Goal == \/ Goes
                   \/ \E q \in Calls, r \in Runs : Begins(q, r)
                   \/ \E r \in Runs, status \in EndStatus : EndsAs(r, status)
                   \/ DeleteThread \/ ServerExits \/ Restart
<1> SUFFICES ASSUME TypeOK, Waiting, Entries, [Next]_vars PROVE Goal
  OBVIOUS
<1> USE DEF server, board
<1>1. /\ row \in [Runs -> RowStatus] /\ active \in [Runs -> EntryType]
      /\ call \in [Calls -> CallType] /\ epoch \in 0 .. MaxEpochs /\ out \in Seq(MessageType)
  BY TypeParts, Numbers
<1>2. ASSUME UNCHANGED <<row, active>> PROVE Goal
  BY <1>1, <1>2 DEF Goes
<1>3. ASSUME NEW r \in Runs, NEW status \in EndStatus, Finish(r, status) PROVE Goal
  BY <1>3, FinishEffect
<1>4. ASSUME NEW r \in Runs, NEW e \in EntryType, active' = [active EXCEPT ![r] = e],
             IsActive(r), e.kind = active[r].kind, e.call = active[r].call,
             e.attach = active[r].attach, row' = row
      PROVE  Goal
  BY <1>1, <1>4 DEF Goes
<1>5. ASSUME NEW q \in Calls, NEW kind \in Kinds, NEW attach \in BOOLEAN,
             StartTurn(q, kind, attach)
      PROVE  Goal
  BY <1>2, <1>5 DEF StartTurn
<1>6. ASSUME NEW q \in Calls, Launch(q) PROVE Goal
  <2>1. UNCHANGED <<row, active>> \/
        \E r \in Runs : /\ MayInsert /\ NewRow(r)
                        /\ row' = [row EXCEPT ![r] = "running"]
                        /\ active' = [active EXCEPT ![r] = Entry(q, "cli", 0)]
    BY <1>6 DEF Launch
  <2>2. ASSUME NEW r \in Runs, MayInsert, NewRow(r), row' = [row EXCEPT ![r] = "running"],
               active' = [active EXCEPT ![r] = Entry(q, "cli", 0)]
        PROVE  Begins(q, r)
    <3>1. /\ Entry(q, "cli", 0) \in EntryType /\ Entry(q, "cli", 0).kind = "cli"
          /\ Entry(q, "cli", 0).call = q /\ Entry(q, "cli", 0).attach = call[q].attach
      <4>1. 0 \in 0 .. MaxEpochs
        BY Numbers
      <4> QED BY <1>1, <4>1, EntryValue
    <3>2. active'[r] = Entry(q, "cli", 0)
      BY <1>1, <2>2
    <3> QED BY <2>2, <3>1, <3>2 DEF Begins
  <2> QED BY <1>2, <2>1, <2>2
<1>7. ASSUME NEW q \in Calls, ContextLaunches(q) \/ Prepared(q) PROVE Goal
  BY <1>6, <1>7 DEF ContextLaunches, Prepared
<1>8. ASSUME NEW q \in Calls, ContextPrepares(q) \/ CallFails(q) PROVE Goal
  BY <1>2, <1>8 DEF ContextPrepares, CallFails
<1>9. ASSUME NEW q \in Calls, ThreadAnswered(q) PROVE Goal
  <2>1. PICK r \in Runs :
          /\ NewRow(r) /\ row' = [row EXCEPT ![r] = "running"]
          /\ active' = [active EXCEPT ![r] = Entry(q, "app-server", epoch)]
    BY <1>9 DEF ThreadAnswered
  <2> DEFINE e == Entry(q, "app-server", epoch)
  <2>2. /\ e \in EntryType /\ e.kind = "app-server" /\ e.call = q /\ e.attach = call[q].attach
    BY <1>1, EntryValue
  <2>3. active'[r] = e
    BY <1>1, <2>1
  <2>4. MayInsert
    BY <1>9 DEF ThreadAnswered
  <2> HIDE DEF e
  <2> QED BY <2>1, <2>2, <2>3, <2>4 DEF Begins, e
<1>10. ASSUME NEW q \in Calls, TurnFails(q) PROVE Goal
  <2>1. call[q].run \in Runs /\ "failed" \in EndStatus
    BY <1>10 DEF TurnFails, At, Waiting, EndStatus
  <2> QED BY <1>3, <1>10, <2>1 DEF TurnFails
<1>11. ASSUME NEW r \in Runs, Interrupt(r) PROVE Goal
  <2>1. active[r] \in EntryType
    BY <1>1
  <2> DEFINE e == [active[r] EXCEPT !.interrupted = TRUE]
  <2>2. /\ e \in EntryType /\ e.kind = active[r].kind /\ e.call = active[r].call
        /\ e.attach = active[r].attach
    BY <2>1 DEF EntryType
  <2>3. active' = [active EXCEPT ![r] = e] /\ IsActive(r) /\ row' = row
    BY <1>11 DEF Interrupt
  <2> HIDE DEF e
  <2> QED BY <1>4, <2>2, <2>3
<1>12. ASSUME NEW r \in Runs, InterruptAnswered(r) PROVE Goal
  BY <1>2, <1>12 DEF InterruptAnswered
<1>13. ASSUME NEW r \in Runs, GraceEnds(r) PROVE Goal
  <2>1. "interrupted" \in EndStatus
    BY DEF EndStatus
  <2> QED BY <1>2, <1>3, <1>13, <2>1 DEF GraceEnds, EndsInterrupted
<1>14. ASSUME NEW r \in Runs, CliEnds(r) PROVE Goal
  BY <1>3, <1>14 DEF CliEnds, EndStatus
<1>15. ASSUME NEW r \in Runs, HandlesStart(r) PROVE Goal
  BY <1>2, <1>15 DEF HandlesStart
<1>16. ASSUME NEW k \in Turns, HandlesInterrupt(k) \/ TurnEnds(k) PROVE Goal
  BY <1>2, <1>16 DEF HandlesInterrupt, TurnEnds
<1>17. CASE BridgeBreaks
  BY <1>2, <1>17 DEF BridgeBreaks
<1>18. CASE ReadAnswer
  <2> DEFINE r == Head(out).run
             k == Head(out).turn
  <2>1. k \in Turns \cup {0}
    BY <1>1, <1>18, HeadValues DEF ReadAnswer, Reads
  <2> HIDE DEF r, k
  <2>2. \/ UNCHANGED <<row, active>>
        \/ \E q \in Calls :
             /\ At(q, "turn") /\ call[q].run = r
             /\ \/ /\ active' = IF IsActive(r) THEN [active EXCEPT ![r].turn = k] ELSE active
                   /\ UNCHANGED row
                \/ Finish(r, "failed")
    BY <1>18 DEF ReadAnswer, r, k
  <2>3. ASSUME NEW q \in Calls, At(q, "turn"), call[q].run = r PROVE r \in Runs
    BY <2>3 DEF At, Waiting
  <2>4. ASSUME r \in Runs, UNCHANGED row, IsActive(r), active' = [active EXCEPT ![r].turn = k]
        PROVE  Goal
    <3>1. active[r] \in EntryType
      BY <1>1, <2>4
    <3> DEFINE e == [active[r] EXCEPT !.turn = k]
    <3>2. /\ e \in EntryType /\ e.kind = active[r].kind /\ e.call = active[r].call
          /\ e.attach = active[r].attach
      <4> HIDE DEF Turns
      <4> QED BY <2>1, <3>1 DEF EntryType
    <3>3. active' = [active EXCEPT ![r] = e]
      BY <2>4
    <3> HIDE DEF e
    <3> QED BY <1>4, <2>4, <3>2, <3>3
  <2>5. "failed" \in EndStatus
    BY DEF EndStatus
  <2> HIDE DEF Goal
  <2> QED BY <1>2, <1>3, <2>2, <2>3, <2>4, <2>5
<1>19. CASE ReadStarted
  <2>1. Head(out).turn \in Turns \cup {0}
    BY <1>1, <1>19, HeadValues DEF ReadStarted, Reads
  <2>2. /\ active' = [r \in Runs |-> IF Listening(r) THEN [active[r] EXCEPT !.turn = Head(out).turn]
                                                    ELSE active[r]]
        /\ row' = row
    BY <1>19 DEF ReadStarted
  <2>3. ASSUME NEW r \in Runs
        PROVE  /\ active'[r] \in EntryType
               /\ active'[r].kind = active[r].kind /\ active'[r].call = active[r].call
               /\ active'[r].attach = active[r].attach
               /\ active'[r] # active[r] => IsActive(r)
    <3>1. active[r] \in EntryType
      BY <1>1
    <3>2. CASE Listening(r)
      <4>1. active'[r] = [active[r] EXCEPT !.turn = Head(out).turn]
        BY <2>2, <3>2
      <4>2. IsActive(r)
        BY <3>2, NoEntryValue DEF Listening, IsActive
      <4> HIDE DEF Turns
      <4> QED BY <2>1, <3>1, <4>1, <4>2 DEF EntryType
    <3>3. CASE ~Listening(r)
      BY <2>2, <3>1, <3>3
    <3> QED BY <3>2, <3>3
  <2>4. DOMAIN active' = Runs /\ active' = [r \in Runs |-> active'[r]]
    BY <2>2
  <2>5. active' \in [Runs -> EntryType]
    BY <2>3, <2>4
  <2>6. Goes
    BY <2>2, <2>3, <2>5 DEF Goes
  <2> QED BY <2>6
<1>20. ASSUME NEW kind \in {"completed", "failed", "interrupted"}, ReadEnd(kind) PROVE Goal
  <2>1. UNCHANGED <<row, active, files>> \/ \E r \in Runs, s \in EndStatus : Finish(r, s)
    BY <1>20 DEF ReadEnd, EndStatus
  <2> QED BY <1>2, <1>3, <2>1
<1>21. CASE UNCHANGED vars
  BY <1>2, <1>21 DEF vars
<1>22. DeleteThread \/ ServerExits \/ Restart => Goal
  OBVIOUS
<1> HIDE DEF Goal
<1> QED BY <1>5, <1>7, <1>8, <1>9, <1>10, <1>11, <1>12, <1>13, <1>14, <1>15, <1>16, <1>17, <1>18,
           <1>19, <1>20, <1>21, <1>22
           DEF Next, Request, Continuation, Stopping, Reading, Server

\* Rows and entries go together over every step.
LEMMA WatchedStep ==
  TypeOK /\ Waiting /\ Entries /\ RunningIsWatched /\ [Next]_vars => Entries' /\ RunningIsWatched'
<1> SUFFICES ASSUME TypeOK, Waiting, Entries, RunningIsWatched, [Next]_vars
             PROVE  Entries' /\ RunningIsWatched'
  OBVIOUS
<1>1. row \in [Runs -> RowStatus] /\ active \in [Runs -> EntryType]
  BY TypeParts
<1>2. /\ \A r \in Runs : row[r] = "running" <=> IsActive(r)
      /\ \A r, s \in Runs : IsActive(r) /\ IsActive(s) => r = s
      /\ \A r \in Runs : IsActive(r) => active[r].kind # "none"
  BY DEF RunningIsWatched, Entries
<1>3. NoEntry.kind = "none"
  BY NoEntryValue
<1>4. CASE Goes
  <2>1. ASSUME NEW r \in Runs PROVE /\ IsActive(r)' <=> IsActive(r)
                                    /\ IsActive(r) => active'[r].kind # "none"
    BY <1>2, <1>3, <1>4 DEF Goes, IsActive
  <2> QED BY <1>2, <1>4, <2>1 DEF Goes, RunningIsWatched, Entries
<1>5. ASSUME NEW q \in Calls, NEW r \in Runs, Begins(q, r)
      PROVE  Entries' /\ RunningIsWatched'
  <2>1. \A s \in Runs : ~IsActive(s) /\ row[s] # "running"
    BY <1>2, <1>5 DEF Begins, MayInsert
  <2>2. /\ active' = [active EXCEPT ![r] = active'[r]] /\ active'[r].kind # "none"
        /\ row' = [row EXCEPT ![r] = "running"]
    BY <1>5 DEF Begins
  <2>3. \A s \in Runs : s # r => active'[s] = active[s] /\ row'[s] = row[s]
    BY <1>1, <2>2
  <2>4. row'[r] = "running" /\ IsActive(r)'
    BY <1>1, <1>3, <2>2 DEF IsActive
  <2>5. \A s \in Runs : s # r => ~IsActive(s)' /\ row'[s] # "running"
    BY <2>1, <2>3 DEF IsActive
  <2> QED BY <2>2, <2>4, <2>5 DEF RunningIsWatched, Entries
<1>6. ASSUME NEW r \in Runs, NEW status \in EndStatus, EndsAs(r, status)
      PROVE  Entries' /\ RunningIsWatched'
  <2>1. status # "running"
    BY DEF EndStatus
  <2>2. active'[r] = NoEntry /\ row'[r] = status
    BY <1>1, <1>6 DEF EndsAs
  <2>3. \A s \in Runs : s # r => active'[s] = active[s] /\ row'[s] = row[s]
    BY <1>1, <1>6 DEF EndsAs
  <2> QED BY <1>2, <2>1, <2>2, <2>3 DEF RunningIsWatched, Entries, IsActive
<1>7. CASE DeleteThread
  <2>1. \A s \in Runs : ~IsActive(s) /\ row'[s] # "running" /\ active' = active
    BY <1>7 DEF DeleteThread, ThreadIsActive
  <2> QED BY <2>1 DEF RunningIsWatched, Entries, IsActive
<1>8. CASE ServerExits
  <2>1. ASSUME NEW r \in Runs, Listening(r) PROVE ~IsActive(r)' /\ row'[r] # "running"
    BY <1>8, <2>1 DEF ServerExits, Ended, IsActive
  <2>2. ASSUME NEW r \in Runs, ~Listening(r) PROVE active'[r] = active[r] /\ row'[r] = row[r]
    BY <1>8, <2>2 DEF ServerExits
  <2> QED BY <1>2, <2>1, <2>2 DEF RunningIsWatched, Entries, IsActive
<1>9. CASE Restart
  <2>1. \A r \in Runs : ~IsActive(r)' /\ row'[r] # "running"
    BY <1>9 DEF Restart, AbandonedRows, IsActive
  <2> QED BY <2>1 DEF RunningIsWatched, Entries
<1> QED BY <1>4, <1>5, <1>6, <1>7, <1>8, <1>9, Effects

\* A call that waits for turn/start knows its run.
LEMMA WaitingStep == TypeOK /\ Waiting /\ [Next]_vars => Waiting'
<1> SUFFICES ASSUME TypeOK, Waiting, [Next]_vars PROVE Waiting'
  OBVIOUS
<1> USE DEF server, board, Waiting
<1>1. call \in [Calls -> CallType]
  BY TypeParts
<1>2. CASE UNCHANGED call
  BY <1>2
<1>3. ASSUME NEW q \in Calls, call' = Over(q) PROVE Waiting'
  <2>1. Over(q)[q].step = "done" /\ \A p \in Calls : p # q => Over(q)[p] = call[p]
    BY <1>1, OverValue
  <2> QED BY <1>3, <2>1
<1>4. ASSUME NEW q \in Calls, NEW c, call' = [call EXCEPT ![q] = c],
             c.step = "turn" => c.run \in Runs
      PROVE  Waiting'
  BY <1>1, <1>4
<1>5. ASSUME NEW q \in Calls, NEW kind \in Kinds, NEW attach \in BOOLEAN,
             StartTurn(q, kind, attach)
      PROVE  Waiting'
  <2> DEFINE c == [NoCall EXCEPT !.step = "context", !.kind = kind, !.attach = attach]
  <2>1. c.step = "context" /\ call' = [call EXCEPT ![q] = c]
    BY <1>5 DEF StartTurn, NoCall
  <2> HIDE DEF c
  <2> QED BY <1>4, <2>1
<1>6. ASSUME NEW q \in Calls,
             ContextLaunches(q) \/ Prepared(q) \/ ContextPrepares(q) \/ CallFails(q) \/ TurnFails(q)
      PROVE  Waiting'
  <2>1. \/ call' = Over(q)
        \/ call' = [call EXCEPT ![q].step = "thread", ![q].child = epoch]
        \/ call' = [call EXCEPT ![q].step = "files"]
    BY <1>6 DEF ContextLaunches, Prepared, ContextPrepares, CallFails, TurnFails, Launch
  <2>2. call[q] \in CallType
    BY <1>1
  <2>3. ASSUME call' = [call EXCEPT ![q].step = "thread", ![q].child = epoch] PROVE Waiting'
    <3>1. /\ call' = [call EXCEPT ![q] = [call[q] EXCEPT !.step = "thread", !.child = epoch]]
          /\ [call[q] EXCEPT !.step = "thread", !.child = epoch].step = "thread"
      BY <2>2, <2>3 DEF CallType
    <3> QED BY <1>4, <3>1
  <2>4. ASSUME call' = [call EXCEPT ![q].step = "files"] PROVE Waiting'
    <3>1. /\ call' = [call EXCEPT ![q] = [call[q] EXCEPT !.step = "files"]]
          /\ [call[q] EXCEPT !.step = "files"].step = "files"
      BY <2>2, <2>4 DEF CallType
    <3> QED BY <1>4, <3>1
  <2> QED BY <1>3, <2>1, <2>3, <2>4
<1>7. ASSUME NEW q \in Calls, ThreadAnswered(q) PROVE Waiting'
  <2>1. PICK r \in Runs : call' = [call EXCEPT ![q] = [NoCall EXCEPT !.step = "turn", !.run = r]]
    BY <1>7 DEF ThreadAnswered
  <2>2. [NoCall EXCEPT !.step = "turn", !.run = r].run = r
    BY DEF NoCall
  <2> QED BY <1>4, <2>1, <2>2
<1>8. CASE ReadAnswer
  BY <1>2, <1>3, <1>8 DEF ReadAnswer
<1>9. CASE Restart
  <2>1. \A q \in Calls : call'[q].step # "turn"
    BY <1>9, CallValues DEF Restart
  <2> QED BY <2>1
<1>10. ASSUME NEW r \in Runs,
              \/ Interrupt(r) \/ InterruptAnswered(r) \/ GraceEnds(r) \/ CliEnds(r)
              \/ HandlesStart(r) \/ HandlesInterrupt(r) \/ TurnEnds(r)
       PROVE  UNCHANGED call
  BY <1>10 DEF Interrupt, InterruptAnswered, GraceEnds, CliEnds, HandlesStart, HandlesInterrupt,
               TurnEnds
<1>11. ASSUME NEW kind, \/ DeleteThread \/ ServerExits \/ BridgeBreaks \/ ReadStarted \/ ReadEnd(kind)
                        \/ UNCHANGED vars
       PROVE  UNCHANGED call
  BY <1>11 DEF DeleteThread, ServerExits, BridgeBreaks, ReadStarted, ReadEnd, vars
<1> HIDE DEF Waiting
<1> QED BY <1>2, <1>5, <1>6, <1>7, <1>8, <1>9, <1>10, <1>11
           DEF Next, Request, Continuation, Stopping, Reading, Server

-----------------------------------------------------------------------------
(* The theorems *)

\* Runs and what the board keeps of them, with the types
IInv == TypeOK /\ Waiting /\ Entries /\ RunningIsWatched

LEMMA Initially == Init => IInv
<1> SUFFICES ASSUME Init PROVE IInv
  OBVIOUS
<1>1. NoEntry \in EntryType /\ NoCall \in CallType /\ NoCall.step = "free"
  BY NoEntryValue, CallValues
<1>2. 1 \in 1 .. MaxEpochs /\ <<>> \in Seq(MessageType)
  BY Numbers
<1>3. TypeOK
  BY <1>1, <1>2 DEF Init, TypeOK
<1>4. Waiting /\ Entries /\ RunningIsWatched
  BY <1>1 DEF Init, Waiting, Entries, RunningIsWatched, IsActive
<1> QED BY <1>3, <1>4 DEF IInv

THEOREM InvariantHolds == Spec => []IInv
<1>1. IInv /\ [Next]_vars => IInv'
  BY TypeStep, WaitingStep, WatchedStep DEF IInv
<1> QED BY <1>1, Initially, PTL DEF Spec

\* The types hold for any number of requests, runs and processes.
THEOREM TypeCorrect == Spec => []TypeOK
<1>1. IInv => TypeOK
  BY DEF IInv
<1> QED BY <1>1, InvariantHolds, PTL

\* A row that is shown as running has the one entry that will end it.
THEOREM RunningIsWatchedHolds == Spec => []RunningIsWatched
<1>1. IInv => RunningIsWatched
  BY DEF IInv
<1> QED BY <1>1, InvariantHolds, PTL

\* Whatever comes after the end of a run leaves its outcome alone.
THEOREM FinishedStaysHolds == Spec => FinishedStays
<1> DEFINE Stays == \A r \in Runs : row[r] \in EndStatus => row'[r] \in {row[r], "deleted"}
<1>1. IInv /\ [Next]_vars => Stays
  <2> SUFFICES ASSUME IInv, [Next]_vars, NEW r \in Runs, row[r] \in EndStatus
               PROVE  row'[r] \in {row[r], "deleted"}
    OBVIOUS
  <2>1. row \in [Runs -> RowStatus] /\ active \in [Runs -> EntryType]
    BY TypeParts DEF IInv
  <2>2. row[r] # "running" /\ row[r] # "none" /\ ~IsActive(r)
    BY DEF IInv, RunningIsWatched, EndStatus
  <2>3. CASE Goes
    BY <2>3 DEF Goes
  <2>4. ASSUME NEW q \in Calls, NEW s \in Runs, Begins(q, s) PROVE row'[r] = row[r]
    BY <2>1, <2>2, <2>4 DEF Begins, NewRow
  <2>5. ASSUME NEW s \in Runs, NEW status \in EndStatus, EndsAs(s, status) PROVE row'[r] = row[r]
    BY <2>1, <2>2, <2>5 DEF EndsAs
  <2>6. CASE DeleteThread
    BY <2>6 DEF DeleteThread
  <2>7. CASE ServerExits
    <3>1. ~Listening(r)
      BY <2>2, NoEntryValue DEF Listening, IsActive
    <3> QED BY <2>7, <3>1 DEF ServerExits
  <2>8. CASE Restart
    BY <2>2, <2>8 DEF Restart, AbandonedRows
  <2> QED BY <2>3, <2>4, <2>5, <2>6, <2>7, <2>8, Effects DEF IInv
<1>2. Stays <=> \A r \in Runs : row[r] \in {"completed", "failed", "interrupted"}
                                  => row'[r] \in {row[r], "deleted"}
  BY DEF EndStatus
<1>3. IInv /\ [Next]_vars =>
        [\A r \in Runs : row[r] \in {"completed", "failed", "interrupted"}
           => row'[r] \in {row[r], "deleted"}]_vars
  BY <1>1, <1>2
<1> QED BY <1>3, InvariantHolds, PTL DEF Spec, FinishedStays

-----------------------------------------------------------------------------
(* Directories of attachments *)

\* A call that is being prepared holds its directory, a run that was started needs
\* the one of its call.
Holds(q)  == call[q].attach /\ call[q].step \in {"files", "thread"}
Serves(q) == \E r \in Runs : active[r].attach /\ active[r].call = q

\* The call of a run is not prepared any more.
Owned == \A r \in Runs : IsActive(r) => /\ active[r].call \in Calls
                                        /\ call[active[r].call].step \in {"turn", "done"}

FilesInv == Owned /\ \A q \in Calls : q \in files <=> Holds(q) \/ Serves(q)

LEMMA FilesMeaning == TypeOK => (FilesInv => FilesAreInUse)
<1> SUFFICES ASSUME TypeOK, FilesInv PROVE FilesAreInUse
  OBVIOUS
<1>1. files \subseteq Calls /\ active \in [Runs -> EntryType]
  BY TypeParts
<1>2. \A q \in Calls : q \in files <=> Holds(q) \/ Serves(q)
  BY DEF FilesInv
<1>3. \A r \in Runs : active[r].attach => IsActive(r) /\ active[r].call \in Calls
  BY NoEntryValue DEF IsActive, FilesInv, Owned
<1>4. ASSUME NEW q, q \in files
      PROVE  q \in {p \in Calls : Holds(p)} \cup {active[r].call : r \in {s \in Runs : active[s].attach}}
  BY <1>1, <1>2, <1>4 DEF Serves
<1>5. ASSUME NEW q \in {p \in Calls : Holds(p)} \cup {active[r].call : r \in {s \in Runs : active[s].attach}}
      PROVE  q \in files
  BY <1>2, <1>3, <1>5 DEF Serves
<1> QED BY <1>4, <1>5 DEF FilesAreInUse, Holds

\* What the calls hold stays when none is prepared further, and so do their owners.
LEMMA CallsStay ==
  ASSUME TypeOK, Owned,
         call' = call \/ \E p \in Calls : call[p].step \notin {"files", "thread"} /\ call' = Over(p)
  PROVE  /\ \A q \in Calls : Holds(q)' <=> Holds(q)
         /\ \A q \in Calls : call[q].step \in {"turn", "done"} => call'[q].step \in {"turn", "done"}
<1>1. call \in [Calls -> CallType]
  BY TypeParts
<1>2. ASSUME NEW p \in Calls, call[p].step \notin {"files", "thread"}, call' = Over(p), NEW q \in Calls
      PROVE  /\ Holds(q)' <=> Holds(q)
             /\ call[q].step \in {"turn", "done"} => call'[q].step \in {"turn", "done"}
  BY <1>1, <1>2, OverValue DEF Holds
<1> QED BY <1>2 DEF Holds

\* A run that ends gives back the directory of its call.
LEMMA FinishFiles ==
  ASSUME IInv, FilesInv, NEW r \in Runs, NEW status \in EndStatus, Finish(r, status),
         call' = call \/ \E p \in Calls : call[p].step \notin {"files", "thread"} /\ call' = Over(p)
  PROVE  FilesInv'
<1>1. TypeOK /\ RunningIsWatched /\ Owned /\ active \in [Runs -> EntryType]
  BY TypeParts DEF IInv, FilesInv
<1>2. /\ \A q \in Calls : Holds(q)' <=> Holds(q)
      /\ \A q \in Calls : call[q].step \in {"turn", "done"} => call'[q].step \in {"turn", "done"}
  BY <1>1, CallsStay
<1>3. CASE UNCHANGED <<active, files>>
  BY <1>1, <1>2, <1>3 DEF FilesInv, Owned, Serves, IsActive
<1>4. CASE EndsAs(r, status) /\ files' = files \ {active[r].call}
  <2>1. \A s \in Runs : ~IsActive(s)' /\ ~active'[s].attach
    <3>1. IsActive(r) /\ active' = [active EXCEPT ![r] = NoEntry]
      BY <1>4 DEF EndsAs
    <3>2. \A s \in Runs : s # r => active[s] = NoEntry
      BY <1>1, <3>1 DEF RunningIsWatched, IsActive
    <3> QED BY <1>1, <3>1, <3>2, NoEntryValue DEF IsActive
  <2>2. \A s \in Runs : s # r => ~active[s].attach
    BY <1>1, <1>4, NoEntryValue DEF EndsAs, RunningIsWatched, IsActive
  <2>3. active[r].call \in Calls /\ ~Holds(active[r].call)
    BY <1>1, <1>4 DEF EndsAs, Owned, Holds
  <2>4. ASSUME NEW q \in Calls PROVE q \in files' <=> Holds(q)
    BY <1>4, <2>2, <2>3 DEF FilesInv, Serves
  <2> QED BY <1>2, <2>1, <2>4 DEF FilesInv, Owned, Serves
<1> QED BY <1>1, <1>3, <1>4, FinishEffect

\* A run that begins takes over the directory of its call.
LEMMA BeginFiles ==
  ASSUME IInv, FilesInv, NEW q \in Calls, NEW r \in Runs, Begins(q, r), UNCHANGED files,
         call[q].attach => call[q].step \in {"files", "thread"},
         call'[q].step \in {"turn", "done"}, \A p \in Calls : p # q => call'[p] = call[p]
  PROVE  FilesInv'
<1>1. TypeOK /\ RunningIsWatched /\ Owned /\ active \in [Runs -> EntryType]
  BY TypeParts DEF IInv, FilesInv
<1>2. \A s \in Runs : active[s] = NoEntry
  BY <1>1 DEF Begins, MayInsert, RunningIsWatched, IsActive
<1>3. /\ active'[r].call = q /\ active'[r].attach = call[q].attach
      /\ \A s \in Runs : s # r => active'[s] = NoEntry
  BY <1>1, <1>2 DEF Begins
<1>4. \A p \in Calls : ~Serves(p)
  BY <1>2, NoEntryValue DEF Serves
<1>5. \A p \in Calls : Serves(p)' <=> p = q /\ call[q].attach
  BY <1>3, NoEntryValue DEF Serves
<1>6. Owned'
  BY <1>3 DEF Owned, IsActive
<1>7. \A p \in Calls : p # q => (Holds(p)' <=> Holds(p))
  BY DEF Holds
<1>8. ~Holds(q)' /\ (Holds(q) <=> call[q].attach)
  BY DEF Holds
<1> QED BY <1>4, <1>5, <1>6, <1>7, <1>8 DEF FilesInv

\* A step that changes one call, which no run owns
LEMMA CallFiles ==
  ASSUME IInv, FilesInv, NEW q \in Calls, call[q].step \notin {"turn", "done"}, UNCHANGED active,
         \A p \in Calls : p # q => call'[p] = call[p] /\ (p \in files' <=> p \in files),
         q \in files' <=> Holds(q)'
  PROVE  FilesInv'
<1>1. Owned /\ active \in [Runs -> EntryType]
  BY TypeParts DEF IInv, FilesInv
<1>2. \A r \in Runs : active[r].call = q => ~IsActive(r)
  BY <1>1 DEF Owned
<1>3. ~Serves(q)
  BY <1>2, NoEntryValue DEF Serves, IsActive
<1>4. Owned'
  BY <1>1, <1>2 DEF Owned, IsActive
<1>5. \A p \in Calls : Serves(p)' <=> Serves(p)
  BY DEF Serves
<1>6. \A p \in Calls : p # q => (Holds(p)' <=> Holds(p))
  BY DEF Holds
<1> QED BY <1>3, <1>4, <1>5, <1>6 DEF FilesInv

\* Directories go with calls and runs over every step.
LEMMA FilesStep == IInv /\ FilesInv /\ [Next]_vars => FilesInv'
<1> SUFFICES ASSUME IInv, FilesInv, [Next]_vars PROVE FilesInv'
  OBVIOUS
<1> USE DEF server, board
<1>1. /\ call \in [Calls -> CallType] /\ active \in [Runs -> EntryType] /\ files \subseteq Calls
      /\ Owned /\ \A q \in Calls : q \in files <=> Holds(q) \/ Serves(q)
      /\ TypeOK /\ Waiting /\ RunningIsWatched /\ epoch \in 0 .. MaxEpochs
  BY TypeParts, Numbers DEF IInv, FilesInv
<1>2. \A q \in Calls : /\ Over(q)[q].step = "done" /\ ~Over(q)[q].attach
                       /\ \A p \in Calls : p # q => Over(q)[p] = call[p]
  BY <1>1, OverValue
<1>3. ASSUME UNCHANGED <<files, call>>,
             \A r \in Runs : /\ IsActive(r)' => IsActive(r)
                             /\ active'[r].call = active[r].call
                             /\ active'[r].attach = active[r].attach
      PROVE  FilesInv'
  BY <1>1, <1>3 DEF FilesInv, Owned, Holds, Serves
<1>4. ASSUME UNCHANGED <<files, call, active>> PROVE FilesInv'
  BY <1>3, <1>4 DEF IsActive
<1>5. ASSUME NEW r \in Runs, NEW status \in EndStatus, Finish(r, status), call' = call PROVE FilesInv'
  BY <1>5, FinishFiles
<1>6. ASSUME NEW q \in Calls, NEW kind \in Kinds, NEW attach \in BOOLEAN,
             StartTurn(q, kind, attach)
      PROVE  FilesInv'
  <2>1. [NoCall EXCEPT !.step = "context", !.kind = kind, !.attach = attach].step = "context"
    BY DEF NoCall
  <2>2. /\ call[q].step = "free" /\ call'[q].step = "context" /\ UNCHANGED <<files, active>>
        /\ \A p \in Calls : p # q => call'[p] = call[p]
    BY <1>1, <1>6, <2>1 DEF StartTurn, At
  <2>3. q \notin files
    <3>1. \A r \in Runs : active[r].attach => active[r].call # q
      BY <1>1, <2>2, NoEntryValue DEF Owned, IsActive
    <3> QED BY <1>1, <2>2, <3>1 DEF Holds, Serves
  <2> QED BY <2>2, <2>3, CallFiles DEF Holds
<1>7. ASSUME NEW q \in Calls, call[q].step \notin {"turn", "done"}, UNCHANGED active,
             call' = Over(q), files' = files \ {q}
      PROVE  FilesInv'
  BY <1>2, <1>7, CallFiles DEF Holds
<1>8. ASSUME NEW q \in Calls, call[q].step \in {"context", "files"},
             call[q].attach => call[q].step = "files", Launch(q)
      PROVE  FilesInv'
  <2>1. CASE call' = [call EXCEPT ![q].step = "thread", ![q].child = epoch]
             /\ UNCHANGED <<active, files>>
    <3>1. /\ call'[q].step = "thread" /\ call'[q].attach = call[q].attach
          /\ \A p \in Calls : p # q => call'[p] = call[p]
      BY <1>1, <2>1 DEF CallType
    <3>2. q \in files <=> call[q].attach
      <4>1. \A r \in Runs : active[r].attach => active[r].call # q
        BY <1>1, <1>8, NoEntryValue DEF Owned, IsActive
      <4> QED BY <1>1, <1>8, <4>1 DEF Holds, Serves
    <3> QED BY <1>8, <2>1, <3>1, <3>2, CallFiles DEF Holds
  <2>2. CASE call' = Over(q) /\ files' = DropFiles(q) /\ UNCHANGED active
    BY <1>7, <1>8, <2>2 DEF DropFiles
  <2>3. ASSUME NEW r \in Runs, MayInsert, NewRow(r), row' = [row EXCEPT ![r] = "running"],
               active' = [active EXCEPT ![r] = Entry(q, "cli", 0)], call' = Over(q), UNCHANGED files
        PROVE  FilesInv'
    <3>1. /\ Entry(q, "cli", 0) \in EntryType /\ Entry(q, "cli", 0).kind = "cli"
          /\ Entry(q, "cli", 0).call = q /\ Entry(q, "cli", 0).attach = call[q].attach
      <4>1. 0 \in 0 .. MaxEpochs
        BY Numbers
      <4> QED BY <1>1, <4>1, EntryValue
    <3>2. active'[r] = Entry(q, "cli", 0)
      BY <1>1, <2>3
    <3>3. Begins(q, r)
      BY <2>3, <3>1, <3>2 DEF Begins
    <3>4. call'[q].step = "done" /\ \A p \in Calls : p # q => call'[p] = call[p]
      BY <1>2, <2>3
    <3> QED BY <1>8, <2>3, <3>3, <3>4, BeginFiles
  <2> QED BY <1>8, <2>1, <2>2, <2>3 DEF Launch
<1>9. ASSUME NEW q \in Calls, ContextLaunches(q) \/ Prepared(q) PROVE FilesInv'
  BY <1>8, <1>9 DEF ContextLaunches, Prepared, At
<1>10. ASSUME NEW q \in Calls, ContextPrepares(q) PROVE FilesInv'
  <2>1. /\ call[q].step = "context" /\ UNCHANGED active
        /\ files' = IF call[q].attach THEN files \cup {q} ELSE files
        /\ call' = [call EXCEPT ![q].step = "files"]
    BY <1>10 DEF ContextPrepares, At
  <2>2. /\ call'[q].step = "files" /\ call'[q].attach = call[q].attach /\ call[q].attach \in BOOLEAN
        /\ \A p \in Calls : p # q => call'[p] = call[p]
    BY <1>1, <2>1 DEF CallType
  <2>3. q \notin files
    <3>1. \A r \in Runs : active[r].attach => active[r].call # q
      BY <1>1, <2>1, NoEntryValue DEF Owned, IsActive
    <3> QED BY <1>1, <2>1, <3>1 DEF Holds, Serves
  <2> QED BY <2>1, <2>2, <2>3, CallFiles DEF Holds
<1>11. ASSUME NEW q \in Calls, CallFails(q) PROVE FilesInv'
  BY <1>7, <1>11 DEF CallFails, At, DropFiles
<1>12. ASSUME NEW q \in Calls, ThreadAnswered(q) PROVE FilesInv'
  <2>1. PICK r \in Runs :
          /\ NewRow(r) /\ row' = [row EXCEPT ![r] = "running"]
          /\ active' = [active EXCEPT ![r] = Entry(q, "app-server", epoch)]
          /\ call' = [call EXCEPT ![q] = [NoCall EXCEPT !.step = "turn", !.run = r]]
    BY <1>12 DEF ThreadAnswered
  <2>2. call[q].step = "thread" /\ MayInsert /\ UNCHANGED files
    BY <1>12 DEF ThreadAnswered, At
  <2> DEFINE e == Entry(q, "app-server", epoch)
  <2>3. /\ e \in EntryType /\ e.kind = "app-server" /\ e.call = q /\ e.attach = call[q].attach
    BY <1>1, EntryValue
  <2>4. active'[r] = e
    BY <1>1, <2>1
  <2>5. Begins(q, r)
    <3> HIDE DEF e
    <3> QED BY <2>1, <2>2, <2>3, <2>4 DEF Begins, e
  <2>6. call'[q].step = "turn" /\ \A p \in Calls : p # q => call'[p] = call[p]
    BY <1>1, <2>1 DEF NoCall
  <2> QED BY <2>2, <2>5, <2>6, BeginFiles
<1>13. ASSUME NEW q \in Calls, TurnFails(q) PROVE FilesInv'
  <2>1. /\ call[q].run \in Runs /\ "failed" \in EndStatus /\ call[q].step = "turn"
        /\ Finish(call[q].run, "failed") /\ call' = Over(q)
    BY <1>1, <1>13 DEF TurnFails, At, Waiting, EndStatus
  <2> QED BY <2>1, FinishFiles
<1>14. ASSUME NEW r \in Runs, Interrupt(r) PROVE FilesInv'
  <2>1. active' = [active EXCEPT ![r].interrupted = TRUE] /\ IsActive(r) /\ UNCHANGED <<files, call>>
    BY <1>14 DEF Interrupt
  <2>2. ASSUME NEW s \in Runs PROVE /\ IsActive(s)' => IsActive(s)
                                    /\ active'[s].call = active[s].call
                                    /\ active'[s].attach = active[s].attach
    BY <1>1, <2>1 DEF IsActive, EntryType
  <2> QED BY <1>3, <2>1, <2>2
<1>15. ASSUME NEW r \in Runs, InterruptAnswered(r) PROVE FilesInv'
  BY <1>4, <1>15 DEF InterruptAnswered
<1>16. ASSUME NEW r \in Runs, GraceEnds(r) PROVE FilesInv'
  <2>1. "interrupted" \in EndStatus
    BY DEF EndStatus
  <2> QED BY <1>4, <1>5, <1>16, <2>1 DEF GraceEnds, EndsInterrupted
<1>17. CASE DeleteThread
  BY <1>4, <1>17 DEF DeleteThread
<1>18. ASSUME NEW r \in Runs, CliEnds(r) PROVE FilesInv'
  BY <1>5, <1>18 DEF CliEnds, EndStatus
<1>19. ASSUME NEW r \in Runs, HandlesStart(r) PROVE FilesInv'
  BY <1>4, <1>19 DEF HandlesStart
<1>20. ASSUME NEW k \in Turns, HandlesInterrupt(k) \/ TurnEnds(k) PROVE FilesInv'
  BY <1>4, <1>20 DEF HandlesInterrupt, TurnEnds
<1>21. CASE BridgeBreaks
  BY <1>4, <1>21 DEF BridgeBreaks
<1>22. CASE ReadAnswer
  <2> DEFINE r == Head(out).run
             k == Head(out).turn
  <2>1. \/ UNCHANGED <<active, files, call>>
        \/ \E q \in Calls :
             /\ At(q, "turn") /\ call[q].run = r /\ call' = Over(q)
             /\ \/ /\ active' = IF IsActive(r) THEN [active EXCEPT ![r].turn = k] ELSE active
                   /\ UNCHANGED files
                \/ Finish(r, "failed")
    BY <1>22 DEF ReadAnswer
  <2> HIDE DEF r, k
  <2>2. ASSUME NEW q \in Calls, At(q, "turn"), call[q].run = r, call' = Over(q), Finish(r, "failed")
        PROVE  FilesInv'
    <3>1. r \in Runs /\ "failed" \in EndStatus
      BY <1>1, <2>2 DEF At, Waiting, EndStatus
    <3> QED BY <2>2, <3>1, FinishFiles DEF At
  <2>3. ASSUME NEW q \in Calls, At(q, "turn"), call[q].run = r, call' = Over(q), UNCHANGED files,
               active' = IF IsActive(r) THEN [active EXCEPT ![r].turn = k] ELSE active
        PROVE  FilesInv'
    <3>1. r \in Runs
      BY <1>1, <2>3 DEF At, Waiting
    <3>2. ASSUME NEW s \in Runs PROVE /\ IsActive(s)' => IsActive(s)
                                      /\ active'[s].call = active[s].call
                                      /\ active'[s].attach = active[s].attach
      BY <1>1, <2>3, <3>1 DEF IsActive, EntryType
    <3>3. /\ \A p \in Calls : Holds(p)' <=> Holds(p)
          /\ \A p \in Calls : call[p].step \in {"turn", "done"} => call'[p].step \in {"turn", "done"}
      BY <1>1, <2>3, CallsStay DEF At
    <3>4. \A p \in Calls : Serves(p)' <=> Serves(p)
      BY <3>2 DEF Serves
    <3>5. Owned'
      BY <1>1, <3>2, <3>3 DEF Owned
    <3> QED BY <1>1, <2>3, <3>3, <3>4, <3>5 DEF FilesInv
  <2> QED BY <1>4, <2>1, <2>2, <2>3
<1>23. CASE ReadStarted
  <2>1. /\ active' = [r \in Runs |-> IF Listening(r) THEN [active[r] EXCEPT !.turn = Head(out).turn]
                                                    ELSE active[r]]
        /\ UNCHANGED <<files, call>>
    BY <1>23 DEF ReadStarted
  <2>2. ASSUME NEW s \in Runs PROVE /\ IsActive(s)' => IsActive(s)
                                    /\ active'[s].call = active[s].call
                                    /\ active'[s].attach = active[s].attach
    <3>1. active[s] \in EntryType
      BY <1>1
    <3>2. Listening(s) => IsActive(s)
      BY NoEntryValue DEF Listening, IsActive
    <3>3. active'[s] = IF Listening(s) THEN [active[s] EXCEPT !.turn = Head(out).turn] ELSE active[s]
      BY <2>1
    <3> QED BY <3>1, <3>2, <3>3 DEF EntryType, IsActive
  <2> QED BY <1>3, <2>1, <2>2
<1>24. ASSUME NEW kind \in {"completed", "failed", "interrupted"}, ReadEnd(kind) PROVE FilesInv'
  <2>1. call' = call
    BY <1>24 DEF ReadEnd
  <2>2. UNCHANGED <<row, active, files>> \/ \E r \in Runs, s \in EndStatus : Finish(r, s)
    BY <1>24 DEF ReadEnd, EndStatus
  <2> QED BY <1>4, <1>5, <2>1, <2>2
<1>25. CASE ServerExits
  <2>1. /\ active' = [r \in Runs |-> IF Listening(r) THEN NoEntry ELSE active[r]]
        /\ files' = files \ {active[r].call : r \in {s \in Runs : Listening(s)}}
        /\ call' = call
    BY <1>25 DEF ServerExits
  <2>2. CASE \A r \in Runs : ~Listening(r)
    <3>1. files' = files /\ \A r \in Runs : active'[r] = active[r]
      BY <2>1, <2>2
    <3> QED BY <1>3, <2>1, <3>1 DEF IsActive
  <2>3. ASSUME NEW r \in Runs, Listening(r) PROVE FilesInv'
    <3>1. IsActive(r)
      BY <2>3, NoEntryValue DEF Listening, IsActive
    <3>2. \A s \in Runs : s # r => active[s] = NoEntry
      BY <1>1, <3>1 DEF RunningIsWatched, IsActive
    <3>3. \A s \in Runs : active'[s] = NoEntry
      BY <2>1, <2>3, <3>2
    <3>4. {s \in Runs : Listening(s)} = {r}
      BY <2>3, <3>2, NoEntryValue DEF Listening
    <3>5. files' = files \ {active[r].call}
      BY <2>1, <3>4
    <3>6. active[r].call \in Calls /\ ~Holds(active[r].call)
      BY <1>1, <3>1 DEF Owned, Holds
    <3>7. \A q \in Calls : ~Serves(q)' /\ (Serves(q) => q = active[r].call)
      BY <3>2, <3>3, NoEntryValue DEF Serves
    <3>8. \A q \in Calls : Holds(q)' <=> Holds(q)
      BY <2>1 DEF Holds
    <3>9. Owned'
      BY <3>3 DEF Owned, IsActive
    <3> QED BY <1>1, <3>5, <3>6, <3>7, <3>8, <3>9 DEF FilesInv
  <2> QED BY <2>2, <2>3
<1>26. CASE Restart
  <2>1. /\ files' = {} /\ \A r \in Runs : active'[r] = NoEntry
        /\ \A q \in Calls : ~call'[q].attach
    BY <1>26, CallValues DEF Restart
  <2> QED BY <2>1, NoEntryValue DEF FilesInv, Owned, Holds, Serves, IsActive
<1>27. CASE UNCHANGED vars
  BY <1>4, <1>27 DEF vars
<1> QED BY <1>6, <1>9, <1>10, <1>11, <1>12, <1>13, <1>14, <1>15, <1>16, <1>17, <1>18, <1>19, <1>20,
           <1>21, <1>22, <1>23, <1>24, <1>25, <1>26, <1>27
           DEF Next, Request, Continuation, Stopping, Reading, Server

\* The directory of the attachments of a turn exists as long as the turn needs it.
THEOREM FilesAreInUseHolds == Spec => []FilesAreInUse
<1>1. Init => FilesInv
  <2> SUFFICES ASSUME Init PROVE FilesInv
    OBVIOUS
  <2>1. files = {} /\ (\A r \in Runs : active[r] = NoEntry) /\ \A q \in Calls : ~call[q].attach
    BY CallValues DEF Init
  <2> QED BY <2>1, NoEntryValue DEF FilesInv, Owned, Holds, Serves, IsActive
<1>2. IInv /\ FilesInv => FilesAreInUse
  BY FilesMeaning DEF IInv
<1> QED BY <1>1, <1>2, InvariantHolds, FilesStep, PTL DEF Spec

-----------------------------------------------------------------------------
(* Turns of the app-server *)

\* The app-server began a turn of run r.
Begun(r) == \E k \in Turns : turn[k].state # "none" /\ turn[k].run = r

\* Places of what the app-server has written
Answers == {n \in DOMAIN out : out[n].kind = "answer"}
Ends    == {n \in DOMAIN out : out[n].kind \in EndStatus}

\* The app-server is asked once for the turn of a run that exists: it begins one or
\* says that it does not, and writes the end of a turn once.
TurnsExist == \A k \in Turns : turn[k].state # "none" => turn[k].run \in Runs /\ row[turn[k].run] # "none"
OneTurn ==
  \A k, l \in Turns :
    turn[k].state # "none" /\ turn[l].state # "none" /\ turn[k].run = turn[l].run => k = l
AskedOnce ==
  \A r \in asked : row[r] # "none" /\ ~Begun(r) /\ \A n \in Answers : out[n].run # r
Answered ==
  \A n \in Answers : /\ out[n].run \in Runs /\ row[out[n].run] # "none"
                     /\ out[n].turn = 0 => ~Begun(out[n].run)
EndsOnce ==
  /\ \A n \in Ends : out[n].turn \in Turns /\ turn[out[n].turn].state = "done"
  /\ \A m, n \in Ends : out[m].turn = out[n].turn => m = n
ServerInv == TurnsExist /\ OneTurn /\ AskedOnce /\ Answered /\ EndsOnce

\* The entry of a run waits for a turn of the app-server.
WaitsFor(r) == active[r].kind = "app-server"

\* Also the end of a turn that nobody has read belongs to a run that waits for it.
MatchInv ==
  ~left => /\ \A k \in Turns : turn[k].state = "busy" => WaitsFor(turn[k].run)
           /\ \A r \in asked : WaitsFor(r)
           /\ \A n \in Ends : WaitsFor(turn[out[n].turn].run)

\* What is written stays at its place when the first message is read.
LEMMA TailPlaces ==
  ASSUME out \in Seq(MessageType), out # <<>>
  PROVE  /\ 1 \in DOMAIN out /\ out[1] = Head(out)
         /\ \A n \in DOMAIN Tail(out) : /\ n + 1 \in DOMAIN out /\ n + 1 # 1
                                        /\ Tail(out)[n] = out[n + 1]
<1>1. /\ Tail(out) \in Seq(MessageType) /\ Len(Tail(out)) = Len(out) - 1
      /\ \A n \in 1 .. Len(Tail(out)) : Tail(out)[n] = out[n + 1]
      /\ Head(out) = out[1]
  BY HeadTailProperties
<1>2. /\ Len(out) \in Nat /\ DOMAIN out = 1 .. Len(out)
      /\ DOMAIN Tail(out) = 1 .. Len(Tail(out))
  BY <1>1, LenProperties
<1>3. Len(out) # 0
  BY EmptySeq
<1>4. 1 \in DOMAIN out
  BY <1>2, <1>3
<1>5. ASSUME NEW n \in DOMAIN Tail(out)
      PROVE  n + 1 \in DOMAIN out /\ n + 1 # 1 /\ Tail(out)[n] = out[n + 1]
  <2>1. n \in 1 .. Len(Tail(out))
    BY <1>2
  <2>2. n + 1 \in 1 .. Len(out) /\ n + 1 # 1
    BY <1>1, <1>2, <2>1
  <2> QED BY <1>1, <1>2, <2>1, <2>2
<1> QED BY <1>1, <1>4, <1>5

\* A run that exists stays a run.
LEMMA RowsStay ==
  TypeOK /\ Waiting /\ Entries /\ [Next]_vars => \A r \in Runs : row[r] # "none" => row'[r] # "none"
<1> SUFFICES ASSUME TypeOK, Waiting, Entries, [Next]_vars, NEW r \in Runs, row[r] # "none"
             PROVE  row'[r] # "none"
  OBVIOUS
<1>1. row \in [Runs -> RowStatus]
  BY TypeParts
<1>2. CASE Goes
  BY <1>2 DEF Goes
<1>3. ASSUME NEW q \in Calls, NEW s \in Runs, Begins(q, s) PROVE row'[r] # "none"
  BY <1>1, <1>3 DEF Begins
<1>4. ASSUME NEW s \in Runs, NEW status \in EndStatus, EndsAs(s, status) PROVE row'[r] # "none"
  BY <1>1, <1>4 DEF EndsAs, EndStatus
<1>5. CASE DeleteThread
  BY <1>5 DEF DeleteThread
<1>6. CASE ServerExits
  BY <1>6 DEF ServerExits, Ended
<1>7. CASE Restart
  BY <1>7 DEF Restart, AbandonedRows
<1> QED BY <1>2, <1>3, <1>4, <1>5, <1>6, <1>7, Effects

\* What the app-server did stays true while it does nothing, reads are made, and
\* when it forgets what it was asked.
LEMMA ServerRests ==
  ASSUME ServerInv, \A r \in Runs : row[r] # "none" => row'[r] # "none",
         asked' \subseteq asked, asked \subseteq Runs,
         \A k \in Turns : /\ turn'[k].run = turn[k].run
                          /\ turn'[k].state # "none" <=> turn[k].state # "none"
                          /\ turn[k].state = "done" => turn'[k].state = "done",
         out' = out \/ out' = <<>> \/ (out # <<>> /\ out' = Tail(out)),
         out \in Seq(MessageType)
  PROVE  ServerInv'
<1>1. /\ out' \in Seq(MessageType)
      /\ \E d \in {0, 1} : \A n \in DOMAIN out' : n + d \in DOMAIN out /\ out'[n] = out[n + d]
  <2>1. CASE out' = out
    BY <2>1
  <2>2. CASE out' = <<>>
    BY <2>2
  <2>3. CASE out # <<>> /\ out' = Tail(out)
    <3>1. Tail(out) \in Seq(MessageType)
      BY <2>3, HeadTailProperties
    <3>2. \A n \in DOMAIN out' : n + 1 \in DOMAIN out /\ out'[n] = out[n + 1]
      BY <2>3, TailPlaces
    <3> QED BY <2>3, <3>1, <3>2
  <2> QED BY <2>1, <2>2, <2>3
<1>2. PICK d \in {0, 1} : \A n \in DOMAIN out' : n + d \in DOMAIN out /\ out'[n] = out[n + d]
  BY <1>1
<1>3. \A n \in DOMAIN out' : n \in Int
  BY <1>1, LenProperties
<1>4. \A r : Begun(r)' <=> Begun(r)
  BY DEF Begun
<1>5. /\ \A n \in Answers' : n + d \in Answers /\ out'[n] = out[n + d]
      /\ \A n \in Ends' : n + d \in Ends /\ out'[n] = out[n + d]
  BY <1>2 DEF Answers, Ends
<1>6. TurnsExist' /\ OneTurn'
  BY DEF ServerInv, TurnsExist, OneTurn
<1>7. AskedOnce'
  BY <1>4, <1>5 DEF ServerInv, AskedOnce
<1>8. Answered'
  BY <1>4, <1>5 DEF ServerInv, Answered
<1>9. EndsOnce'
  <2>1. \A n \in Ends' : out'[n].turn \in Turns /\ turn'[out'[n].turn].state = "done"
    BY <1>5 DEF ServerInv, EndsOnce
  <2>2. ASSUME NEW m \in Ends', NEW n \in Ends', out'[m].turn = out'[n].turn PROVE m = n
    <3>1. m + d = n + d
      BY <1>5, <2>2 DEF ServerInv, EndsOnce
    <3>2. m \in Int /\ n \in Int /\ d \in Int
      BY <1>3, <2>2 DEF Ends
    <3> QED BY <3>1, <3>2
  <2> QED BY <2>1, <2>2 DEF EndsOnce
<1> QED BY <1>6, <1>7, <1>8, <1>9 DEF ServerInv

\* The app-server is asked for the turn of a new run.
LEMMA ServerAsked ==
  ASSUME ServerInv, TypeOK, NEW r \in Runs, row[r] = "none", row'[r] # "none",
         \A s \in Runs : row[s] # "none" => row'[s] # "none",
         asked' = asked \cup {r}, UNCHANGED <<turn, out>>
  PROVE  ServerInv'
<1>1. ~Begun(r) /\ \A n \in Answers : out[n].run # r
  BY DEF ServerInv, TurnsExist, Answered, Begun
<1>2. AskedOnce'
  <2>1. \A s \in asked : s \in Runs
    BY TypeParts
  <2> QED BY <1>1, <2>1 DEF ServerInv, AskedOnce, Begun, Answers
<1>3. TurnsExist' /\ OneTurn' /\ Answered' /\ EndsOnce'
  BY DEF ServerInv, TurnsExist, OneTurn, Answered, EndsOnce, Begun, Answers, Ends
<1> QED BY <1>2, <1>3 DEF ServerInv

\* What the app-server writes: the messages m behind what nobody has read
LEMMA Written ==
  ASSUME TypeOK, NEW m \in Seq(MessageType), out' = out \o m
  PROVE  /\ \A n \in DOMAIN out : n \in DOMAIN out' /\ out'[n] = out[n]
         /\ \A n \in DOMAIN out' : \/ n \in DOMAIN out
                                   \/ \E i \in DOMAIN m : n = Len(out) + i /\ out'[n] = m[i]
<1>1. out \in Seq(MessageType)
  BY TypeParts
<1>2. /\ out' \in Seq(MessageType) /\ Len(out') = Len(out) + Len(m)
      /\ \A n \in 1 .. Len(out) + Len(m) : out'[n] = IF n <= Len(out) THEN out[n] ELSE m[n - Len(out)]
  BY <1>1, ConcatProperties
<1>3. /\ Len(out) \in Nat /\ Len(m) \in Nat /\ DOMAIN out = 1 .. Len(out) /\ DOMAIN m = 1 .. Len(m)
      /\ DOMAIN out' = 1 .. Len(out) + Len(m)
  BY <1>1, <1>2, LenProperties
<1>4. \A n \in DOMAIN out : n \in DOMAIN out' /\ out'[n] = out[n]
  BY <1>2, <1>3
<1>5. ASSUME NEW n \in DOMAIN out', n \notin DOMAIN out
      PROVE  \E i \in DOMAIN m : n = Len(out) + i /\ out'[n] = m[i]
  <2>1. n - Len(out) \in DOMAIN m /\ n = Len(out) + (n - Len(out)) /\ out'[n] = m[n - Len(out)]
    BY <1>2, <1>3, <1>5
  <2> QED BY <2>1
<1> QED BY <1>4, <1>5

\* The app-server has handled the turn/start of run r: it has begun turn k, or refused
\* (k = 0), and has written the messages m, with one answer and at most one end.
Handled(r, k, state, m) ==
  /\ IF k = 0 THEN turn' = turn
              ELSE /\ turn[k].state = "none"
                   /\ turn' = [turn EXCEPT ![k] = [state |-> state, run |-> r]]
  /\ out' = out \o m
  /\ \A i \in DOMAIN m : m[i].kind = "answer" => m[i] = Answer(r, k)
  /\ \A i, j \in DOMAIN m : m[i].kind \in EndStatus /\ m[j].kind \in EndStatus => i = j
  /\ \A i \in DOMAIN m : m[i].kind \in EndStatus => k # 0 /\ state = "done" /\ m[i].turn = k

\* A turn is begun or refused.
LEMMA ServerBegins ==
  ASSUME ServerInv, TypeOK, NEW r \in asked, asked' = asked \ {r}, row' = row,
         NEW k \in Turns \cup {0}, NEW state \in {"busy", "done"},
         NEW m \in Seq(MessageType), Handled(r, k, state, m)
  PROVE  ServerInv'
<1> USE DEF Handled
<1>1. /\ turn \in [Turns -> TurnType] /\ r \in Runs /\ out \in Seq(MessageType)
  BY TypeParts
<1>2. /\ row[r] # "none" /\ ~Begun(r) /\ \A n \in Answers : out[n].run # r
  BY DEF ServerInv, AskedOnce
<1>3. /\ \A n \in DOMAIN out : n \in DOMAIN out' /\ out'[n] = out[n]
      /\ \A n \in DOMAIN out' : \/ n \in DOMAIN out
                                \/ \E i \in DOMAIN m : n = Len(out) + i /\ out'[n] = m[i]
  BY Written
<1>4. k # 0 => /\ turn'[k].run = r /\ turn'[k].state = state /\ turn[k].state = "none"
               /\ \A l \in Turns : l # k => turn'[l] = turn[l]
  BY <1>1
<1>5. \A s : s # r => (Begun(s)' <=> Begun(s))
  BY <1>4 DEF Begun
<1>6. k = 0 => ~Begun(r)'
  BY <1>2 DEF Begun
<1>7. TurnsExist'
  BY <1>1, <1>2, <1>4 DEF ServerInv, TurnsExist
<1>8. OneTurn'
  BY <1>2, <1>4 DEF ServerInv, OneTurn, Begun
<1>9. \A n \in Answers' : (n \in Answers /\ out'[n] = out[n]) \/ out'[n] = Answer(r, k)
  BY <1>3 DEF Answers
<1>10. Answer(r, k).run = r /\ Answer(r, k).turn = k
  BY DEF Answer
<1>11. AskedOnce'
  <2>1. ASSUME NEW s \in asked' PROVE s # r /\ s \in asked
    BY <2>1
  <2>2. ASSUME NEW s \in asked' PROVE row'[s] # "none" /\ ~Begun(s)'
    BY <1>5, <2>1, <2>2 DEF ServerInv, AskedOnce
  <2>3. ASSUME NEW s \in asked', NEW n \in Answers' PROVE out'[n].run # s
    BY <1>9, <1>10, <2>1, <2>3 DEF ServerInv, AskedOnce
  <2> QED BY <2>2, <2>3 DEF AskedOnce
<1>12. Answered'
  <2>1. ASSUME NEW n \in Answers'
        PROVE  out'[n].run \in Runs /\ row'[out'[n].run] # "none"
    <3>1. CASE n \in Answers /\ out'[n] = out[n]
      BY <3>1 DEF ServerInv, Answered
    <3>2. CASE out'[n] = Answer(r, k)
      BY <1>1, <1>2, <1>10, <3>2
    <3> QED BY <1>9, <2>1, <3>1, <3>2
  <2>2. ASSUME NEW n \in Answers', NEW s, s = out'[n].run, out'[n].turn = 0
        PROVE  ~Begun(s)'
    <3>1. CASE n \in Answers /\ out'[n] = out[n]
      BY <1>2, <1>5, <2>2, <3>1 DEF ServerInv, Answered
    <3>2. CASE out'[n] = Answer(r, k)
      BY <1>6, <1>10, <2>2, <3>2
    <3> QED BY <1>9, <2>2, <3>1, <3>2
  <2> QED BY <2>1, <2>2 DEF Answered
<1>13. EndsOnce'
  <2>1. ASSUME NEW n \in Ends'
        PROVE  \/ n \in Ends /\ out'[n] = out[n]
               \/ /\ k # 0 /\ state = "done" /\ out'[n].turn = k
                  /\ \E i \in DOMAIN m : n = Len(out) + i /\ m[i].kind \in EndStatus
    <3>1. n \in DOMAIN out' /\ out'[n].kind \in EndStatus
      BY <2>1 DEF Ends
    <3>2. CASE n \in DOMAIN out
      BY <1>3, <3>1, <3>2 DEF Ends
    <3>3. CASE n \notin DOMAIN out
      <4>1. PICK i \in DOMAIN m : n = Len(out) + i /\ out'[n] = m[i]
        BY <1>3, <3>1, <3>3
      <4> QED BY <3>1, <4>1
    <3> QED BY <3>2, <3>3
  <2>2. \A n \in Ends : out[n].turn \in Turns /\ turn[out[n].turn].state = "done"
    BY DEF ServerInv, EndsOnce
  <2>3. ASSUME NEW n \in Ends', NEW t, t = out'[n].turn
        PROVE  t \in Turns /\ turn'[t].state = "done"
    <3>1. CASE n \in Ends /\ out'[n] = out[n]
      <4>1. t \in Turns /\ turn[t].state = "done"
        BY <2>2, <2>3, <3>1
      <4>2. turn'[t] = turn[t]
        BY <1>4, <4>1
      <4> QED BY <4>1, <4>2
    <3>2. CASE k # 0 /\ state = "done" /\ out'[n].turn = k
      BY <1>4, <2>3, <3>2
    <3> QED BY <2>1, <2>3, <3>1, <3>2
  <2>4. ASSUME NEW a \in Ends', NEW b \in Ends', out'[a].turn = out'[b].turn PROVE a = b
    <3>1. CASE a \in Ends /\ b \in Ends /\ out'[a] = out[a] /\ out'[b] = out[b]
      BY <2>4, <3>1 DEF ServerInv, EndsOnce
    <3>2. CASE a \in Ends /\ out'[a] = out[a] /\ ~(b \in Ends /\ out'[b] = out[b])
      BY <1>4, <2>1, <2>2, <2>4, <3>2
    <3>3. CASE b \in Ends /\ out'[b] = out[b] /\ ~(a \in Ends /\ out'[a] = out[a])
      BY <1>4, <2>1, <2>2, <2>4, <3>3
    <3>4. CASE ~(a \in Ends /\ out'[a] = out[a]) /\ ~(b \in Ends /\ out'[b] = out[b])
      <4>1. PICK i \in DOMAIN m : a = Len(out) + i /\ m[i].kind \in EndStatus
        BY <2>1, <2>4, <3>4
      <4>2. PICK j \in DOMAIN m : b = Len(out) + j /\ m[j].kind \in EndStatus
        BY <2>1, <2>4, <3>4
      <4> QED BY <4>1, <4>2
    <3> QED BY <3>1, <3>2, <3>3, <3>4
  <2> QED BY <2>3, <2>4 DEF EndsOnce
<1> QED BY <1>7, <1>8, <1>11, <1>12, <1>13 DEF ServerInv

\* A turn ends, and one line says so.
LEMMA ServerEnds ==
  ASSUME ServerInv, TypeOK, UNCHANGED <<asked, row>>,
         NEW k \in Turns, turn[k].state = "busy", turn' = [turn EXCEPT ![k].state = "done"],
         NEW kind \in EndStatus, out' = Append(out, News(kind, k))
  PROVE  ServerInv'
<1>1. turn \in [Turns -> TurnType] /\ out \in Seq(MessageType) /\ News(kind, k) \in MessageType
  BY TypeParts, MessageValues DEF EndStatus
<1>2. /\ \A n \in DOMAIN out : n \in DOMAIN out' /\ out'[n] = out[n]
      /\ \A n \in DOMAIN out' : n \in DOMAIN out \/ (n = Len(out) + 1 /\ out'[n] = News(kind, k))
  <2>1. /\ out' \in Seq(MessageType) /\ Len(out') = Len(out) + 1
        /\ \A n \in 1 .. Len(out) : out'[n] = out[n]
        /\ out'[Len(out) + 1] = News(kind, k)
    BY <1>1, AppendProperties
  <2>2. Len(out) \in Nat /\ DOMAIN out = 1 .. Len(out) /\ DOMAIN out' = 1 .. Len(out')
    BY <1>1, <2>1, LenProperties
  <2> QED BY <2>1, <2>2
<1>3. News(kind, k).kind \in EndStatus /\ News(kind, k).kind # "answer" /\ News(kind, k).turn = k
  BY DEF News, EndStatus
<1>4. /\ turn'[k].run = turn[k].run /\ turn'[k].state = "done"
      /\ \A l \in Turns : l # k => turn'[l] = turn[l]
  BY <1>1 DEF TurnType
<1>5. \A s : Begun(s)' <=> Begun(s)
  BY <1>4 DEF Begun
<1>6. \A n \in Answers' : n \in Answers /\ out'[n] = out[n]
  BY <1>2, <1>3 DEF Answers
<1>7. TurnsExist' /\ OneTurn'
  BY <1>4 DEF ServerInv, TurnsExist, OneTurn
<1>8. AskedOnce' /\ Answered'
  BY <1>5, <1>6 DEF ServerInv, AskedOnce, Answered
<1>9. EndsOnce'
  <2>1. \A n \in Ends' : (n \in Ends /\ out'[n] = out[n]) \/ (n = Len(out) + 1 /\ out'[n].turn = k)
    BY <1>2, <1>3 DEF Ends
  <2>2. \A n \in Ends : out[n].turn \in Turns /\ turn[out[n].turn].state = "done" /\ out[n].turn # k
    BY DEF ServerInv, EndsOnce
  <2>3. ASSUME NEW n \in Ends', NEW t, t = out'[n].turn
        PROVE  t \in Turns /\ turn'[t].state = "done"
    <3>1. CASE n \in Ends /\ out'[n] = out[n]
      BY <1>4, <2>2, <2>3, <3>1
    <3>2. CASE out'[n].turn = k
      BY <1>4, <2>3, <3>2
    <3> QED BY <2>1, <2>3, <3>1, <3>2
  <2>4. ASSUME NEW a \in Ends', NEW b \in Ends', out'[a].turn = out'[b].turn PROVE a = b
    <3>1. CASE a \in Ends /\ out'[a] = out[a] /\ b \in Ends /\ out'[b] = out[b]
      BY <2>4, <3>1 DEF ServerInv, EndsOnce
    <3>2. CASE ~(a \in Ends /\ out'[a] = out[a] /\ b \in Ends /\ out'[b] = out[b])
      BY <2>1, <2>2, <2>4, <3>2
    <3> QED BY <3>1, <3>2
  <2> QED BY <2>3, <2>4 DEF EndsOnce
<1> QED BY <1>7, <1>8, <1>9 DEF ServerInv

\* Two messages written at once
LEMMA TwoMessages ==
  ASSUME NEW x \in MessageType, NEW y \in MessageType, out' = out \o <<x, y>>
  PROVE  \E m \in Seq(MessageType) : out' = out \o m /\ \A i \in DOMAIN m : m[i] = x \/ m[i] = y
<1>1. <<x, y>> \in Seq(MessageType)
  OBVIOUS
<1>2. \A i \in DOMAIN <<x, y>> : <<x, y>>[i] = x \/ <<x, y>>[i] = y
  OBVIOUS
<1> QED BY <1>1, <1>2

\* What the app-server writes when it is asked for the turn of run r: one answer, the
\* turn it has begun for r, and the end of that turn if it has ended.
LEMMA StartIsHandled ==
  ASSUME TypeOK, NEW r \in Runs, HandlesStart(r)
  PROVE  \E k \in Turns \cup {0}, state \in {"busy", "done"}, m \in Seq(MessageType) :
           Handled(r, k, state, m)
<1> DEFINE Goal == \E k \in Turns \cup {0}, state \in {"busy", "done"}, m \in Seq(MessageType) :
                     Handled(r, k, state, m)
<1> USE DEF Handled
<1>1. out \in Seq(MessageType)
  BY TypeParts
<1>2. \A k \in Turns : /\ News("started", k).kind \notin EndStatus \cup {"answer"}
                       /\ News("completed", k).kind = "completed"
                       /\ News("completed", k).turn = k
                       /\ Answer(r, k).kind = "answer"
  BY DEF News, Answer, EndStatus
<1>3. "answer" \notin EndStatus
  BY DEF EndStatus
<1>4. ASSUME NEW k \in Turns, NewTurn(k),
             turn' = [turn EXCEPT ![k] = [state |-> "busy", run |-> r]],
             \/ out' = out \o <<News("started", k), Answer(r, k)>>
             \/ out' = out \o <<Answer(r, k), News("started", k)>>
      PROVE  Goal
  <2>1. PICK m \in Seq(MessageType) :
          /\ out' = out \o m
          /\ \A i \in DOMAIN m : m[i] = Answer(r, k) \/ m[i] = News("started", k)
    <3>1. News("started", k) \in MessageType /\ Answer(r, k) \in MessageType
      BY MessageValues
    <3> DEFINE x == News("started", k)
               y == Answer(r, k)
    <3>2. out' = out \o <<x, y>> \/ out' = out \o <<y, x>>
      BY <1>4
    <3> HIDE DEF x, y
    <3>3. CASE out' = out \o <<x, y>>
      <4>1. PICK m \in Seq(MessageType) : out' = out \o m /\ \A i \in DOMAIN m : m[i] = x \/ m[i] = y
        <5>1. x \in MessageType /\ y \in MessageType
          BY <3>1 DEF x, y
        <5> QED BY <3>3, <5>1, TwoMessages
      <4> QED BY <4>1 DEF x, y
    <3>4. CASE out' = out \o <<y, x>>
      <4>1. PICK m \in Seq(MessageType) : out' = out \o m /\ \A i \in DOMAIN m : m[i] = y \/ m[i] = x
        <5>1. x \in MessageType /\ y \in MessageType
          BY <3>1 DEF x, y
        <5> QED BY <3>4, <5>1, TwoMessages
      <4> QED BY <4>1 DEF x, y
    <3> QED BY <3>2, <3>3, <3>4
  <2>2. \A i \in DOMAIN m : /\ m[i].kind \notin EndStatus
                            /\ m[i].kind = "answer" => m[i] = Answer(r, k)
    BY <1>2, <1>3, <2>1
  <2>3. turn[k].state = "none" /\ k # 0
    BY <1>4 DEF NewTurn
  <2>4. IF k = 0 THEN turn' = turn
                 ELSE /\ turn[k].state = "none"
                      /\ turn' = [turn EXCEPT ![k] = [state |-> "busy", run |-> r]]
    BY <1>4, <2>3
  <2>5. /\ \A i, j \in DOMAIN m : m[i].kind \in EndStatus /\ m[j].kind \in EndStatus => i = j
        /\ \A i \in DOMAIN m : m[i].kind \in EndStatus => /\ k # 0 /\ "busy" = "done"
                                                           /\ m[i].turn = k
        /\ \A i \in DOMAIN m : m[i].kind = "answer" => m[i] = Answer(r, k)
    BY <2>2
  <2> QED BY <2>1, <2>4, <2>5
<1>5. ASSUME NEW k \in Turns, NewTurn(k),
             turn' = [turn EXCEPT ![k] = [state |-> "done", run |-> r]],
             out' = out \o <<News("started", k), News("completed", k), Answer(r, k)>>
      PROVE  Goal
  <2>1. PICK m \in Seq(MessageType) :
          /\ out' = out \o m /\ DOMAIN m = 1 .. 3
          /\ m[1] = News("started", k) /\ m[2] = News("completed", k) /\ m[3] = Answer(r, k)
    <3>1. /\ News("started", k) \in MessageType /\ News("completed", k) \in MessageType
          /\ Answer(r, k) \in MessageType
      BY MessageValues
    <3> DEFINE x == News("started", k)
               y == News("completed", k)
               z == Answer(r, k)
    <3>2. x \in MessageType /\ y \in MessageType /\ z \in MessageType /\ out' = out \o <<x, y, z>>
      BY <1>5, <3>1
    <3> HIDE DEF x, y, z
    <3>3. \E m \in Seq(MessageType) :
            /\ out' = out \o m /\ DOMAIN m = 1 .. 3 /\ m[1] = x /\ m[2] = y /\ m[3] = z
      <4>1. <<x, y, z>> \in Seq(MessageType)
        BY <3>2
      <4>2. /\ DOMAIN <<x, y, z>> = 1 .. 3
            /\ <<x, y, z>>[1] = x /\ <<x, y, z>>[2] = y /\ <<x, y, z>>[3] = z
        OBVIOUS
      <4> QED BY <3>2, <4>1, <4>2
    <3> QED BY <3>3 DEF x, y, z
  <2>2. \A i \in 1 .. 3 : i = 1 \/ i = 2 \/ i = 3
    OBVIOUS
  <2>3. \A i \in DOMAIN m : /\ m[i].kind \in EndStatus => i = 2 /\ m[i].turn = k
                            /\ m[i].kind = "answer" => m[i] = Answer(r, k)
    BY <1>2, <1>3, <2>1, <2>2
  <2>4. turn[k].state = "none" /\ k # 0
    BY <1>5 DEF NewTurn
  <2>5. \A i, j \in DOMAIN m : m[i].kind \in EndStatus /\ m[j].kind \in EndStatus => i = j
    BY <2>3
  <2>6. \A i \in DOMAIN m : m[i].kind \in EndStatus => k # 0 /\ "done" = "done" /\ m[i].turn = k
    BY <2>3, <2>4
  <2>7. IF k = 0 THEN turn' = turn
                 ELSE /\ turn[k].state = "none"
                      /\ turn' = [turn EXCEPT ![k] = [state |-> "done", run |-> r]]
    BY <1>5, <2>4
  <2>8. \A i \in DOMAIN m : m[i].kind = "answer" => m[i] = Answer(r, k)
    BY <2>3
  <2> QED BY <2>1, <2>5, <2>6, <2>7, <2>8
<1>6. ASSUME out' = Append(out, Answer(r, 0)), turn' = turn PROVE Goal
  <2>1. /\ Answer(r, 0) \in MessageType /\ Answer(r, 0).kind = "answer"
    BY MessageValues DEF Answer
  <2>2. PICK m \in Seq(MessageType) : /\ out' = out \o m
                                      /\ \A i \in DOMAIN m : m[i] = Answer(r, 0)
    <3>1. <<Answer(r, 0)>> \in Seq(MessageType) /\ \A i \in DOMAIN <<Answer(r, 0)>> :
             <<Answer(r, 0)>>[i] = Answer(r, 0)
      BY <2>1
    <3>2. out' = out \o <<Answer(r, 0)>>
      BY <1>1, <1>6, <2>1
    <3> QED BY <3>1, <3>2
  <2>3. \A i \in DOMAIN m : m[i].kind \notin EndStatus
    BY <1>3, <2>1, <2>2
  <2> QED BY <1>6, <2>2, <2>3
<1> QED BY <1>4, <1>5, <1>6 DEF HandlesStart

\* What the app-server did, was asked for and has written fits together.
LEMMA ServerStep ==
  TypeOK /\ Waiting /\ Entries /\ ServerInv /\ [Next]_vars => ServerInv'
<1> SUFFICES ASSUME TypeOK, Waiting, Entries, ServerInv, [Next]_vars PROVE ServerInv'
  OBVIOUS
<1> USE DEF server, board
<1>1. /\ turn \in [Turns -> TurnType] /\ asked \subseteq Runs /\ out \in Seq(MessageType)
  BY TypeParts
<1>2. \A r \in Runs : row[r] # "none" => row'[r] # "none"
  BY RowsStay
<1>3. ASSUME UNCHANGED <<asked, turn>>,
             out' = out \/ out' = <<>> \/ (out # <<>> /\ out' = Tail(out))
      PROVE  ServerInv'
  BY <1>1, <1>2, <1>3, ServerRests
<1>4. ASSUME asked' \subseteq asked, turn' = TurnsDone, out' = <<>> PROVE ServerInv'
  <2>1. \A k \in Turns : /\ turn'[k].run = turn[k].run
                         /\ turn'[k].state # "none" <=> turn[k].state # "none"
                         /\ turn[k].state = "done" => turn'[k].state = "done"
    BY <1>1, <1>4 DEF TurnsDone, TurnType
  <2> QED BY <1>1, <1>2, <1>4, <2>1, ServerRests
<1>5. ASSUME NEW q \in Calls, NEW kind \in Kinds, NEW attach \in BOOLEAN,
             StartTurn(q, kind, attach)
      PROVE  ServerInv'
  BY <1>3, <1>5 DEF StartTurn
<1>6. ASSUME NEW q \in Calls, ContextLaunches(q) \/ Prepared(q) \/ ContextPrepares(q)
      PROVE  ServerInv'
  BY <1>3, <1>6 DEF ContextLaunches, Prepared, ContextPrepares
<1>7. ASSUME NEW q \in Calls, CallFails(q) \/ TurnFails(q) PROVE ServerInv'
  BY <1>3, <1>7 DEF CallFails, TurnFails
<1>8. ASSUME NEW q \in Calls, ThreadAnswered(q) PROVE ServerInv'
  <2>1. PICK r \in Runs : /\ NewRow(r) /\ row' = [row EXCEPT ![r] = "running"]
                          /\ asked' = asked \cup {r}
    BY <1>8 DEF ThreadAnswered
  <2>2. UNCHANGED <<turn, out>>
    BY <1>8 DEF ThreadAnswered
  <2>3. row \in [Runs -> RowStatus]
    BY TypeParts
  <2>4. row[r] = "none" /\ row'[r] # "none"
    BY <2>1, <2>3 DEF NewRow
  <2> QED BY <1>2, <2>1, <2>2, <2>4, ServerAsked
<1>9. ASSUME NEW r \in Runs, Interrupt(r) \/ InterruptAnswered(r) \/ GraceEnds(r) \/ CliEnds(r)
      PROVE  ServerInv'
  BY <1>3, <1>9 DEF Interrupt, InterruptAnswered, GraceEnds, CliEnds
<1>10. CASE DeleteThread
  BY <1>3, <1>10 DEF DeleteThread
<1>11. ASSUME NEW r \in Runs, HandlesStart(r) PROVE ServerInv'
  <2>1. r \in asked /\ asked' = asked \ {r} /\ row' = row
    BY <1>11 DEF HandlesStart
  <2>2. PICK k \in Turns \cup {0}, state \in {"busy", "done"}, m \in Seq(MessageType) :
          Handled(r, k, state, m)
    BY <1>11, StartIsHandled
  <2> QED BY <2>1, <2>2, ServerBegins
<1>12. ASSUME NEW k \in Turns, HandlesInterrupt(k) PROVE ServerInv'
  <2>1. CASE turn[k].state = "busy"
    <3>1. "interrupted" \in EndStatus
      BY DEF EndStatus
    <3> QED BY <1>12, <2>1, <3>1, ServerEnds DEF HandlesInterrupt
  <2>2. CASE turn[k].state # "busy"
    BY <1>3, <1>12, <2>2 DEF HandlesInterrupt
  <2> QED BY <2>1, <2>2
<1>13. ASSUME NEW k \in Turns, TurnEnds(k) PROVE ServerInv'
  <2>1. PICK kind \in EndStatus : out' = Append(out, News(kind, k))
    BY <1>13 DEF TurnEnds, EndStatus
  <2> QED BY <1>13, <2>1, ServerEnds DEF TurnEnds
<1>14. CASE ServerExits
  BY <1>4, <1>14 DEF ServerExits
<1>15. CASE BridgeBreaks
  BY <1>3, <1>15 DEF BridgeBreaks
<1>16. CASE ReadAnswer \/ ReadStarted
  BY <1>3, <1>16 DEF ReadAnswer, ReadStarted, Reads
<1>17. ASSUME NEW kind \in {"completed", "failed", "interrupted"}, ReadEnd(kind) PROVE ServerInv'
  BY <1>3, <1>17 DEF ReadEnd, Reads
<1>18. CASE Restart
  BY <1>3, <1>4, <1>18 DEF Restart
<1>19. CASE UNCHANGED vars
  BY <1>3, <1>19 DEF vars
<1> QED BY <1>5, <1>6, <1>7, <1>8, <1>9, <1>10, <1>11, <1>12, <1>13, <1>14, <1>15, <1>16, <1>17,
           <1>18, <1>19
           DEF Next, Request, Continuation, Stopping, Reading, Server

\* Nothing of the app-server belongs to run r.
Spared(r) ==
  /\ \A k \in Turns : turn[k].state = "busy" => turn[k].run # r
  /\ r \notin asked
  /\ \A n \in Ends : turn[out[n].turn].run # r

\* Nothing is begun or ended, and entries that go are not waited for.
LEMMA MatchRests ==
  ASSUME TypeOK, ServerInv, MatchInv, left' \/ left' = left,
         asked' \subseteq asked,
         \A k \in Turns : /\ turn'[k].run = turn[k].run
                          /\ turn'[k].state = "busy" => turn[k].state = "busy",
         out' = out \/ out' = <<>> \/ (out # <<>> /\ out' = Tail(out)),
         \A r \in Runs : WaitsFor(r) => WaitsFor(r)' \/ Spared(r)'
  PROVE  MatchInv'
<1> SUFFICES ASSUME ~left' PROVE MatchInv'
  BY DEF MatchInv
<1>1. /\ \A k \in Turns : turn[k].state = "busy" => WaitsFor(turn[k].run)
      /\ \A r \in asked : WaitsFor(r)
      /\ \A n \in Ends : WaitsFor(turn[out[n].turn].run)
  BY DEF MatchInv
<1>2. out \in Seq(MessageType) /\ asked \subseteq Runs
  BY TypeParts
<1>3. \A n \in Ends' : \E m \in Ends : out'[n] = out[m]
  <2>1. CASE out' = out
    BY <2>1 DEF Ends
  <2>2. CASE out' = <<>>
    BY <2>2 DEF Ends
  <2>3. CASE out # <<>> /\ out' = Tail(out)
    BY <1>2, <2>3, TailPlaces DEF Ends
  <2> QED BY <2>1, <2>2, <2>3
<1>4. ASSUME NEW k \in Turns, turn'[k].state = "busy", NEW s, s = turn'[k].run
      PROVE  WaitsFor(s)'
  <2>1. s \in Runs /\ WaitsFor(s)
    BY <1>1, <1>4 DEF ServerInv, TurnsExist
  <2> QED BY <1>4, <2>1 DEF Spared
<1>5. ASSUME NEW r \in asked' PROVE WaitsFor(r)'
  <2>1. r \in Runs /\ WaitsFor(r)
    BY <1>1, <1>2, <1>5
  <2> QED BY <1>5, <2>1 DEF Spared
<1>6. ASSUME NEW n \in Ends', NEW s, s = turn'[out'[n].turn].run PROVE WaitsFor(s)'
  <2>1. PICK m \in Ends : out'[n] = out[m]
    BY <1>3, <1>6
  <2>2. out[m].turn \in Turns /\ turn[out[m].turn].state = "done"
    BY <2>1 DEF ServerInv, EndsOnce
  <2>3. turn[out[m].turn].run \in Runs /\ WaitsFor(turn[out[m].turn].run)
    BY <1>1, <2>2 DEF ServerInv, TurnsExist
  <2>4. s = turn[out[m].turn].run
    BY <1>6, <2>1, <2>2
  <2>5. WaitsFor(s)' \/ Spared(s)'
    BY <2>3, <2>4
  <2> QED BY <1>6, <2>5 DEF Spared
<1> QED BY <1>4, <1>5, <1>6 DEF MatchInv

\* What Finish does to the entries
LEMMA FinishEntries ==
  ASSUME TypeOK, NEW r \in Runs, NEW status, Finish(r, status)
  PROVE  /\ \A s \in Runs : s # r => active'[s] = active[s]
         /\ ~IsActive(r) => active' = active
BY TypeParts DEF Finish, Finishes

\* The answer that the turn of run r did not begin: nothing of the app-server is r's.
LEMMA Refused ==
  ASSUME TypeOK, ServerInv, Reads("answer"), Head(out).turn = 0, UNCHANGED <<asked, turn>>,
         NEW r, r = Head(out).run
  PROVE  Spared(r)'
<1>1. out \in Seq(MessageType) /\ out # <<>> /\ out' = Tail(out)
  BY TypeParts DEF Reads
<1>2. 1 \in DOMAIN out /\ out[1] = Head(out) /\ Head(out).kind = "answer"
  BY <1>1, TailPlaces DEF Reads
<1>3. 1 \in Answers
  BY <1>2 DEF Answers
<1>4. ~Begun(r) /\ r \notin asked
  BY <1>2, <1>3 DEF ServerInv, Answered, AskedOnce
<1>5. \A k \in Turns : turn[k].state # "none" => turn[k].run # r
  BY <1>4 DEF Begun
<1>6. \A n \in Ends' : n + 1 \in Ends /\ out'[n] = out[n + 1]
  BY <1>1, TailPlaces DEF Ends
<1>7. \A n \in Ends : out[n].turn \in Turns /\ turn[out[n].turn].state = "done"
  BY DEF ServerInv, EndsOnce
<1>8. ASSUME NEW n \in Ends' PROVE turn[out'[n].turn].run # r
  BY <1>5, <1>6, <1>7
<1> QED BY <1>4, <1>5, <1>8 DEF Spared

\* The end of the turn of run r is read: there is no other turn of r, and no other end.
LEMMA EndIsRead ==
  ASSUME TypeOK, ServerInv, NEW kind \in EndStatus, Reads(kind), UNCHANGED <<asked, turn>>,
         NEW k, NEW r, k = Head(out).turn, r = turn[k].run
  PROVE  Spared(r)'
<1>1. out \in Seq(MessageType) /\ out # <<>> /\ out' = Tail(out)
  BY TypeParts DEF Reads
<1>2. 1 \in DOMAIN out /\ out[1] = Head(out) /\ Head(out).kind = kind
  BY <1>1, TailPlaces DEF Reads
<1>3. 1 \in Ends
  BY <1>2 DEF Ends
<1>4. k \in Turns /\ turn[k].state = "done"
  BY <1>2, <1>3 DEF ServerInv, EndsOnce
<1>5. Begun(r)
  BY <1>4 DEF Begun
<1>6. r \notin asked
  BY <1>5 DEF ServerInv, AskedOnce
<1>7. \A l \in Turns : turn[l].state # "none" /\ l # k => turn[l].run # r
  BY <1>4 DEF ServerInv, OneTurn
<1>8. \A n \in Ends' : n + 1 \in Ends /\ n + 1 # 1 /\ out'[n] = out[n + 1]
  BY <1>1, TailPlaces DEF Ends
<1>9. ASSUME NEW n \in Ends' PROVE turn[out'[n].turn].run # r
  <2>1. n + 1 \in Ends /\ out'[n] = out[n + 1] /\ n + 1 # 1
    BY <1>8, <1>9
  <2>2. out[n + 1].turn # k
    BY <1>2, <1>3, <2>1 DEF ServerInv, EndsOnce
  <2>3. out[n + 1].turn \in Turns /\ turn[out[n + 1].turn].state = "done"
    BY <2>1 DEF ServerInv, EndsOnce
  <2> QED BY <1>7, <2>1, <2>2, <2>3
<1>10. \A l \in Turns : turn[l].state = "busy" => turn[l].run # r
  BY <1>4, <1>7
<1> QED BY <1>6, <1>9, <1>10 DEF Spared

\* The runs of turns that go on are waited for.
LEMMA MatchStep ==
  IInv /\ ServerInv /\ MatchInv /\ [Next]_vars => MatchInv'
<1> SUFFICES ASSUME TypeOK, Waiting, Entries, RunningIsWatched, ServerInv, MatchInv, [Next]_vars
             PROVE  MatchInv'
  BY DEF IInv
<1> USE DEF server, board
<1>1. /\ turn \in [Turns -> TurnType] /\ asked \subseteq Runs /\ out \in Seq(MessageType)
      /\ row \in [Runs -> RowStatus] /\ active \in [Runs -> EntryType]
  BY TypeParts
<1>2. ASSUME UNCHANGED <<asked, turn>>, left' \/ left' = left,
             out' = out \/ out' = <<>> \/ (out # <<>> /\ out' = Tail(out)),
             \A r \in Runs : WaitsFor(r) => WaitsFor(r)' \/ Spared(r)'
      PROVE  MatchInv'
  BY <1>1, <1>2, MatchRests
<1>3. ASSUME left' PROVE MatchInv'
  BY <1>3 DEF MatchInv
<1>4. \A r \in Runs : WaitsFor(r) => IsActive(r)
  BY NoEntryValue DEF WaitsFor, IsActive
<1>5. \A r \in Runs : row[r] = "none" => ~WaitsFor(r)
  BY <1>4 DEF RunningIsWatched
<1>6. ASSUME asked' = {}, turn' = TurnsDone, out' = <<>> PROVE MatchInv'
  BY <1>1, <1>6 DEF MatchInv, TurnsDone, TurnType, Ends
<1>7. ASSUME NEW q \in Calls, NEW kind \in Kinds, NEW attach \in BOOLEAN,
             StartTurn(q, kind, attach)
      PROVE  MatchInv'
  BY <1>2, <1>7 DEF StartTurn, WaitsFor
<1>8. ASSUME NEW q \in Calls, ContextLaunches(q) \/ Prepared(q) PROVE MatchInv'
  <2>1. UNCHANGED <<asked, turn, out, left>> /\ Launch(q)
    BY <1>8 DEF ContextLaunches, Prepared
  <2>2. active' = active \/ \E r \in Runs : row[r] = "none" /\ \E e : active' = [active EXCEPT ![r] = e]
    BY <2>1 DEF Launch, NewRow
  <2> QED BY <1>1, <1>2, <1>5, <2>1, <2>2 DEF WaitsFor
<1>9. ASSUME NEW q \in Calls, ContextPrepares(q) \/ CallFails(q) PROVE MatchInv'
  BY <1>2, <1>9 DEF ContextPrepares, CallFails, WaitsFor
<1>10. ASSUME NEW q \in Calls, ThreadAnswered(q) PROVE MatchInv'
  <2>1. PICK r \in Runs : /\ NewRow(r) /\ asked' = asked \cup {r}
                          /\ active' = [active EXCEPT ![r] = Entry(q, "app-server", epoch)]
    BY <1>10 DEF ThreadAnswered
  <2>2. UNCHANGED <<turn, out, left>>
    BY <1>10 DEF ThreadAnswered
  <2>3. Entry(q, "app-server", epoch).kind = "app-server"
    BY DEF Entry, NoEntry
  <2>4. ~WaitsFor(r)
    BY <1>5, <2>1 DEF NewRow
  <2>5. WaitsFor(r)' /\ \A s \in Runs : WaitsFor(s) => WaitsFor(s)'
    BY <1>1, <2>1, <2>3, <2>4 DEF WaitsFor
  <2>6. \A k \in Turns : turn[k].state # "none" => turn[k].run \in Runs
    BY DEF ServerInv, TurnsExist
  <2>7. \A n \in Ends : turn[out[n].turn].run \in Runs
    BY <2>6 DEF ServerInv, EndsOnce
  <2>8. Ends' = Ends
    BY <2>2 DEF Ends
  <2> QED BY <1>1, <2>1, <2>2, <2>5, <2>6, <2>7, <2>8 DEF MatchInv
<1>11. ASSUME NEW q \in Calls, TurnFails(q) PROVE MatchInv'
  <2>1. call[q].run \in Runs /\ Finish(call[q].run, "failed")
    BY <1>11 DEF TurnFails, At, Waiting
  <2>2. CASE IsActive(call[q].run)
    BY <1>3, <1>11, <2>2 DEF TurnFails
  <2>3. CASE ~IsActive(call[q].run)
    <3>1. active' = active
      BY <2>1, <2>3, FinishEntries
    <3>2. UNCHANGED <<asked, turn, out>> /\ left' = (left \/ IsActive(call[q].run))
      BY <1>11 DEF TurnFails
    <3>3. left' \/ left' = left
      BY <3>2, TypeParts
    <3> QED BY <1>2, <3>1, <3>2, <3>3 DEF WaitsFor
  <2> QED BY <2>2, <2>3
<1>12. ASSUME NEW r \in Runs, Interrupt(r) PROVE MatchInv'
  <2>1. \A s \in Runs : active'[s].kind = active[s].kind
    BY <1>1, <1>12 DEF Interrupt, EntryType
  <2> QED BY <1>2, <1>12, <2>1 DEF Interrupt, WaitsFor
<1>13. ASSUME NEW r \in Runs, InterruptAnswered(r) PROVE MatchInv'
  BY <1>2, <1>13 DEF InterruptAnswered, WaitsFor
<1>14. ASSUME NEW r \in Runs, GraceEnds(r) PROVE MatchInv'
  <2>1. CASE active[r].kind = "cli"
    BY <1>2, <1>14, <2>1 DEF GraceEnds, WaitsFor
  <2>2. CASE active[r].kind # "cli" /\ IsActive(r)
    BY <1>3, <1>14, <2>2 DEF GraceEnds
  <2>3. CASE active[r].kind # "cli" /\ ~IsActive(r)
    <3>1. active' = active
      BY <1>14, <2>3, FinishEntries DEF GraceEnds, EndsInterrupted
    <3>2. UNCHANGED <<asked, turn, out>> /\ left' = (left \/ IsActive(r))
      BY <1>14, <2>3 DEF GraceEnds
    <3>3. left' \/ left' = left
      BY <3>2, TypeParts
    <3> QED BY <1>2, <3>1, <3>2, <3>3 DEF WaitsFor
  <2> QED BY <2>1, <2>2, <2>3
<1>15. CASE DeleteThread
  BY <1>2, <1>15 DEF DeleteThread, WaitsFor
<1>16. ASSUME NEW r \in Runs, CliEnds(r) PROVE MatchInv'
  <2>1. ~WaitsFor(r)
    BY <1>16 DEF CliEnds, WaitsFor
  <2>2. \A s \in Runs : s # r => active'[s] = active[s]
    BY <1>16, FinishEntries DEF CliEnds
  <2> QED BY <1>2, <1>16, <2>1, <2>2 DEF CliEnds, WaitsFor
<1>17. ASSUME NEW r \in Runs, HandlesStart(r) PROVE MatchInv'
  <2>1. UNCHANGED <<active, left>> /\ r \in asked /\ asked' = asked \ {r}
    BY <1>17 DEF HandlesStart
  <2>2. PICK k \in Turns \cup {0}, state \in {"busy", "done"}, m \in Seq(MessageType) :
          Handled(r, k, state, m)
    BY <1>17, StartIsHandled
  <2> USE DEF Handled
  <2> SUFFICES ASSUME ~left PROVE MatchInv'
    BY <2>1 DEF MatchInv
  <2>3. /\ WaitsFor(r)
        /\ \A l \in Turns : turn[l].state = "busy" => WaitsFor(turn[l].run)
        /\ \A s \in asked : WaitsFor(s)
        /\ \A n \in Ends : WaitsFor(turn[out[n].turn].run)
    BY <2>1 DEF MatchInv
  <2>4. \A s : WaitsFor(s)' <=> WaitsFor(s)
    BY <2>1 DEF WaitsFor
  <2>5. \A l \in Turns : (l = k /\ turn'[l].run = r) \/ turn'[l] = turn[l]
    BY <1>1, <2>2
  <2>6. ASSUME NEW n \in Ends'
        PROVE  \/ n \in Ends /\ out'[n] = out[n]
               \/ k \in Turns /\ out'[n].turn = k /\ turn'[k].run = r
    <3>1. n \in DOMAIN out' /\ out'[n].kind \in EndStatus
      BY <2>6 DEF Ends
    <3>2. CASE n \in DOMAIN out
      <4>1. out'[n] = out[n]
        BY <2>2, <3>2, Written
      <4> QED BY <3>1, <3>2, <4>1 DEF Ends
    <3>3. CASE n \notin DOMAIN out
      <4>1. PICK i \in DOMAIN m : out'[n] = m[i]
        BY <2>2, <3>1, <3>3, Written
      <4>2. k # 0 /\ out'[n].turn = k
        BY <2>2, <3>1, <4>1
      <4> QED BY <1>1, <2>2, <4>2
    <3> QED BY <3>2, <3>3
  <2>7. ASSUME NEW n \in Ends', NEW s, s = turn'[out'[n].turn].run PROVE WaitsFor(s)'
    <3>1. CASE n \in Ends /\ out'[n] = out[n]
      <4>1. out[n].turn \in Turns
        BY <3>1 DEF ServerInv, EndsOnce
      <4> QED BY <2>3, <2>4, <2>5, <2>7, <3>1, <4>1
    <3>2. CASE out'[n].turn = k /\ turn'[k].run = r
      BY <2>3, <2>4, <2>7, <3>2
    <3> QED BY <2>6, <2>7, <3>1, <3>2
  <2>8. ASSUME NEW l \in Turns, turn'[l].state = "busy", NEW s, s = turn'[l].run PROVE WaitsFor(s)'
    BY <2>3, <2>4, <2>5, <2>8
  <2>9. \A s \in asked' : WaitsFor(s)'
    BY <2>1, <2>3, <2>4
  <2> QED BY <2>7, <2>8, <2>9 DEF MatchInv
<1>18. ASSUME NEW k \in Turns, HandlesInterrupt(k) \/ TurnEnds(k) PROVE MatchInv'
  <2>1. UNCHANGED <<asked, active, left>>
    BY <1>18 DEF HandlesInterrupt, TurnEnds
  <2>2. CASE UNCHANGED <<turn, out>>
    BY <1>2, <2>1, <2>2 DEF WaitsFor
  <2>3. ASSUME turn[k].state = "busy", turn' = [turn EXCEPT ![k].state = "done"],
               NEW kind \in EndStatus, out' = Append(out, News(kind, k))
        PROVE  MatchInv'
    <3> SUFFICES ASSUME ~left PROVE MatchInv'
      BY <2>1 DEF MatchInv
    <3>1. /\ \A l \in Turns : turn[l].state = "busy" => WaitsFor(turn[l].run)
          /\ \A s \in asked : WaitsFor(s)
          /\ \A n \in Ends : WaitsFor(turn[out[n].turn].run)
      BY DEF MatchInv
    <3>2. \A s : WaitsFor(s)' <=> WaitsFor(s)
      BY <2>1 DEF WaitsFor
    <3>3. \A l \in Turns : /\ turn'[l].run = turn[l].run
                           /\ turn'[l].state = "busy" => turn[l].state = "busy"
      BY <1>1, <2>3 DEF TurnType
    <3>4. News(kind, k) \in MessageType /\ News(kind, k).turn = k
      BY MessageValues DEF News, EndStatus
    <3>5. ASSUME NEW n \in Ends' PROVE (n \in Ends /\ out'[n] = out[n]) \/ out'[n].turn = k
      <4>1. out' = out \o <<News(kind, k)>> /\ <<News(kind, k)>> \in Seq(MessageType)
        BY <1>1, <2>3, <3>4
      <4>2. n \in DOMAIN out' /\ out'[n].kind \in EndStatus
        BY <3>5 DEF Ends
      <4>3. CASE n \in DOMAIN out
        BY <4>1, <4>2, <4>3, Written DEF Ends
      <4>4. CASE n \notin DOMAIN out
        <5>1. PICK i \in DOMAIN <<News(kind, k)>> : out'[n] = <<News(kind, k)>>[i]
          BY <4>1, <4>2, <4>4, Written
        <5> QED BY <3>4, <5>1
      <4> QED BY <4>3, <4>4
    <3>6. ASSUME NEW n \in Ends', NEW s, s = turn'[out'[n].turn].run PROVE WaitsFor(s)'
      <4>1. CASE n \in Ends /\ out'[n] = out[n]
        <5>1. out[n].turn \in Turns
          BY <4>1 DEF ServerInv, EndsOnce
        <5> QED BY <3>1, <3>2, <3>3, <3>6, <4>1, <5>1
      <4>2. CASE out'[n].turn = k
        BY <2>3, <3>1, <3>2, <3>3, <3>6, <4>2
      <4> QED BY <3>5, <3>6, <4>1, <4>2
    <3>7. ASSUME NEW l \in Turns, turn'[l].state = "busy", NEW s, s = turn'[l].run
          PROVE  WaitsFor(s)'
      BY <3>1, <3>2, <3>3, <3>7
    <3> QED BY <2>1, <3>1, <3>2, <3>6, <3>7 DEF MatchInv
  <2> QED BY <1>18, <2>2, <2>3 DEF HandlesInterrupt, TurnEnds, EndStatus
<1>19. CASE ServerExits
  BY <1>6, <1>19 DEF ServerExits
<1>20. CASE BridgeBreaks
  BY <1>3, <1>20 DEF BridgeBreaks
<1>21. CASE ReadAnswer
  <2>1. UNCHANGED <<asked, turn, left>> /\ Reads("answer")
    BY <1>21 DEF ReadAnswer
  <2>2. out # <<>> /\ out' = Tail(out)
    BY <2>1 DEF Reads
  <2>0. PICK r, k : r = Head(out).run /\ k = Head(out).turn
    OBVIOUS
  <2>3. \/ active' = active
        \/ \E q \in Calls : /\ At(q, "turn") /\ call[q].run = r
                            /\ \/ IsActive(r) /\ active' = [active EXCEPT ![r].turn = k]
                               \/ k = 0 /\ Finish(r, "failed")
    BY <1>21, <2>0 DEF ReadAnswer
  <2>4. k = 0 => Spared(r)'
    BY <2>0, <2>1, Refused
  <2>5. ASSUME NEW s \in Runs, WaitsFor(s) PROVE WaitsFor(s)' \/ Spared(s)'
    <3>1. CASE active' = active
      BY <2>5, <3>1 DEF WaitsFor
    <3>2. ASSUME NEW q \in Calls, At(q, "turn"), call[q].run = r PROVE r \in Runs
      BY <3>2 DEF At, Waiting
    <3>3. CASE r \in Runs /\ active' = [active EXCEPT ![r].turn = k]
      BY <1>1, <2>5, <3>3 DEF WaitsFor, EntryType
    <3>4. CASE r \in Runs /\ k = 0 /\ Finish(r, "failed")
      BY <2>4, <2>5, <3>4, FinishEntries DEF WaitsFor
    <3> QED BY <2>3, <3>1, <3>2, <3>3, <3>4
  <2> QED BY <1>2, <2>1, <2>2, <2>5
<1>22. CASE ReadStarted
  <2>1. \A s \in Runs : active'[s].kind = active[s].kind
    BY <1>1, <1>22 DEF ReadStarted, EntryType
  <2>2. out # <<>> /\ out' = Tail(out)
    BY <1>22 DEF ReadStarted, Reads
  <2> QED BY <1>2, <1>22, <2>1, <2>2 DEF ReadStarted, WaitsFor
<1>23. ASSUME NEW kind \in {"completed", "failed", "interrupted"}, ReadEnd(kind) PROVE MatchInv'
  <2>1. UNCHANGED <<asked, turn, left>> /\ Reads(kind) /\ kind \in EndStatus
    BY <1>23 DEF ReadEnd, EndStatus
  <2>2. out # <<>> /\ out' = Tail(out) /\ Head(out).kind = kind
    BY <2>1 DEF Reads
  <2> SUFFICES ASSUME ~left PROVE MatchInv'
    BY <2>1 DEF MatchInv
  <2>0. PICK k, h : k = Head(out).turn /\ h = turn[k].run
    OBVIOUS
  <2>3. WaitsFor(h) /\ h \in Runs
    <3>1. 1 \in Ends /\ out[1] = Head(out)
      BY <1>1, <2>1, <2>2, TailPlaces DEF Ends
    <3>2. WaitsFor(turn[out[1].turn].run)
      BY <3>1 DEF MatchInv
    <3>3. out[1].turn \in Turns /\ turn[out[1].turn].state = "done"
      BY <3>1 DEF ServerInv, EndsOnce
    <3> QED BY <2>0, <3>1, <3>2, <3>3 DEF ServerInv, TurnsExist
  <2>4. Spared(h)'
    BY <2>0, <2>1, EndIsRead
  <2>5. active' = active \/ \E r \in Runs, status \in EndStatus : Listening(r) /\ Finish(r, status)
    BY <1>23 DEF ReadEnd, EndStatus
  <2>6. ASSUME NEW r \in Runs, NEW status \in EndStatus, Listening(r), Finish(r, status),
               NEW s \in Runs, WaitsFor(s)
        PROVE  WaitsFor(s)' \/ Spared(s)'
    <3>1. WaitsFor(r)
      BY <2>6 DEF Listening, WaitsFor
    <3>2. r = h
      BY <1>4, <2>3, <3>1 DEF RunningIsWatched
    <3>3. CASE s = r
      BY <2>4, <3>2, <3>3
    <3>4. CASE s # r
      BY <2>6, <3>4, FinishEntries DEF WaitsFor
    <3> QED BY <3>3, <3>4
  <2>7. \A s \in Runs : WaitsFor(s) => WaitsFor(s)' \/ Spared(s)'
    BY <2>5, <2>6 DEF WaitsFor
  <2> QED BY <1>2, <2>1, <2>2, <2>7
<1>24. CASE Restart
  BY <1>3, <1>6, <1>24 DEF Restart
<1>25. CASE UNCHANGED vars
  BY <1>2, <1>25 DEF vars, WaitsFor
<1> QED BY <1>7, <1>8, <1>9, <1>10, <1>11, <1>12, <1>13, <1>14, <1>15, <1>16, <1>17,
           <1>18, <1>19, <1>20, <1>21, <1>22, <1>23, <1>24, <1>25
           DEF Next, Request, Continuation, Stopping, Reading, Server

\* At the start nothing was asked for.
LEMMA MatchInitially == Init => ServerInv /\ MatchInv
<1> SUFFICES ASSUME Init PROVE ServerInv /\ MatchInv
  OBVIOUS
<1>1. \A k \in Turns : turn[k].state = "none"
  BY DEF Init
<1>2. Answers = {} /\ Ends = {}
  BY DEF Init, Answers, Ends
<1>3. asked = {}
  BY DEF Init
<1> QED BY <1>1, <1>2, <1>3 DEF ServerInv, TurnsExist, OneTurn, AskedOnce, Answered, EndsOnce, MatchInv

\* As long as no turn was left to itself, every turn that the app-server runs, or was
\* asked for, belongs to a run that waits for it (#handleAppServerNotification).
THEOREM TurnsMatchRunsHolds == Spec => []TurnsMatchRuns
<1>1. Init => IInv /\ ServerInv /\ MatchInv
  BY Initially, MatchInitially
<1>2. IInv /\ (ServerInv /\ MatchInv) /\ [Next]_vars => (ServerInv /\ MatchInv)'
  BY ServerStep, MatchStep DEF IInv
<1>3. IInv /\ (ServerInv /\ MatchInv) => TurnsMatchRuns
  <2> SUFFICES ASSUME ServerInv, MatchInv PROVE TurnsMatchRuns
    OBVIOUS
  <2>1. \A r : WaitsFor(r) => IsActive(r)
    BY NoEntryValue DEF WaitsFor, IsActive
  <2> QED BY <2>1 DEF MatchInv, TurnsMatchRuns
<1> QED BY <1>1, <1>2, <1>3, InvariantHolds, PTL DEF Spec

=============================================================================
