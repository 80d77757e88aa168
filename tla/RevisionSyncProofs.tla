--------------------------- MODULE RevisionSyncProofs ---------------------------
(***************************************************************************)
(* Theorems about the revision client, for any number of changes: a board  *)
(* shown as live is not behind, and its data is as new as what it counts   *)
(* from.                                                                   *)
(***************************************************************************)
EXTENDS RevisionSync, SequenceTheorems, TLAPS

USE RevisionAssumption DEF Revisions

\* A push that is appended is one of the pushes on their way, and so are the others.
LEMMA Pushed ==
  ASSUME queue \in Seq(Revisions), NEW v \in Revisions
  PROVE  /\ Append(queue, v) \in Seq(Revisions)
         /\ Contains(Append(queue, v), v)
         /\ \A n : Contains(queue, n) => Contains(Append(queue, v), n)
<1> DEFINE s == Append(queue, v)
<1>1. s \in Seq(Revisions) /\ Len(s) = Len(queue) + 1 /\ Len(queue) \in Nat
  BY AppendProperties
<1>2. s[Len(s)] = v /\ \A i \in 1 .. Len(queue) : s[i] = queue[i]
  BY AppendProperties
<1> HIDE DEF s
<1>3. Contains(s, v) /\ \A n : Contains(queue, n) => Contains(s, n)
  <2>1. Len(s) \in 1 .. Len(s) /\ \A i \in 1 .. Len(queue) : i \in 1 .. Len(s)
    BY <1>1
  <2>2. Contains(s, v)
    BY <1>2, <2>1 DEF Contains
  <2>3. ASSUME NEW n, Contains(queue, n) PROVE Contains(s, n)
    BY <1>2, <2>1, <2>3 DEF Contains
  <2> QED BY <2>2, <2>3
<1> QED BY <1>1, <1>3 DEF s

\* The first push is taken off; the others are still on their way.
LEMMA Popped ==
  ASSUME queue \in Seq(Revisions), queue # <<>>
  PROVE  /\ Tail(queue) \in Seq(Revisions) /\ Head(queue) \in Revisions
         /\ \A n : Contains(queue, n) => n = Head(queue) \/ Contains(Tail(queue), n)
         /\ \A n : Contains(Tail(queue), n) => Contains(queue, n)
<1> DEFINE s == Tail(queue)
<1>1. s \in Seq(Revisions) /\ Head(queue) \in Revisions
  BY HeadTailProperties
<1>2. Len(s) = Len(queue) - 1 /\ Len(queue) \in Nat
  BY HeadTailProperties
<1>3. \A i \in 1 .. Len(s) : s[i] = queue[i + 1]
  BY HeadTailProperties
<1>4. Head(queue) = queue[1]
  OBVIOUS
<1> HIDE DEF s
<1>5. ASSUME NEW n, Contains(queue, n) PROVE n = Head(queue) \/ Contains(s, n)
  <2>1. PICK i \in 1 .. Len(queue) : queue[i] = n
    BY <1>5 DEF Contains
  <2>2. CASE i # 1
    <3>1. i - 1 \in 1 .. Len(s) /\ s[i - 1] = n
      BY <1>2, <1>3, <2>1, <2>2
    <3> QED BY <3>1 DEF Contains
  <2> QED BY <1>4, <2>1, <2>2
<1>6. ASSUME NEW n, Contains(s, n) PROVE Contains(queue, n)
  <2>1. PICK i \in 1 .. Len(s) : s[i] = n
    BY <1>6 DEF Contains
  <2>2. i + 1 \in 1 .. Len(queue) /\ queue[i + 1] = n
    BY <1>2, <1>3, <2>1
  <2> QED BY <2>2 DEF Contains
<1> QED BY <1>1, <1>5, <1>6 DEF s

-----------------------------------------------------------------------------
(* Types *)

CheckType == [state : {"none", "sent", "read"}, value : Revisions, current : BOOLEAN]

\* The values of a request for the revision
LEMMA CheckValues == NoCheck \in CheckType /\ Asked \in CheckType
<1>1. NoCheck \in CheckType
  BY DEF NoCheck, CheckType
<1>2. Asked \in CheckType
  <2>1. (transport = "websocket") \in BOOLEAN
    OBVIOUS
  <2> QED BY <2>1 DEF Asked, CheckType
<1> QED BY <1>1, <1>2

\* Every variable keeps its type.
LEMMA TypeStep == TypeOK /\ [Next]_vars => TypeOK'
<1> SUFFICES ASSUME TypeOK, [Next]_vars PROVE TypeOK'
  OBVIOUS
<1> USE DEF TypeOK, cloud, socket, client
<1>1. NoCheck \in CheckType /\ Asked \in CheckType /\ check \in CheckType
  BY CheckValues DEF CheckType
<1>2. <<>> \in Seq(Revisions)
  OBVIOUS
<1>3. ASSUME NEW v \in Revisions PROVE Larger(known, v) \in Revisions
  BY DEF Larger
<1>4. CASE Commit
  BY <1>4 DEF Commit
<1>5. CASE Attach \/ Upgrade
  BY <1>5 DEF Attach, Upgrade
<1>6. CASE Break
  BY <1>2, <1>6 DEF Break
<1>7. ASSUME NEW n \in Revisions, NEW read \in Revisions, Broadcast(n, read) PROVE TypeOK'
  BY <1>7, Pushed DEF Broadcast
<1>8. ASSUME NEW n \in Revisions, BroadcastFails(n) PROVE TypeOK'
  BY <1>8 DEF BroadcastFails
<1>9. CASE Start
  BY <1>1, <1>9 DEF Start, CheckType
<1>10. CASE Stop
  BY <1>2, <1>10 DEF Stop
<1>11. CASE Poll
  BY <1>1, <1>11 DEF Poll, CheckType
<1>12. CASE Opened
  BY <1>1, <1>2, <1>12 DEF Opened, OnOpen, CheckType
<1>13. CASE OnMessage
  BY <1>3, <1>13, Popped DEF OnMessage, Learn
<1>14. CASE OnClose
  BY <1>14 DEF OnClose
<1>15. CASE Reconnect
  BY <1>15 DEF Reconnect
<1>16. CASE CheckRead
  BY <1>16 DEF CheckRead
<1>17. CASE CheckAnswered
  <2>1. known' \in Revisions /\ viewed' \in Revisions
    BY <1>1, <1>3, <1>17 DEF CheckAnswered, Take, Learn, CheckType
  <2>2. check' \in CheckType
    BY <1>1, <1>17 DEF CheckAnswered
  <2>3. live' \in BOOLEAN
    BY <1>17 DEF CheckAnswered
  <2> QED BY <1>17, <2>1, <2>2, <2>3 DEF CheckAnswered, CheckType
<1>18. CASE CheckFailed
  <2>1. check' \in CheckType
    BY <1>1, <1>18 DEF CheckFailed, Released
  <2>2. link' \in {link, "dead"} /\ queue' \in {queue, <<>>}
    BY <1>18 DEF CheckFailed, GiveUp
  <2> QED BY <1>2, <1>18, <2>1, <2>2 DEF CheckFailed, CheckType
<1>19. CASE UNCHANGED vars
  BY <1>19 DEF vars
<1> QED BY <1>4, <1>5, <1>6, <1>7, <1>8, <1>9, <1>10, <1>11, <1>12, <1>13, <1>14, <1>15, <1>16,
           <1>17, <1>18, <1>19 DEF Next

\* The types hold, for any number of changes.
THEOREM TypeCorrect == Spec => []TypeOK
<1>1. Init => TypeOK
  <2>1. NoCheck \in CheckType /\ <<>> \in Seq(Revisions) /\ 0 \in Revisions
    BY CheckValues
  <2> QED BY <2>1 DEF Init, TypeOK, CheckType
<1> QED BY <1>1, TypeStep, PTL DEF Spec

-----------------------------------------------------------------------------
(* The connection *)

\* How the parts of the client go together: a reconnect waits only while there is no
\* socket, sockets belong to a client that runs, a check that counts belongs to a
\* socket that opened, and a socket that has not opened is not shown as live.
Sound ==
  /\ timer => running /\ link = "none"
  /\ link # "none" => running
  /\ check.current => link \in {"ready", "dead"}
  /\ link \in {"dialing", "attached", "open"} => ~live

\* Every step keeps it.
LEMMA SoundStep == TypeOK /\ Sound /\ [Next]_vars => Sound'
<1> SUFFICES ASSUME TypeOK, Sound, [Next]_vars PROVE Sound'
  OBVIOUS
<1> USE DEF Sound, cloud, socket, client
<1>1. check \in CheckType
  BY DEF TypeOK, CheckType
<1>2. NoCheck.current = FALSE /\ (Asked.current <=> transport = "websocket")
  BY DEF NoCheck, Asked
<1>3. CASE Commit
  BY <1>3 DEF Commit
<1>4. CASE Attach \/ Upgrade \/ Break
  BY <1>4 DEF Attach, Upgrade, Break
<1>5. ASSUME NEW n \in Revisions, NEW read \in Revisions, Broadcast(n, read) PROVE Sound'
  BY <1>5 DEF Broadcast
<1>6. ASSUME NEW n \in Revisions, BroadcastFails(n) PROVE Sound'
  BY <1>6 DEF BroadcastFails
<1>7. CASE Start
  BY <1>2, <1>7 DEF Start, TypeOK
<1>8. CASE Stop
  BY <1>1, <1>8 DEF Stop, CheckType
<1>9. CASE Poll
  BY <1>2, <1>9 DEF Poll
<1>10. CASE Opened
  BY <1>10 DEF Opened, OnOpen
<1>11. CASE OnMessage
  BY <1>11 DEF OnMessage
<1>12. CASE OnClose
  BY <1>1, <1>12 DEF OnClose, CheckType
<1>13. CASE Reconnect
  BY <1>13 DEF Reconnect
<1>14. CASE CheckRead
  BY <1>1, <1>14 DEF CheckRead, CheckType
<1>15. CASE CheckAnswered
  BY <1>2, <1>15 DEF CheckAnswered
<1>16. CASE CheckFailed
  BY <1>2, <1>16 DEF CheckFailed, GiveUp, Released
<1>17. CASE UNCHANGED vars
  BY <1>17 DEF vars
<1> QED BY <1>3, <1>4, <1>5, <1>6, <1>7, <1>8, <1>9, <1>10, <1>11, <1>12, <1>13, <1>14, <1>15,
           <1>16, <1>17 DEF Next

\* What is on its way is not newer than the cloud, what was shown not older than what
\* the client counts from.
Ordered ==
  /\ ViewIsKnown
  /\ viewed <= rev /\ known <= rev /\ check.value <= rev
  /\ \A n \in Revisions : Contains(queue, n) => n <= rev

\* A client that counts from v knows of the newest change, or its push is still to
\* be made, failed, or on its way.
Accounted(v) == v >= rev \/ rev \in lost \cup due \/ Contains(queue, rev)

\* A live board is not behind, and the answer to the check that will make it live
\* does not leave it behind.
Current ==
  /\ LiveIsCurrent
  /\ check.current /\ check.state = "read" /\ link = "ready" => Accounted(known) \/ check.value >= rev

\* The pushes of an empty queue
LEMMA NoPush == \A n : ~Contains(<<>>, n)
BY DEF Contains

\* What the client learns
LEMMA Learnt ==
  ASSUME TypeOK, NEW v \in Revisions, v <= rev, Ordered, Learn(v), UNCHANGED rev
  PROVE  /\ known' >= known /\ known' >= v /\ known' \in Revisions /\ known' <= rev
         /\ viewed' >= known' /\ viewed' <= rev
BY DEF TypeOK, Learn, Larger, Ordered, ViewIsKnown

\* Every step keeps the order.
LEMMA OrderedStep == TypeOK /\ Ordered /\ [Next]_vars => Ordered'
<1> SUFFICES ASSUME TypeOK, Ordered, [Next]_vars PROVE Ordered'
  OBVIOUS
<1> USE DEF cloud, socket, client
<1>1. /\ rev \in Nat /\ known \in Nat /\ viewed \in Nat
      /\ check \in CheckType /\ check.value \in Nat /\ queue \in Seq(Revisions)
  BY DEF TypeOK, CheckType
<1>2. viewed >= known /\ viewed <= rev /\ known <= rev /\ check.value <= rev
  BY DEF Ordered, ViewIsKnown
<1>3. \A n \in Revisions : Contains(queue, n) => n <= rev
  BY DEF Ordered
<1>4. NoCheck.value = 0 /\ Asked.value = 0
  BY DEF NoCheck, Asked
<1>5. ASSUME rev' \in Nat, rev' >= rev, UNCHANGED <<known, viewed>>,
             check'.value \in {0, check.value}, queue' \in {queue, <<>>}
      PROVE  Ordered'
  <2>1. viewed' >= known' /\ viewed' <= rev' /\ known' <= rev' /\ check'.value <= rev'
    BY <1>1, <1>2, <1>5
  <2>2. ASSUME NEW n \in Revisions, Contains(queue', n) PROVE n <= rev'
    BY <1>1, <1>3, <1>5, <2>2, NoPush
  <2> QED BY <2>1, <2>2 DEF Ordered, ViewIsKnown
<1>6. ASSUME UNCHANGED <<rev, check, known, viewed, queue>> PROVE Ordered'
  BY <1>1, <1>5, <1>6
<1>7. CASE Commit
  BY <1>1, <1>5, <1>7 DEF Commit
<1>8. CASE Attach \/ Upgrade
  BY <1>6, <1>8 DEF Attach, Upgrade
<1>9. CASE Break
  BY <1>1, <1>5, <1>9 DEF Break
<1>10. ASSUME NEW n \in Revisions, NEW read \in Revisions, Broadcast(n, read) PROVE Ordered'
  <2>1. read <= rev /\ UNCHANGED <<rev, check, known, viewed>>
    BY <1>1, <1>10 DEF Broadcast
  <2>2. queue' \in {queue, Append(queue, read)}
    BY <1>10 DEF Broadcast
  <2>3. ASSUME NEW k \in Revisions, Contains(Append(queue, read), k) PROVE k <= rev
    <3>1. \A i \in 1 .. Len(queue) : Append(queue, read)[i] = queue[i]
      BY <1>1, AppendProperties
    <3>2. Len(Append(queue, read)) = Len(queue) + 1 /\ Len(queue) \in Nat
      BY <1>1, AppendProperties
    <3>3. Append(queue, read)[Len(queue) + 1] = read
      BY <1>1, AppendProperties
    <3>4. PICK i \in 1 .. Len(queue) + 1 : Append(queue, read)[i] = k
      BY <2>3, <3>2 DEF Contains
    <3>5. CASE i = Len(queue) + 1
      BY <2>1, <3>3, <3>4, <3>5
    <3>6. CASE i # Len(queue) + 1
      <4>1. i \in 1 .. Len(queue) /\ queue[i] = k
        BY <3>1, <3>2, <3>4, <3>6
      <4> QED BY <1>3, <4>1 DEF Contains
    <3> QED BY <3>5, <3>6
  <2>4. ASSUME NEW k \in Revisions, Contains(queue', k) PROVE k <= rev'
    BY <1>3, <2>1, <2>2, <2>3, <2>4
  <2> QED BY <1>1, <1>2, <2>1, <2>4 DEF Ordered, ViewIsKnown
<1>11. ASSUME NEW n \in Revisions, BroadcastFails(n) PROVE Ordered'
  BY <1>6, <1>11 DEF BroadcastFails
<1>12. CASE Start
  BY <1>1, <1>4, <1>5, <1>12 DEF Start
<1>13. CASE Stop
  <2>1. check'.value = check.value
    BY <1>1, <1>13 DEF Stop, CheckType
  <2> QED BY <1>1, <1>5, <1>13, <2>1 DEF Stop
<1>14. CASE Poll
  BY <1>1, <1>4, <1>5, <1>14 DEF Poll
<1>15. CASE Opened
  BY <1>1, <1>4, <1>5, <1>15 DEF Opened, OnOpen
<1>16. CASE OnMessage
  <2>1. UNCHANGED <<rev, check>> /\ Learn(Head(queue)) /\ queue' = Tail(queue) /\ queue # <<>>
    BY <1>16 DEF OnMessage
  <2>2. /\ Head(queue) \in Revisions /\ Contains(queue, Head(queue))
        /\ \A n : Contains(Tail(queue), n) => Contains(queue, n)
    <3>1. Len(queue) \in Nat /\ Len(queue) # 0 /\ Head(queue) = queue[1]
      BY <1>1, <2>1, LenProperties, EmptySeq
    <3> QED BY <1>1, <2>1, <3>1, Popped DEF Contains
  <2>3. Head(queue) <= rev
    BY <1>3, <2>2
  <2>4. viewed' >= known' /\ viewed' <= rev /\ known' <= rev
    BY <2>1, <2>2, <2>3, Learnt
  <2>5. \A n \in Revisions : Contains(queue', n) => n <= rev'
    BY <1>3, <2>1, <2>2
  <2> QED BY <1>2, <2>1, <2>4, <2>5 DEF Ordered, ViewIsKnown
<1>17. CASE OnClose
  <2>1. check'.value = check.value
    BY <1>1, <1>17 DEF OnClose, CheckType
  <2> QED BY <1>1, <1>5, <1>17, <2>1 DEF OnClose
<1>18. CASE Reconnect
  BY <1>6, <1>18 DEF Reconnect
<1>19. CASE CheckRead
  <2>1. check'.value = rev
    BY <1>1, <1>19 DEF CheckRead, CheckType
  <2>2. UNCHANGED <<rev, known, viewed, queue>>
    BY <1>19 DEF CheckRead
  <2> QED BY <1>1, <1>2, <1>3, <2>1, <2>2 DEF Ordered, ViewIsKnown
<1>20. CASE CheckAnswered
  <2>1. check'.value = 0 /\ UNCHANGED <<rev, queue>>
    BY <1>4, <1>20 DEF CheckAnswered
  <2>2. check.value \in Revisions
    BY <1>1 DEF CheckType
  <2>3. viewed' >= known' /\ viewed' <= rev /\ known' <= rev
    BY <1>1, <1>2, <1>20, <2>1, <2>2, Learnt DEF CheckAnswered, Take
  <2> QED BY <1>1, <1>3, <2>1, <2>3 DEF Ordered, ViewIsKnown
<1>21. CASE CheckFailed
  BY <1>1, <1>4, <1>5, <1>21 DEF CheckFailed, GiveUp, Released
<1>22. CASE UNCHANGED vars
  BY <1>6, <1>22 DEF vars
<1> QED BY <1>7, <1>8, <1>9, <1>10, <1>11, <1>12, <1>13, <1>14, <1>15, <1>16, <1>17, <1>18, <1>19,
           <1>20, <1>21, <1>22 DEF Next

-----------------------------------------------------------------------------
(* A live board *)

\* What accounts for the newest change stays, while the revision does.
LEMMA StaysAccounted ==
  ASSUME TypeOK, UNCHANGED rev, known' \in Nat, known' >= known,
         rev \in lost \cup due => rev \in lost' \cup due' \/ Contains(queue', rev),
         Contains(queue, rev) => Contains(queue', rev) \/ known' >= rev,
         Accounted(known)
  PROVE  Accounted(known)'
BY DEF TypeOK, Accounted

\* Every step keeps a live board accounted for.
LEMMA CurrentStep == TypeOK /\ Sound /\ Ordered /\ Current /\ [Next]_vars => Current'
<1> SUFFICES ASSUME TypeOK, Sound, Ordered, Current, [Next]_vars PROVE Current'
  OBVIOUS
<1> USE DEF cloud, socket, client
<1>1. /\ rev \in Nat /\ known \in Nat /\ check \in CheckType /\ check.value \in Nat
      /\ queue \in Seq(Revisions) /\ check.value <= rev
  BY DEF TypeOK, CheckType, Ordered
<1>2. live /\ link = "ready" => Accounted(known)
  BY DEF Current, LiveIsCurrent, Accounted
<1>3. check.current /\ check.state = "read" /\ link = "ready" =>
        Accounted(known) \/ check.value >= rev
  BY DEF Current
<1>4. ASSUME live' /\ link' = "ready" => Accounted(known)',
             check'.current /\ check'.state = "read" /\ link' = "ready" =>
               Accounted(known)' \/ check'.value >= rev'
      PROVE  Current'
  BY <1>4 DEF Current, LiveIsCurrent, Accounted
<1>5. NoCheck.state = "none" /\ Asked.state = "sent"
  BY DEF NoCheck, Asked
<1>6. ASSUME link' # "ready" PROVE Current'
  BY <1>4, <1>6
<1>7. ASSUME UNCHANGED <<rev, due, lost, queue, known>>, live' => live, link' = link,
             check' \in {check, NoCheck, Asked}
      PROVE  Current'
  <2>1. Accounted(known)' <=> Accounted(known)
    BY <1>7 DEF Accounted
  <2> QED BY <1>2, <1>3, <1>4, <1>5, <1>7, <2>1
<1>8. CASE Commit
  <2>1. rev' = rev + 1 /\ rev' \in due'
    BY <1>8 DEF Commit
  <2>2. Accounted(known)'
    BY <2>1 DEF Accounted
  <2> QED BY <1>4, <2>2
<1>9. CASE Attach \/ Upgrade \/ Break
  BY <1>6, <1>9 DEF Attach, Upgrade, Break
<1>10. ASSUME NEW n \in Revisions, NEW read \in Revisions, Broadcast(n, read), link = "ready"
       PROVE  Current'
  <2>1. /\ n \in due /\ read \in n .. rev /\ due' = due \ {n} /\ queue' = Append(queue, read)
        /\ UNCHANGED <<rev, lost, link, known, check, live>>
    BY <1>10 DEF Broadcast
  <2>2. n = rev => read = rev
    BY <1>1, <2>1
  <2>3. rev \in lost \cup due => rev \in lost' \cup due' \/ Contains(queue', rev)
    <3>1. CASE n = rev
      BY <1>1, <2>1, <2>2, <3>1, Pushed
    <3>2. CASE n # rev
      BY <2>1, <3>2
    <3> QED BY <3>1, <3>2
  <2>4. Contains(queue, rev) => Contains(queue', rev)
    BY <1>1, <2>1, Pushed
  <2>5. Accounted(known) => Accounted(known)'
    BY <1>1, <2>1, <2>3, <2>4, StaysAccounted
  <2> QED BY <1>2, <1>3, <1>4, <2>1, <2>5
<1>11. ASSUME NEW n \in Revisions, NEW read \in Revisions, Broadcast(n, read) PROVE Current'
  BY <1>6, <1>10, <1>11 DEF Broadcast
<1>12. ASSUME NEW n \in Revisions, BroadcastFails(n) PROVE Current'
  <2>1. UNCHANGED <<rev, queue, known, live, link, check>> /\ lost' \cup due' = lost \cup due
    BY <1>12 DEF BroadcastFails
  <2>2. Accounted(known)' <=> Accounted(known)
    BY <2>1 DEF Accounted
  <2> QED BY <1>2, <1>3, <1>4, <2>1, <2>2
<1>13. CASE Start
  BY <1>6, <1>13 DEF Start, Sound
<1>14. CASE Stop
  BY <1>6, <1>14 DEF Stop
<1>15. CASE Poll
  BY <1>7, <1>15 DEF Poll
<1>16. CASE Opened
  <2>1. ~live /\ UNCHANGED live
    BY <1>16 DEF Opened, OnOpen, Sound, TypeOK
  <2>2. CASE link' = "ready"
    BY <1>4, <1>5, <1>16, <2>1, <2>2 DEF Opened, OnOpen
  <2> QED BY <1>6, <2>2
<1>17. CASE OnMessage
  <2>1. /\ UNCHANGED <<rev, due, lost, link, check, live>> /\ Learn(Head(queue))
        /\ queue' = Tail(queue) /\ queue # <<>>
    BY <1>17 DEF OnMessage
  <2>2. Head(queue) \in Revisions
    BY <1>1, <2>1, Popped
  <2>3. known' \in Nat /\ known' >= known /\ known' >= Head(queue)
    BY <1>1, <2>1, <2>2 DEF Learn, Larger
  <2>4. Contains(queue, rev) => Contains(queue', rev) \/ known' >= rev
    BY <1>1, <2>1, <2>3, Popped
  <2>5. Accounted(known) => Accounted(known)'
    BY <2>1, <2>3, <2>4, StaysAccounted
  <2> QED BY <1>2, <1>3, <1>4, <2>1, <2>5
<1>18. CASE OnClose
  BY <1>6, <1>18 DEF OnClose
<1>19. CASE Reconnect
  BY <1>6, <1>19 DEF Reconnect
<1>20. CASE CheckRead
  <2>1. check'.value = rev /\ UNCHANGED <<rev, due, lost, queue, known, live, link>>
    BY <1>1, <1>20 DEF CheckRead, CheckType
  <2>2. Accounted(known)' <=> Accounted(known)
    BY <2>1 DEF Accounted
  <2> QED BY <1>1, <1>2, <1>4, <2>1, <2>2
<1>21. CASE CheckAnswered
  <2>1. /\ UNCHANGED <<rev, due, lost, link, queue>> /\ check.state = "read" /\ check' = NoCheck
        /\ Take(check.value)
        /\ live' = (live \/ (running /\ check.current))
    BY <1>21 DEF CheckAnswered
  <2>2. known' \in Nat /\ known' >= known /\ (running => known' >= check.value)
    BY <1>1, <2>1 DEF Take, Learn, Larger
  <2>3. Accounted(known) => Accounted(known)'
    BY <2>1, <2>2, StaysAccounted
  <2>4. live' /\ link' = "ready" => Accounted(known)'
    <3>1. CASE live
      BY <1>2, <2>1, <2>3, <3>1
    <3>2. CASE running /\ check.current /\ link = "ready" /\ check.value >= rev
      BY <1>1, <2>1, <2>2, <3>2 DEF Accounted
    <3>3. CASE running /\ check.current /\ link = "ready" /\ ~(check.value >= rev)
      BY <1>3, <2>1, <2>3, <3>3
    <3> QED BY <2>1, <3>1, <3>2, <3>3
  <2> QED BY <1>4, <1>5, <2>1, <2>4
<1>22. CASE CheckFailed
  BY <1>6, <1>7, <1>22 DEF CheckFailed, GiveUp, Released
<1>23. CASE UNCHANGED vars
  BY <1>7, <1>23 DEF vars
<1> QED BY <1>8, <1>9, <1>11, <1>12, <1>13, <1>14, <1>15, <1>16, <1>17, <1>18, <1>19, <1>20, <1>21,
           <1>22, <1>23 DEF Next

\* What holds of every reachable state
IInv == TypeOK /\ Sound /\ Ordered /\ Current

THEOREM InvariantHolds == Spec => []IInv
<1>1. Init => IInv
  <2>1. NoCheck \in CheckType /\ NoCheck.value = 0 /\ ~NoCheck.current /\ <<>> \in Seq(Revisions)
    BY CheckValues DEF NoCheck
  <2>2. Init => TypeOK
    BY <2>1 DEF Init, TypeOK, CheckType
  <2>3. Init => Sound
    BY <2>1 DEF Init, Sound
  <2>4. Init => Ordered
    BY <2>1, NoPush DEF Init, Ordered, ViewIsKnown
  <2>5. Init => Current
    BY DEF Init, Current, LiveIsCurrent
  <2> QED BY <2>2, <2>3, <2>4, <2>5 DEF IInv
<1>2. IInv /\ [Next]_vars => IInv'
  BY TypeStep, SoundStep, OrderedStep, CurrentStep DEF IInv
<1> QED BY <1>1, <1>2, PTL DEF Spec

\* A board shown as live is not behind: a push that is late, overtaken or raced by a
\* check never leaves it at an older revision with nothing on its way.
THEOREM LiveIsCurrentHolds == Spec => []LiveIsCurrent
<1>1. IInv => LiveIsCurrent
  BY DEF IInv, Current
<1> QED BY <1>1, InvariantHolds, PTL

\* The data of the view is as new as the revision the client counts from.
THEOREM ViewIsKnownHolds == Spec => []ViewIsKnown
<1>1. IInv => ViewIsKnown
  BY DEF IInv, Ordered
<1> QED BY <1>1, InvariantHolds, PTL

\* An answer that comes after a newer push does not turn the client back.
THEOREM KnownGrowsHolds == Spec => KnownGrows
<1>1. TypeOK /\ [Next]_vars => [known' >= known]_known
  <2> SUFFICES ASSUME TypeOK, Next, ~UNCHANGED known PROVE known' >= known
    BY DEF vars
  <2>1. known \in Nat /\ check.value \in Nat /\ queue \in Seq(Revisions)
    BY DEF TypeOK
  <2>2. \/ CheckAnswered
        \/ OnMessage
    BY DEF Next, Commit, Attach, Upgrade, Break, BroadcastFails, Broadcast, Start, Stop, Poll, Opened,
           OnClose, Reconnect, CheckRead, CheckFailed, client
  <2>3. ASSUME OnMessage PROVE Head(queue) \in Nat
    BY <2>1, <2>3, Popped DEF OnMessage
  <2> QED BY <2>1, <2>2, <2>3 DEF CheckAnswered, OnMessage, Take, Learn, Larger
<1> QED BY <1>1, TypeCorrect, PTL DEF Spec, KnownGrows

\* A board that was left is not loaded again by what was in flight.
THEOREM StoppedLoadsNothingHolds == Spec => StoppedLoadsNothing
<1>1. IInv /\ [Next]_vars => [~running => viewed' = viewed]_viewed
  <2> SUFFICES ASSUME Sound, Next, ~running PROVE viewed' = viewed
    BY DEF vars, IInv
  <2>1. ~OnMessage
    BY DEF OnMessage, Sound
  <2> QED BY <2>1 DEF Next, Commit, Attach, Upgrade, Break, BroadcastFails, Broadcast, Start, Stop, Poll,
           Opened, OnClose, Reconnect, CheckRead, CheckFailed, CheckAnswered, Take, client
<1> QED BY <1>1, InvariantHolds, PTL DEF Spec, StoppedLoadsNothing
===============================================================================
