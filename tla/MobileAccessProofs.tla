-------------------------- MODULE MobileAccessProofs --------------------------
(***************************************************************************)
(* Theorems about mobile access, for any number of challenges, sessions    *)
(* and requests: codes and tokens are used once, what was removed or       *)
(* declared void stays out, and a locked challenge pairs nobody.           *)
(***************************************************************************)
EXTENDS MobileAccess, TLAPS

USE MobileAssumption DEF Challenges, Sessions

SessionType == [status : {"none", "active", "revoked"},
                from : Challenges \cup {0}, parent : Sessions \cup {0}]
HandoffStatus == {"none", "open", "used", "expired"}

-----------------------------------------------------------------------------
(* Types *)

LEMMA TypeParts ==
  ASSUME TypeOK
  PROVE  /\ chal \in [Challenges -> ChallengeStatus] /\ attempts \in [Challenges -> 0 .. MaxAttempts]
         /\ sess \in [Sessions -> SessionType] /\ handoff \in [Sessions -> HandoffStatus]
         /\ enabled \in BOOLEAN
         /\ phone \in [Phones -> {"idle", "complete", "handoff", "stream"}]
         /\ asker \in [Phones -> Sessions \cup {0}]
         /\ desk \in [Desks -> {"idle", "resolving", "pausing"}]
         /\ stream \subseteq Sessions /\ late \subseteq Sessions /\ wanted \in BOOLEAN
         /\ syncer \in {"idle", "address", "listen"} /\ bound \in BOOLEAN
         /\ removed \subseteq Sessions /\ voided \subseteq Sessions
BY DEF TypeOK, SessionType, HandoffStatus

\* A step keeps the types if it keeps those of the parts it changes.
LEMMA TypeFrom ==
  ASSUME TypeOK,
         chal' \in [Challenges -> ChallengeStatus], attempts' \in [Challenges -> 0 .. MaxAttempts],
         sess' \in [Sessions -> SessionType], handoff' \in [Sessions -> HandoffStatus],
         enabled' \in BOOLEAN,
         phone' \in [Phones -> {"idle", "complete", "handoff", "stream"}],
         asker' \in [Phones -> Sessions \cup {0}],
         desk' \in [Desks -> {"idle", "resolving", "pausing"}],
         stream' \subseteq Sessions, late' \subseteq Sessions, wanted' \in BOOLEAN,
         syncer' \in {"idle", "address", "listen"}, bound' \in BOOLEAN,
         removed' \subseteq Sessions, voided' \subseteq Sessions
  PROVE  TypeOK'
BY DEF TypeOK, SessionType, HandoffStatus

\* Sessions after one was minted, or some were ended
LEMMA MintTypes ==
  ASSUME TypeOK, NEW s \in Sessions, NEW from \in Challenges \cup {0}, NEW parent \in Sessions \cup {0},
         Mint(s, from, parent)
  PROVE  /\ sess' \in [Sessions -> SessionType]
         /\ sess'[s].status = "active" /\ sess'[s].from = from /\ sess'[s].parent = parent
         /\ \A t \in Sessions : t # s => sess'[t] = sess[t]
<1>1. sess \in [Sessions -> SessionType]
  BY TypeParts
<1>2. [status |-> "active", from |-> from, parent |-> parent] \in SessionType
  BY DEF SessionType
<1> QED BY <1>1, <1>2 DEF Mint

LEMMA RevokeTypes ==
  ASSUME TypeOK, NEW S \in SUBSET Sessions, Revoke(S)
  PROVE  /\ sess' \in [Sessions -> SessionType] /\ handoff' \in [Sessions -> HandoffStatus]
         /\ voided' \subseteq Sessions
         /\ \A s \in Sessions :
              /\ sess'[s].from = sess[s].from /\ sess'[s].parent = sess[s].parent
              /\ sess'[s].status # sess[s].status =>
                   sess[s].status = "active" /\ sess'[s].status = "revoked"
              /\ s \in S => sess'[s].status # "active"
<1>1. sess \in [Sessions -> SessionType] /\ handoff \in [Sessions -> HandoffStatus]
  BY TypeParts
<1>2. ASSUME NEW s \in Sessions
      PROVE  /\ sess'[s] \in SessionType
             /\ sess'[s].from = sess[s].from /\ sess'[s].parent = sess[s].parent
             /\ sess'[s].status # sess[s].status =>
                  sess[s].status = "active" /\ sess'[s].status = "revoked"
             /\ s \in S => sess'[s].status # "active"
  <2>1. sess[s] \in SessionType
    BY <1>1
  <2>2. sess'[s] = IF s \in S /\ sess[s].status = "active"
                     THEN [sess[s] EXCEPT !.status = "revoked"] ELSE sess[s]
    BY DEF Revoke
  <2> QED BY <2>1, <2>2 DEF SessionType
<1>3. sess' = [s \in Sessions |-> sess'[s]]
  BY DEF Revoke
<1>4. sess' \in [Sessions -> SessionType]
  BY <1>2, <1>3
<1>5. handoff' \in [Sessions -> HandoffStatus]
  BY <1>1 DEF Revoke, HandoffStatus
<1>6. voided' \subseteq Sessions
  BY TypeParts DEF Revoke
<1> QED BY <1>2, <1>4, <1>5, <1>6

\* The streams after they were looked at
LEMMA Announced ==
  ASSUME TypeOK, Announce
  PROVE  /\ stream' \subseteq Sessions /\ late' \subseteq Sessions /\ wanted' \in BOOLEAN
         /\ \A s \in stream' : Usable(s)'
BY TypeParts DEF Announce, Revalidate

\* The slot of a request that was answered
LEMMA AnsweredTypes ==
  ASSUME TypeOK, NEW q \in Phones, Answered(q)
  PROVE  /\ phone' \in [Phones -> {"idle", "complete", "handoff", "stream"}]
         /\ asker' \in [Phones -> Sessions \cup {0}]
BY TypeParts DEF Answered

LEMMA CodeTypes ==
  ASSUME TypeOK, NEW c \in Challenges, NEW right \in BOOLEAN, LinkCode(c, right) \/ ShortCode(c, right)
  PROVE  /\ chal' \in [Challenges -> ChallengeStatus] /\ attempts' \in [Challenges -> 0 .. MaxAttempts]
         /\ sess' \in [Sessions -> SessionType] /\ handoff' \in [Sessions -> HandoffStatus]
<1>1. /\ chal \in [Challenges -> ChallengeStatus] /\ attempts \in [Challenges -> 0 .. MaxAttempts]
      /\ sess \in [Sessions -> SessionType] /\ handoff \in [Sessions -> HandoffStatus]
  BY TypeParts
<1>2. ASSUME NEW s \in Sessions, Consume(c, s)
      PROVE  /\ chal' \in [Challenges -> ChallengeStatus] /\ attempts' = attempts
             /\ sess' \in [Sessions -> SessionType] /\ handoff' \in [Sessions -> HandoffStatus]
  <2>1. sess' \in [Sessions -> SessionType]
    BY <1>2, MintTypes DEF Consume
  <2>2. chal' \in [Challenges -> ChallengeStatus]
    BY <1>1, <1>2 DEF Consume, Consumed, ChallengeStatus
  <2>3. handoff' \in [Sessions -> HandoffStatus]
    BY <1>2 DEF Consume, HandoffStatus
  <2> QED BY <1>2, <2>1, <2>2, <2>3 DEF Consume
<1>3. ASSUME NEW C, \A d \in C : d \in Challenges => Open(d), WrongCode(C)
      PROVE  attempts' \in [Challenges -> 0 .. MaxAttempts] /\ UNCHANGED <<chal, sess, handoff>>
  BY <1>1, <1>3 DEF WrongCode, Open
<1>4. \/ \E s \in Sessions : Consume(c, s)
      \/ Open(c) /\ WrongCode({c})
      \/ WrongCode({d \in Challenges : Open(d)})
  BY DEF LinkCode, ShortCode
<1>5. CASE Open(c) /\ WrongCode({c})
  BY <1>1, <1>3, <1>5
<1>6. CASE WrongCode({d \in Challenges : Open(d)})
  BY <1>1, <1>3, <1>6
<1> QED BY <1>1, <1>2, <1>4, <1>5, <1>6

\* The tree of a session has it and, with each member, its children.
LEMMA TreeClosed ==
  ASSUME NEW s \in Sessions
  PROVE  Tree(s) \subseteq Sessions /\ s \in Tree(s) /\ ChildrenIn(Tree(s))
BY DEF Tree, ChildrenIn

\* Every step keeps the types.
LEMMA TypeStep == TypeOK /\ [Next]_vars => TypeOK'
<1> SUFFICES ASSUME TypeOK, [Next]_vars PROVE TypeOK'
  OBVIOUS
<1> USE DEF rows, listener, history
<1>1. /\ chal \in [Challenges -> ChallengeStatus] /\ attempts \in [Challenges -> 0 .. MaxAttempts]
      /\ sess \in [Sessions -> SessionType] /\ handoff \in [Sessions -> HandoffStatus]
      /\ enabled \in BOOLEAN
      /\ phone \in [Phones -> {"idle", "complete", "handoff", "stream"}]
      /\ asker \in [Phones -> Sessions \cup {0}]
      /\ desk \in [Desks -> {"idle", "resolving", "pausing"}]
      /\ stream \subseteq Sessions /\ late \subseteq Sessions /\ wanted \in BOOLEAN
      /\ syncer \in {"idle", "address", "listen"} /\ bound \in BOOLEAN
      /\ removed \subseteq Sessions /\ voided \subseteq Sessions
  BY TypeParts
<1>2. CASE WriteStreams
  BY <1>1, <1>2, TypeFrom DEF WriteStreams, Revalidate
<1>3. CASE Expire
  <2>1. chal' \in [Challenges -> ChallengeStatus] /\ handoff' \in [Sessions -> HandoffStatus]
    BY <1>1, <1>3 DEF Expire, ChallengeStatus, HandoffStatus
  <2> QED BY <1>1, <1>3, <2>1, TypeFrom DEF Expire
<1>4. CASE Restart
  BY <1>1, <1>4, TypeFrom DEF Restart
<1>5. CASE SyncStarts \/ SyncFindsAddress \/ SyncListens
  <2>1. wanted' \in BOOLEAN /\ syncer' \in {"idle", "address", "listen"} /\ bound' \in BOOLEAN
    BY <1>1, <1>5 DEF SyncStarts, SyncFindsAddress, SyncListens
  <2> QED BY <1>1, <1>5, <2>1, TypeFrom DEF SyncStarts, SyncFindsAddress, SyncListens
<1>6. ASSUME NEW s \in Sessions, Disconnect(s) PROVE TypeOK'
  BY <1>1, <1>6, TypeFrom DEF Disconnect
<1>6a. ASSUME NEW q \in Phones, NEW s \in Sessions, AsksStream(q, s) PROVE TypeOK'
  BY <1>1, <1>6a, TypeFrom DEF AsksStream
<1>6b. ASSUME NEW q \in Phones, NEW s \in Sessions, Connect(q, s) PROVE TypeOK'
  BY <1>1, <1>6b, TypeFrom, AnsweredTypes DEF Connect
<1>7. ASSUME NEW s \in Sessions, RemoveSession(s) PROVE TypeOK'
  <2>1. Walk(s) \in SUBSET Sessions
    BY TreeClosed DEF Walk
  <2>2. removed' \subseteq Sessions
    BY <1>1, <1>7 DEF RemoveSession
  <2>3. /\ sess' \in [Sessions -> SessionType] /\ handoff' \in [Sessions -> HandoffStatus]
        /\ voided' \subseteq Sessions
    BY <1>7, <2>1, RevokeTypes DEF RemoveSession
  <2> QED BY <1>1, <1>7, <2>2, <2>3, Announced, TypeFrom DEF RemoveSession
<1>8. ASSUME NEW s \in Sessions, Logout(s) PROVE TypeOK'
  <2>1. /\ sess' \in [Sessions -> SessionType] /\ handoff' \in [Sessions -> HandoffStatus]
        /\ voided' \subseteq Sessions
    BY <1>8, RevokeTypes DEF Logout
  <2> QED BY <1>1, <1>8, <2>1, Announced, TypeFrom DEF Logout
<1>9. ASSUME NEW c \in Challenges, CreateChallenge(c) \/ ApproveChallenge(c) \/ RevokeChallenge(c)
      PROVE  TypeOK'
  <2>1. chal' \in [Challenges -> ChallengeStatus]
    BY <1>1, <1>9 DEF CreateChallenge, ApproveChallenge, RevokeChallenge, ChallengeStatus
  <2> QED BY <1>1, <1>9, <2>1, Announced, TypeFrom
          DEF CreateChallenge, ApproveChallenge, RevokeChallenge
<1>10. ASSUME NEW d \in Desks, TurnOff(d) PROVE TypeOK'
  <2>1. handoff' \in [Sessions -> HandoffStatus] /\ voided' \subseteq Sessions
    BY <1>1, <1>10 DEF TurnOff, HandoffStatus
  <2>2. desk' \in [Desks -> {"idle", "resolving", "pausing"}] /\ enabled' \in BOOLEAN
    BY <1>1, <1>10 DEF TurnOff
  <2> QED BY <1>1, <1>10, <2>1, <2>2, TypeFrom DEF TurnOff
<1>11. ASSUME NEW d \in Desks, TurnOn(d) PROVE TypeOK'
  BY <1>1, <1>11, TypeFrom DEF TurnOn
<1>12. ASSUME NEW d \in Desks, DeskAnswer(d) PROVE TypeOK'
  <2>1. desk' \in [Desks -> {"idle", "resolving", "pausing"}] /\ enabled' \in BOOLEAN
    BY <1>1, <1>12 DEF DeskAnswer
  <2> QED BY <1>1, <1>12, <2>1, Announced, TypeFrom DEF DeskAnswer
<1>13. ASSUME NEW q \in Phones, NEW what \in {"complete", "handoff"}, PhoneAsks(q, what) PROVE TypeOK'
  BY <1>1, <1>13, TypeFrom DEF PhoneAsks
<1>14. ASSUME NEW q \in Phones, PhoneRefused(q) PROVE TypeOK'
  BY <1>1, <1>14, TypeFrom, AnsweredTypes DEF PhoneRefused
<1>15. ASSUME NEW q \in Phones, NEW c \in Challenges, NEW right \in BOOLEAN,
              CompletePairing(q, c, right)
       PROVE  TypeOK'
  <2>1. /\ chal' \in [Challenges -> ChallengeStatus] /\ attempts' \in [Challenges -> 0 .. MaxAttempts]
        /\ sess' \in [Sessions -> SessionType] /\ handoff' \in [Sessions -> HandoffStatus]
    BY <1>15, CodeTypes DEF CompletePairing
  <2>2. stream' \subseteq Sessions /\ late' \subseteq Sessions /\ wanted' \in BOOLEAN
    BY <1>1, <1>15, Announced DEF CompletePairing
  <2> QED BY <1>1, <1>15, <2>1, <2>2, TypeFrom, AnsweredTypes DEF CompletePairing
<1>16. ASSUME NEW q \in Phones, NEW s \in Sessions, NEW standalone \in BOOLEAN,
              RedeemHandoff(q, s, standalone)
       PROVE  TypeOK'
  <2>1. sess' \in [Sessions -> SessionType]
    BY <1>16, MintTypes DEF RedeemHandoff
  <2>2. handoff' \in [Sessions -> HandoffStatus]
    BY <1>1, <1>16 DEF RedeemHandoff, HandoffStatus
  <2> QED BY <1>1, <1>16, <2>1, <2>2, Announced, TypeFrom, AnsweredTypes DEF RedeemHandoff
<1>17. CASE UNCHANGED vars
  BY <1>1, <1>17, TypeFrom DEF vars
<1> QED BY <1>2, <1>3, <1>4, <1>5, <1>6, <1>6a, <1>6b, <1>7, <1>8, <1>9, <1>10, <1>11, <1>12, <1>13, <1>14, <1>15,
           <1>16, <1>17 DEF Next

-----------------------------------------------------------------------------
(* What a step does to the rows *)

\* Nothing is minted: sessions may end, tokens may be used up or declared void.
Shrinks ==
  /\ \A s \in Sessions :
       /\ sess'[s].from = sess[s].from /\ sess'[s].parent = sess[s].parent
       /\ sess'[s].status # sess[s].status => sess[s].status = "active" /\ sess'[s].status = "revoked"
       /\ handoff'[s] = "open" => handoff[s] = "open"
       /\ handoff[s] = "none" => handoff'[s] = "none"
       /\ s \in voided' /\ s \notin voided => handoff[s] = "open" /\ handoff'[s] # "open"
       /\ s \in removed' /\ s \notin removed =>
            sess[s].status # "none" /\ \A t \in Tree(s) : sess'[t].status # "active"
  /\ \A c \in Challenges : chal[c] = "consumed" => chal'[c] = "consumed"

\* One session is minted, for a challenge or for a token that was open.
Mints(s, from, parent) ==
  /\ UnusedSession(s) /\ Mint(s, from, parent)
  /\ UNCHANGED <<removed, voided>>
  /\ \A t \in Sessions : t # s /\ handoff'[t] = "open" => handoff[t] = "open" /\ t # parent
  /\ \A t \in Sessions : t # s /\ handoff[t] = "none" => handoff'[t] = "none"
  /\ \A c \in Challenges : chal[c] = "consumed" => chal'[c] = "consumed"
  /\ \/ /\ from \in Challenges /\ parent = 0
        /\ chal[from] # "consumed" /\ chal'[from] = "consumed"
     \/ from = 0 /\ parent \in Sessions /\ Redeemable(parent)

LEMMA Effects ==
  TypeOK /\ [Next]_vars =>
    \/ Shrinks
    \/ \E s \in Sessions, from \in Challenges \cup {0}, parent \in Sessions \cup {0} :
         Mints(s, from, parent)
<1> DEFINE Goal == \/ Shrinks
                   \/ \E s \in Sessions, from \in Challenges \cup {0}, parent \in Sessions \cup {0} :
                        Mints(s, from, parent)
<1> SUFFICES ASSUME TypeOK, [Next]_vars PROVE Goal
  OBVIOUS
<1> USE DEF rows, listener, history
<1>1. /\ chal \in [Challenges -> ChallengeStatus]
      /\ sess \in [Sessions -> SessionType] /\ handoff \in [Sessions -> HandoffStatus]
  BY TypeParts
<1>2. ASSUME UNCHANGED <<chal, sess, handoff, removed, voided>> PROVE Goal
  BY <1>2 DEF Shrinks
<1>3. CASE WriteStreams
  BY <1>2, <1>3 DEF WriteStreams
<1>4. CASE Expire
  <2>1. /\ UNCHANGED <<sess, removed, voided>>
        /\ \A s \in Sessions : /\ handoff'[s] = "open" => handoff[s] = "open"
                               /\ handoff[s] = "none" => handoff'[s] = "none"
        /\ \A c \in Challenges : chal[c] = "consumed" => chal'[c] = "consumed"
    BY <1>1, <1>4 DEF Expire
  <2> QED BY <2>1 DEF Shrinks
<1>5. CASE Restart \/ SyncStarts \/ SyncFindsAddress \/ SyncListens
  BY <1>2, <1>5 DEF Restart, SyncStarts, SyncFindsAddress, SyncListens
<1>6. ASSUME NEW s \in Sessions, Disconnect(s) PROVE Goal
  BY <1>2, <1>6 DEF Disconnect
<1>7. ASSUME NEW S \in SUBSET Sessions, Revoke(S), UNCHANGED chal,
             \A s \in Sessions : s \in removed' /\ s \notin removed =>
               sess[s].status # "none" /\ Tree(s) \subseteq S
      PROVE  Goal
  <2>1. \A s \in Sessions :
          /\ sess'[s].from = sess[s].from /\ sess'[s].parent = sess[s].parent
          /\ sess'[s].status # sess[s].status => sess[s].status = "active" /\ sess'[s].status = "revoked"
          /\ s \in S => sess'[s].status # "active"
    BY <1>7, RevokeTypes
  <2>2. ASSUME NEW s \in Sessions
        PROVE  /\ handoff'[s] = "open" => handoff[s] = "open"
               /\ handoff[s] = "none" => handoff'[s] = "none"
               /\ s \in voided' /\ s \notin voided => handoff[s] = "open" /\ handoff'[s] # "open"
    BY <1>7 DEF Revoke
  <2>3. \A s \in Sessions : s \in removed' /\ s \notin removed =>
          sess[s].status # "none" /\ \A t \in Tree(s) : sess'[t].status # "active"
    BY <1>7, <2>1
  <2> QED BY <1>7, <2>1, <2>2, <2>3 DEF Shrinks
<1>8. ASSUME NEW s \in Sessions, RemoveSession(s) PROVE Goal
  <2>1. Walk(s) \in SUBSET Sessions /\ Walk(s) = Tree(s)
    BY TreeClosed DEF Walk
  <2>2. /\ Revoke(Walk(s)) /\ UNCHANGED chal /\ removed' = removed \cup {s}
        /\ sess[s].status # "none"
    BY <1>8 DEF RemoveSession
  <2> QED BY <1>7, <2>1, <2>2
<1>9. ASSUME NEW s \in Sessions, Logout(s) PROVE Goal
  <2>1. Revoke({s}) /\ UNCHANGED <<chal, removed>> /\ {s} \in SUBSET Sessions
    BY <1>9 DEF Logout
  <2> QED BY <1>7, <2>1
<1>10. ASSUME NEW c \in Challenges, CreateChallenge(c) \/ ApproveChallenge(c) \/ RevokeChallenge(c)
       PROVE  Goal
  <2>1. \A d \in Challenges : chal[d] = "consumed" => chal'[d] = "consumed"
    BY <1>1, <1>10 DEF CreateChallenge, ApproveChallenge, RevokeChallenge
  <2> QED BY <1>10, <2>1 DEF Shrinks, CreateChallenge, ApproveChallenge, RevokeChallenge
<1>11. ASSUME NEW d \in Desks, TurnOff(d) PROVE Goal
  BY <1>11 DEF Shrinks, TurnOff
<1>12. ASSUME NEW d \in Desks, TurnOn(d) \/ DeskAnswer(d) PROVE Goal
  BY <1>2, <1>12 DEF TurnOn, DeskAnswer
<1>13. ASSUME NEW q \in Phones, NEW what, NEW s,
              PhoneAsks(q, what) \/ PhoneRefused(q) \/ AsksStream(q, s) \/ Connect(q, s)
       PROVE  Goal
  BY <1>2, <1>13 DEF PhoneAsks, PhoneRefused, AsksStream, Connect
<1>14. ASSUME NEW q \in Phones, NEW c \in Challenges, NEW right \in BOOLEAN,
              CompletePairing(q, c, right)
       PROVE  Goal
  <2>1. UNCHANGED <<removed, voided>>
    BY <1>14 DEF CompletePairing
  <2>2. \/ \E s \in Sessions : Open(c) /\ Consume(c, s)
        \/ UNCHANGED <<chal, sess, handoff>>
    BY <1>14 DEF CompletePairing, LinkCode, ShortCode, WrongCode
  <2>3. ASSUME NEW s \in Sessions, Open(c), Consume(c, s) PROVE Mints(s, c, 0)
    <3>1. chal[c] # "consumed" /\ chal' = [chal EXCEPT ![c] = "consumed"]
      BY <2>3 DEF Open, Consume, Consumed
    <3>2. handoff' = [t \in Sessions |-> IF t = s THEN "open"
                                         ELSE IF handoff[t] = "open" THEN "open" ELSE "none"]
      BY <2>3 DEF Consume
    <3>3. \A t \in Sessions : t # s /\ handoff'[t] = "open" => handoff[t] = "open" /\ t # 0
      BY <3>2
    <3>4. \A t \in Sessions : t # s /\ handoff[t] = "none" => handoff'[t] = "none"
      BY <3>2
    <3>5. chal'[c] = "consumed" /\ \A d \in Challenges : chal[d] = "consumed" => chal'[d] = "consumed"
      BY <1>1, <3>1
    <3> QED BY <2>1, <2>3, <3>1, <3>3, <3>4, <3>5 DEF Mints, Consume
  <2> QED BY <1>2, <2>1, <2>2, <2>3
<1>15. ASSUME NEW q \in Phones, NEW s \in Sessions, NEW standalone \in BOOLEAN,
              RedeemHandoff(q, s, standalone)
       PROVE  Goal
  <2>1. PICK t \in Sessions :
          /\ UnusedSession(t) /\ Mint(t, 0, s)
          /\ handoff' = [handoff EXCEPT ![s] = "used", ![t] = IF standalone THEN "none" ELSE "open"]
    BY <1>15 DEF RedeemHandoff
  <2>2. UNCHANGED <<removed, voided, chal>> /\ Redeemable(s)
    BY <1>15 DEF RedeemHandoff
  <2>3. \A u \in Sessions : u # t /\ handoff'[u] = "open" => handoff[u] = "open" /\ u # s
    BY <1>1, <2>1
  <2>4. \A u \in Sessions : u # t /\ handoff[u] = "none" => handoff'[u] = "none"
    BY <1>1, <2>1, <2>2 DEF Redeemable
  <2>5. Mints(t, 0, s)
    BY <2>1, <2>2, <2>3, <2>4 DEF Mints
  <2> QED BY <2>5
<1>16. CASE UNCHANGED vars
  BY <1>2, <1>16 DEF vars
<1> HIDE DEF Goal
<1> QED BY <1>3, <1>4, <1>5, <1>6, <1>8, <1>9, <1>10, <1>11, <1>12, <1>13, <1>14, <1>15, <1>16 DEF Next

-----------------------------------------------------------------------------
(* Where sessions come from *)

\* A session that was not minted has left no trace.  One that was paired has used its
\* challenge up, one that was derived has used up the token of its parent.
Families ==
  /\ \A s \in Sessions : sess[s].status = "none" =>
       /\ sess[s].from = 0 /\ sess[s].parent = 0
       /\ handoff[s] = "none" /\ s \notin voided /\ s \notin removed
  /\ \A s \in Sessions : sess[s].status # "none" => sess[s].from # 0 \/ sess[s].parent # 0
  /\ \A s \in Sessions : sess[s].from # 0 => sess[s].parent = 0 /\ chal[sess[s].from] = "consumed"
  /\ \A s \in Sessions : sess[s].parent # 0 =>
       sess[sess[s].parent].status # "none" /\ handoff[sess[s].parent] # "open"

\* The four promises about rows
Kept == Families /\ UsedOnce /\ VoidedIsUseless /\ RemovedStaysOut

\* When nothing is minted, trees stay what they are.
LEMMA SameTree ==
  ASSUME \A s \in Sessions : sess'[s].parent = sess[s].parent, NEW s \in Sessions
  PROVE  Tree(s)' = Tree(s)
BY DEF Tree, ChildrenIn

LEMMA KeptShrinks == TypeOK /\ TypeOK' /\ Kept /\ Shrinks => Kept'
<1> SUFFICES ASSUME TypeOK, TypeOK', Kept, Shrinks PROVE Kept'
  OBVIOUS
<1>1. sess \in [Sessions -> SessionType]
  BY TypeParts
<1>2. \A s \in Sessions : sess[s].from \in Challenges \cup {0} /\ sess[s].parent \in Sessions \cup {0}
  BY <1>1 DEF SessionType
<1>3. \A s \in Sessions : /\ sess'[s].from = sess[s].from /\ sess'[s].parent = sess[s].parent
                          /\ sess'[s].status = "none" <=> sess[s].status = "none"
                          /\ sess'[s].status = "active" => sess[s].status = "active"
                          /\ handoff'[s] = "open" => handoff[s] = "open"
                          /\ handoff[s] = "none" => handoff'[s] = "none"
  BY DEF Shrinks
<1>4. \A c \in Challenges : chal[c] = "consumed" => chal'[c] = "consumed"
  BY DEF Shrinks
<1>5. \A s \in Sessions :
        /\ s \in voided' /\ s \notin voided => handoff[s] = "open" /\ handoff'[s] # "open"
        /\ s \in removed' /\ s \notin removed =>
             sess[s].status # "none" /\ \A t \in Tree(s) : sess'[t].status # "active"
  BY DEF Shrinks
<1>6. Families'
  <2>1. \A s \in Sessions : sess[s].status = "none" =>
          handoff[s] = "none" /\ s \notin voided /\ s \notin removed
    BY DEF Kept, Families
  <2>2. \A s \in Sessions : sess'[s].status = "none" =>
          /\ sess'[s].from = 0 /\ sess'[s].parent = 0
          /\ handoff'[s] = "none" /\ s \notin voided' /\ s \notin removed'
    BY <1>3, <1>5, <2>1 DEF Kept, Families
  <2>3. \A s \in Sessions : sess'[s].status # "none" => sess'[s].from # 0 \/ sess'[s].parent # 0
    BY <1>3 DEF Kept, Families
  <2>4. \A s \in Sessions : sess'[s].from # 0 => sess'[s].parent = 0 /\ chal'[sess'[s].from] = "consumed"
    BY <1>2, <1>3, <1>4 DEF Kept, Families
  <2>5. \A s \in Sessions : sess'[s].parent # 0 =>
          sess'[sess'[s].parent].status # "none" /\ handoff'[sess'[s].parent] # "open"
    BY <1>2, <1>3 DEF Kept, Families
  <2> QED BY <2>2, <2>3, <2>4, <2>5 DEF Families
<1>7. UsedOnce'
  BY <1>3 DEF Kept, UsedOnce
<1>8. VoidedIsUseless'
  <2>1. voided' \subseteq Sessions
    BY DEF TypeOK
  <2>2. /\ \A s \in voided : handoff[s] # "open"
        /\ \A s \in voided, t \in Sessions : sess[t].status # "none" => sess[t].parent # s
        /\ \A t \in Sessions : sess[t].parent # 0 => handoff[sess[t].parent] # "open"
    BY DEF Kept, VoidedIsUseless, Families
  <2>3. SUFFICES ASSUME NEW s \in voided'
                 PROVE  /\ handoff'[s] # "open"
                        /\ \A t \in Sessions : sess'[t].status # "none" => sess'[t].parent # s
    BY DEF VoidedIsUseless
  <2>4. CASE s \in voided
    BY <1>3, <2>1, <2>2, <2>4
  <2>5. CASE s \notin voided
    <3>1. s \in Sessions /\ s # 0 /\ handoff[s] = "open" /\ handoff'[s] # "open"
      BY <1>5, <2>1, <2>5, MobileAssumption DEF Sessions
    <3> QED BY <1>3, <2>2, <3>1
  <2> QED BY <2>4, <2>5
<1>9. RemovedStaysOut'
  <2>1. removed' \subseteq Sessions
    BY DEF TypeOK
  <2>2. \A s \in Sessions : Tree(s)' = Tree(s) /\ Tree(s) \subseteq Sessions
    BY <1>3, SameTree, TreeClosed
  <2>3. ASSUME NEW s \in removed', NEW t \in Tree(s) PROVE sess'[t].status # "active"
    <3>1. CASE s \in removed
      BY <1>3, <2>1, <2>2, <2>3, <3>1 DEF Kept, RemovedStaysOut
    <3>2. CASE s \notin removed
      BY <1>5, <2>1, <2>3, <3>2
    <3> QED BY <3>1, <3>2
  <2> QED BY <2>1, <2>2, <2>3 DEF RemovedStaysOut
<1> QED BY <1>6, <1>7, <1>8, <1>9 DEF Kept

\* A session that is minted is in no tree of a session that was removed.
LEMMA NotInTree ==
  ASSUME TypeOK, Families, NEW s \in Sessions, NEW from \in Challenges \cup {0},
         NEW parent \in Sessions \cup {0}, Mints(s, from, parent),
         NEW r \in Sessions, r # s, parent \notin Tree(r)
  PROVE  Tree(r)' \subseteq Tree(r)
<1>1. /\ sess'[s].parent = parent
      /\ \A t \in Sessions : t # s => sess'[t] = sess[t]
  BY MintTypes DEF Mints
<1>2. Tree(r) \in SUBSET Sessions /\ r \in Tree(r) /\ ChildrenIn(Tree(r))
  BY TreeClosed
<1> DEFINE C == Tree(r)
<1>3. ASSUME NEW u \in Sessions, NEW v \in Sessions, u \in C, sess'[v].parent = u PROVE v \in C
  <2>1. CASE v = s
    BY <1>1, <1>3, <2>1
  <2>2. CASE v # s
    <3>1. sess[v].parent = u
      BY <1>1, <1>3, <2>2
    <3> QED BY <1>2, <1>3, <3>1 DEF ChildrenIn
  <2> QED BY <2>1, <2>2
<1> HIDE DEF C
<1>4. C \in SUBSET Sessions /\ r \in C /\ \A u, v \in Sessions : u \in C /\ sess'[v].parent = u => v \in C
  BY <1>2, <1>3 DEF C
<1>5. Tree(r)' \subseteq C
  BY <1>4 DEF Tree, ChildrenIn
<1> QED BY <1>5 DEF C

\* A session that was not minted is in no tree but its own.
LEMMA UnusedInNoTree ==
  ASSUME TypeOK, Families, NEW s \in Sessions, sess[s].status = "none", NEW r \in Sessions, r # s
  PROVE  s \notin Tree(r)
<1>1. Tree(r) \in SUBSET Sessions /\ r \in Tree(r) /\ ChildrenIn(Tree(r))
  BY TreeClosed
<1>2. sess[s].parent = 0
  BY DEF Families
<1> DEFINE C == Tree(r) \ {s}
<1>3. C \in SUBSET Sessions /\ r \in C
  BY <1>1
<1>4. ASSUME NEW u \in Sessions, NEW v \in Sessions, u \in C, sess[v].parent = u PROVE v \in C
  <2>1. v # s
    BY <1>2, <1>4
  <2> QED BY <1>1, <1>4, <2>1 DEF ChildrenIn
<1> HIDE DEF C
<1>5. Tree(r) \subseteq C
  BY <1>3, <1>4 DEF Tree, ChildrenIn
<1> QED BY <1>5 DEF C

LEMMA KeptMints ==
  ASSUME TypeOK, Kept, NEW s \in Sessions, NEW from \in Challenges \cup {0},
         NEW parent \in Sessions \cup {0}, Mints(s, from, parent)
  PROVE  Kept'
<1>1. /\ sess'[s].status = "active" /\ sess'[s].from = from /\ sess'[s].parent = parent
      /\ \A t \in Sessions : t # s => sess'[t] = sess[t]
  BY MintTypes DEF Mints
<1>2. sess \in [Sessions -> SessionType] /\ removed \subseteq Sessions /\ voided \subseteq Sessions
  BY TypeParts
<1>3. \A t \in Sessions : sess[t].from \in Challenges \cup {0} /\ sess[t].parent \in Sessions \cup {0}
  BY <1>2 DEF SessionType
<1>4. /\ sess[s].status = "none" /\ UNCHANGED <<removed, voided>>
      /\ \A t \in Sessions : t # s /\ handoff'[t] = "open" => handoff[t] = "open" /\ t # parent
      /\ \A t \in Sessions : t # s /\ handoff[t] = "none" => handoff'[t] = "none"
      /\ \A c \in Challenges : chal[c] = "consumed" => chal'[c] = "consumed"
  BY DEF Mints, UnusedSession
<1>5. \/ /\ from \in Challenges /\ parent = 0
         /\ chal[from] # "consumed" /\ chal'[from] = "consumed"
      \/ /\ from = 0 /\ parent \in Sessions
         /\ handoff[parent] = "open" /\ sess[parent].status = "active"
  BY DEF Mints, Redeemable
<1>6. /\ \A t \in Sessions : sess[t].status = "none" =>
           /\ sess[t].from = 0 /\ sess[t].parent = 0
           /\ handoff[t] = "none" /\ t \notin voided /\ t \notin removed
      /\ \A t \in Sessions : sess[t].status # "none" => sess[t].from # 0 \/ sess[t].parent # 0
      /\ \A t \in Sessions : sess[t].from # 0 => sess[t].parent = 0 /\ chal[sess[t].from] = "consumed"
      /\ \A t \in Sessions : sess[t].parent # 0 =>
           sess[sess[t].parent].status # "none" /\ handoff[sess[t].parent] # "open"
  BY DEF Kept, Families
<1>7. from # 0 \/ parent # 0
  BY <1>5
<1>8. parent # s
  BY <1>4, <1>5
<1>9. \A t \in Sessions : sess[t].parent # s
  BY <1>3, <1>4, <1>6
<1>10. \A t \in Sessions : t # s /\ sess[t].status # "none" => ~(sess[t].from = from /\ sess[t].parent = parent)
  BY <1>3, <1>5, <1>6
<1>11. Families'
  <2>1. ASSUME NEW t \in Sessions, sess'[t].status = "none"
        PROVE  /\ sess'[t].from = 0 /\ sess'[t].parent = 0
               /\ handoff'[t] = "none" /\ t \notin voided' /\ t \notin removed'
    BY <1>1, <1>4, <1>6, <2>1
  <2>2. ASSUME NEW t \in Sessions, sess'[t].status # "none" PROVE sess'[t].from # 0 \/ sess'[t].parent # 0
    BY <1>1, <1>6, <1>7, <2>2
  <2>3. ASSUME NEW t \in Sessions, sess'[t].from # 0
        PROVE  sess'[t].parent = 0 /\ chal'[sess'[t].from] = "consumed"
    BY <1>1, <1>3, <1>4, <1>5, <1>6, <2>3
  <2>4. ASSUME NEW t \in Sessions, sess'[t].parent # 0
        PROVE  sess'[sess'[t].parent].status # "none" /\ handoff'[sess'[t].parent] # "open"
    <3>1. CASE t = s
      BY <1>1, <1>4, <1>5, <1>8, <2>4, <3>1
    <3>2. CASE t # s
      <4>1. sess'[t].parent = sess[t].parent /\ sess[t].parent \in Sessions /\ sess[t].parent # s
        BY <1>1, <1>3, <1>9, <2>4, <3>2
      <4> QED BY <1>1, <1>4, <1>6, <2>4, <4>1
    <3> QED BY <3>1, <3>2
  <2> QED BY <2>1, <2>2, <2>3, <2>4 DEF Families
<1>12. UsedOnce'
  <2>1. \A t, u \in Sessions :
          /\ sess[t].status # "none" /\ sess[u].status # "none"
          /\ sess[t].from = sess[u].from /\ sess[t].parent = sess[u].parent
          => t = u
    BY DEF Kept, UsedOnce
  <2>2. ASSUME NEW t \in Sessions, NEW u \in Sessions,
               sess'[t].status # "none", sess'[u].status # "none",
               sess'[t].from = sess'[u].from, sess'[t].parent = sess'[u].parent
        PROVE  t = u
    BY <1>1, <1>10, <2>1, <2>2
  <2> QED BY <2>2 DEF UsedOnce
<1>13. VoidedIsUseless'
  <2>1. \A v \in voided : /\ handoff[v] # "open" /\ sess[v].status # "none"
                          /\ \A t \in Sessions : sess[t].status # "none" => sess[t].parent # v
    BY <1>2, <1>6 DEF Kept, VoidedIsUseless
  <2>2. ASSUME NEW v \in voided
        PROVE  /\ handoff'[v] # "open"
               /\ \A t \in Sessions : sess'[t].status # "none" => sess'[t].parent # v
    <3>1. v \in Sessions /\ v # s
      BY <1>2, <1>4, <2>1
    <3>2. v # parent
      BY <1>5, <2>1, <3>1
    <3> QED BY <1>1, <1>4, <2>1, <3>1, <3>2
  <2> QED BY <1>4, <2>2 DEF VoidedIsUseless
<1>14. RemovedStaysOut'
  <2>1. ASSUME NEW r \in removed, NEW t \in Tree(r)' PROVE sess'[t].status # "active"
    <3>1. r \in Sessions /\ r # s /\ Families
      BY <1>2, <1>4, <1>6 DEF Kept
    <3>2. \A u \in Tree(r) : sess[u].status # "active"
      BY DEF Kept, RemovedStaysOut
    <3>3. parent \notin Tree(r)
      BY <1>5, <3>1, <3>2, TreeClosed
    <3>4. Tree(r)' \subseteq Tree(r) /\ s \notin Tree(r) /\ Tree(r) \subseteq Sessions
      BY <1>4, <3>1, <3>3, NotInTree, UnusedInNoTree, TreeClosed
    <3>5. t \in Tree(r) /\ t \in Sessions /\ t # s
      BY <2>1, <3>4
    <3> QED BY <1>1, <3>2, <3>5
  <2> QED BY <1>4, <2>1 DEF RemovedStaysOut
<1> QED BY <1>11, <1>12, <1>13, <1>14 DEF Kept

-----------------------------------------------------------------------------
(* Streams *)

\* While the switch and the sessions stay, so do the streams that may be open.
LEMMA StreamsStay ==
  ASSUME StreamsAreUsable, UNCHANGED <<sess, enabled>>,
         \A s \in stream' : \/ s \in stream /\ (s \in late => s \in late')
                           \/ Usable(s) \/ s \in late',
         \A d \in Desks : desk[d] = "pausing" => desk'[d] = "pausing"
  PROVE  StreamsAreUsable'
BY DEF StreamsAreUsable, Usable

LEMMA StreamsStep == TypeOK /\ StreamsAreUsable /\ [Next]_vars => StreamsAreUsable'
<1> SUFFICES ASSUME TypeOK, StreamsAreUsable, [Next]_vars PROVE StreamsAreUsable'
  OBVIOUS
<1> USE DEF rows, listener, history
<1>1. desk \in [Desks -> {"idle", "resolving", "pausing"}]
  BY TypeParts
<1>2. ASSUME \A s \in stream' : Usable(s)' PROVE StreamsAreUsable'
  BY <1>2 DEF StreamsAreUsable
<1>3. ASSUME Revalidate PROVE StreamsAreUsable'
  BY <1>2, <1>3 DEF Revalidate
<1>4. ASSUME Announce PROVE StreamsAreUsable'
  BY <1>3, <1>4 DEF Announce
<1>5. ASSUME UNCHANGED <<sess, enabled, stream, late, desk>> PROVE StreamsAreUsable'
  BY <1>5, StreamsStay
<1>6. CASE WriteStreams
  BY <1>3, <1>6 DEF WriteStreams
<1>7. CASE Expire \/ SyncStarts \/ SyncFindsAddress \/ SyncListens
  BY <1>5, <1>7 DEF Expire, SyncStarts, SyncFindsAddress, SyncListens
<1>8. CASE Restart
  BY <1>8 DEF Restart, StreamsAreUsable
<1>9. ASSUME NEW s \in Sessions, Disconnect(s) PROVE StreamsAreUsable'
  BY <1>9, StreamsStay DEF Disconnect
<1>10. ASSUME NEW s \in Sessions, RemoveSession(s) \/ Logout(s) PROVE StreamsAreUsable'
  BY <1>4, <1>10 DEF RemoveSession, Logout
<1>11. ASSUME NEW c \in Challenges, CreateChallenge(c) \/ ApproveChallenge(c) \/ RevokeChallenge(c)
       PROVE  StreamsAreUsable'
  BY <1>4, <1>11 DEF CreateChallenge, ApproveChallenge, RevokeChallenge
<1>12. ASSUME NEW d \in Desks, TurnOff(d) PROVE StreamsAreUsable'
  <2>1. desk'[d] = "pausing"
    BY <1>1, <1>12 DEF TurnOff
  <2> QED BY <2>1 DEF StreamsAreUsable
<1>13. ASSUME NEW d \in Desks, TurnOn(d) PROVE StreamsAreUsable'
  <2>1. \A e \in Desks : desk[e] = "pausing" => desk'[e] = "pausing"
    BY <1>1, <1>13 DEF TurnOn
  <2> QED BY <1>13, <2>1, StreamsStay DEF TurnOn
<1>14. ASSUME NEW d \in Desks, DeskAnswer(d) PROVE StreamsAreUsable'
  BY <1>4, <1>14 DEF DeskAnswer
<1>15. ASSUME NEW q \in Phones, NEW what, NEW s,
              PhoneAsks(q, what) \/ PhoneRefused(q) \/ AsksStream(q, s)
       PROVE  StreamsAreUsable'
  BY <1>5, <1>15 DEF PhoneAsks, PhoneRefused, AsksStream
<1>15a. ASSUME NEW q \in Phones, NEW s \in Sessions, Connect(q, s) PROVE StreamsAreUsable'
  BY <1>15a, StreamsStay DEF Connect
<1>16. ASSUME NEW q \in Phones, NEW c \in Challenges, NEW right \in BOOLEAN,
              CompletePairing(q, c, right)
       PROVE  StreamsAreUsable'
  <2>1. CASE ~right
    <3>1. UNCHANGED <<sess, enabled, stream, late, desk>>
      BY <1>16, <2>1 DEF CompletePairing, LinkCode, ShortCode, WrongCode
    <3> QED BY <1>5, <3>1
  <2>2. CASE right
    BY <1>4, <1>16, <2>2 DEF CompletePairing
  <2> QED BY <2>1, <2>2
<1>17. ASSUME NEW q \in Phones, NEW s \in Sessions, NEW standalone \in BOOLEAN,
              RedeemHandoff(q, s, standalone)
       PROVE  StreamsAreUsable'
  BY <1>4, <1>17 DEF RedeemHandoff
<1>18. CASE UNCHANGED vars
  BY <1>5, <1>18 DEF vars
<1> QED BY <1>6, <1>7, <1>8, <1>9, <1>10, <1>11, <1>12, <1>13, <1>14, <1>15, <1>15a, <1>16, <1>17, <1>18
        DEF Next

-----------------------------------------------------------------------------
(* The theorems *)

\* What holds of every reachable state
IInv == TypeOK /\ Kept /\ StreamsAreUsable

THEOREM InvariantHolds == Spec => []IInv
<1>1. Init => IInv
  <2> SUFFICES ASSUME Init PROVE IInv
    OBVIOUS
  <2>1. NoSession \in SessionType /\ NoSession.status = "none" /\ NoSession.from = 0 /\ NoSession.parent = 0
    BY DEF NoSession, SessionType
  <2>2. TypeOK
    <3>1. sess \in [Sessions -> SessionType]
      BY <2>1 DEF Init
    <3>2. attempts \in [Challenges -> 0 .. MaxAttempts]
      BY DEF Init
    <3>3. chal \in [Challenges -> ChallengeStatus] /\ handoff \in [Sessions -> HandoffStatus]
      BY DEF Init, ChallengeStatus, HandoffStatus
    <3>4. /\ phone \in [Phones -> {"idle", "complete", "handoff", "stream"}]
          /\ asker \in [Phones -> Sessions \cup {0}]
          /\ desk \in [Desks -> {"idle", "resolving", "pausing"}]
          /\ enabled \in BOOLEAN /\ stream \subseteq Sessions
          /\ late \subseteq Sessions /\ wanted \in BOOLEAN
          /\ syncer \in {"idle", "address", "listen"} /\ bound \in BOOLEAN
          /\ removed \subseteq Sessions /\ voided \subseteq Sessions
      BY DEF Init
    <3> QED BY <3>1, <3>2, <3>3, <3>4 DEF TypeOK, SessionType, HandoffStatus
  <2>3. Kept
    BY <2>1 DEF Init, Kept, Families, UsedOnce, VoidedIsUseless, RemovedStaysOut
  <2>4. StreamsAreUsable
    BY DEF Init, StreamsAreUsable
  <2> QED BY <2>2, <2>3, <2>4 DEF IInv
<1>2. IInv /\ [Next]_vars => IInv'
  BY TypeStep, Effects, KeptShrinks, KeptMints, StreamsStep DEF IInv
<1> QED BY <1>1, <1>2, PTL DEF Spec

\* The types hold for any number of challenges, sessions, phones and desks.
THEOREM TypeCorrect == Spec => []TypeOK
<1>1. IInv => TypeOK
  BY DEF IInv
<1> QED BY <1>1, InvariantHolds, PTL

\* One challenge pairs one phone and one handoff token starts one page.
THEOREM UsedOnceHolds == Spec => []UsedOnce
<1>1. IInv => UsedOnce
  BY DEF IInv, Kept
<1> QED BY <1>1, InvariantHolds, PTL

\* A token that was declared void starts no page.
THEOREM VoidedIsUselessHolds == Spec => []VoidedIsUseless
<1>1. IInv => VoidedIsUseless
  BY DEF IInv, Kept
<1> QED BY <1>1, InvariantHolds, PTL

\* A session that was removed stays out with every page derived from it.
THEOREM RemovedStaysOutHolds == Spec => []RemovedStaysOut
<1>1. IInv => RemovedStaysOut
  BY DEF IInv, Kept
<1> QED BY <1>1, InvariantHolds, PTL

\* A stream outlives the right to it only while access is being turned off, or until the
\* next look at the streams when it was opened by a request let in before the right ended.
THEOREM StreamsAreUsableHolds == Spec => []StreamsAreUsable
<1>1. IInv => StreamsAreUsable
  BY DEF IInv
<1> QED BY <1>1, InvariantHolds, PTL

\* A challenge that was answered wrong too often pairs nobody.
THEOREM LockedStaysHolds == Spec => LockedStays
<1> DEFINE Locked == \A c \in Challenges :
                       attempts[c] = MaxAttempts /\ chal'[c] = "consumed" => chal[c] = "consumed"
<1>1. TypeOK /\ [Next]_vars => Locked
  <2> SUFFICES ASSUME TypeOK, [Next]_vars, NEW c \in Challenges,
                      chal'[c] = "consumed", chal[c] # "consumed"
               PROVE  attempts[c] # MaxAttempts
    OBVIOUS
  <2>1. chal \in [Challenges -> ChallengeStatus] /\ attempts \in [Challenges -> 0 .. MaxAttempts]
    BY TypeParts
  <2>2. PICK q \in Phones, d \in Challenges, right \in BOOLEAN : CompletePairing(q, d, right)
    BY <2>1 DEF Next, WriteStreams, Expire, Restart, SyncStarts, SyncFindsAddress, SyncListens,
           AsksStream, Connect, Disconnect, RemoveSession, Logout, CreateChallenge, ApproveChallenge, RevokeChallenge,
           TurnOff, TurnOn, DeskAnswer, PhoneAsks, PhoneRefused, RedeemHandoff, rows, vars
  <2>3. PICK s \in Sessions : Open(d) /\ Consume(d, s)
    BY <2>2 DEF CompletePairing, LinkCode, ShortCode, WrongCode
  <2>4. d = c
    BY <2>1, <2>3 DEF Consume, Consumed
  <2> QED BY <2>1, <2>3, <2>4 DEF Open
<1>2. TypeOK /\ [Next]_vars => [Locked]_vars
  BY <1>1
<1> QED BY <1>2, TypeCorrect, PTL DEF Spec, LockedStays
===============================================================================
