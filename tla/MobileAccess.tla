----------------------------- MODULE MobileAccess -----------------------------
(***************************************************************************)
(* Access of paired phones to the board (server/mobile/): the rows of the  *)
(* pairing service, the switch of the settings file, the event streams and *)
(* the second listener of the board on its tailnet address.                *)
(*                                                                         *)
(* A CHALLENGE is shown on the PC, approved there and completed by a phone *)
(* with its secret link or a short code; that mints a SESSION.  A session  *)
(* comes with a HANDOFF token, which a page opened from the phone trades   *)
(* for a session of its own, the child of the first.  The service works in *)
(* synchronous transactions, but the routes of the phones look at the      *)
(* switch before they wait for the body of the request, the event stream   *)
(* looks at its session before it waits for the settings of the cloud, and *)
(* the switch and the listener wait for the tailnet.                       *)
(***************************************************************************)
EXTENDS Integers, FiniteSets

CONSTANTS
  MaxChallenges,  \* bound: challenges ever shown
  MaxSessions,    \* bound: sessions ever minted
  MaxStreams,     \* bound: sessions with an open event stream when one is asked for
  MaxAttempts,    \* wrong codes after which a challenge is locked (5 in the code)
  Phones,         \* slots for requests of phones that wait
  Desks           \* slots for requests of the PC that wait for the tailnet

ASSUME MobileAssumption ==
  MaxChallenges \in Nat \ {0} /\ MaxSessions \in Nat \ {0} /\ MaxStreams \in Nat
  /\ MaxAttempts \in Nat \ {0}

Challenges == 1 .. MaxChallenges
Sessions == 1 .. MaxSessions

VARIABLES
  \* rows of the board database
  chal,      \* the state of each challenge
  attempts,  \* wrong codes entered for it
  sess,      \* [Sessions -> [status, from, parent]]; `from' is the challenge of a
             \* session that was paired, `parent' the session it derives from
  handoff,   \* the handoff token minted with each session
  \* settings file
  enabled,
  \* memory of the board
  phone,     \* what each waiting request of a phone asks for
  asker,     \* the session that waits for an event stream with that request, or 0
  desk,      \* where each request to turn access on or off waits
  stream,    \* the sessions with an open event stream
  wanted,    \* a listener update is due
  syncer,    \* where the listener update that runs waits
  bound,     \* the tailnet listener is open
  \* history
  removed,   \* the sessions a person removed on the PC
  voided,    \* the sessions whose handoff token was declared void
  late       \* the sessions whose stream was opened without the right to it after the
             \* streams were looked at for the last time

rows     == <<chal, attempts, sess, handoff>>
listener == <<syncer, bound>>
history  == <<removed, voided>>
vars == <<chal, attempts, sess, handoff, enabled, phone, asker, desk, stream, wanted,
          syncer, bound, removed, voided, late>>

ChallengeStatus == {"none", "shown", "approved", "consumed", "revoked", "expired"}
NoSession == [status |-> "none", from |-> 0, parent |-> 0]

Init ==
  /\ chal = [c \in Challenges |-> "none"]
  /\ attempts = [c \in Challenges |-> 0]
  /\ sess = [s \in Sessions |-> NoSession]
  /\ handoff = [s \in Sessions |-> "none"]
  /\ enabled = FALSE
  /\ phone = [q \in Phones |-> "idle"]
  /\ desk = [d \in Desks |-> "idle"]
  /\ asker = [q \in Phones |-> 0]
  /\ stream = {} /\ late = {}
  /\ wanted = FALSE /\ syncer = "idle" /\ bound = FALSE
  /\ removed = {} /\ voided = {}

Answered(q) ==
  /\ phone' = [phone EXCEPT ![q] = "idle"]
  /\ asker' = [asker EXCEPT ![q] = 0]

-----------------------------------------------------------------------------
(* The event hub *)

\* isSessionActive: what a request or a stream of a phone needs to go on
Usable(s) == enabled /\ sess[s].status = "active"

\* A fault: the streams are left alone
KeepStreams == stream' = stream /\ late' = {}

\* revalidate, before every write to the streams
Revalidate == stream' = {s \in stream : Usable(s)'} /\ late' = {}

\* A fault: an update that is asked for while one runs is dropped
AnnounceUnlessBusy == Revalidate /\ wanted' = (wanted \/ syncer = "idle")

\* emitChanged: the streams are looked at and the listener is brought up to date.
Announce == Revalidate /\ wanted' = TRUE

\* Any other event of the board, or the keep-alive
WriteStreams ==
  /\ UNCHANGED <<rows, enabled, phone, asker, desk, wanted, listener, history>>
  /\ Revalidate

\* The request for a stream is let in, then waits for the settings of the cloud ...
AsksStream(q, s) ==
  /\ phone[q] = "idle" /\ Usable(s)
  /\ Cardinality(stream \cup {s}) <= MaxStreams
  /\ phone' = [phone EXCEPT ![q] = "stream"]
  /\ asker' = [asker EXCEPT ![q] = s]
  /\ UNCHANGED <<rows, enabled, desk, stream, wanted, listener, history, late>>

\* ... and gets its stream, without a second look at the session.
Connect(q, s) ==
  /\ phone[q] = "stream" /\ asker[q] = s
  /\ stream' = stream \cup {s}
  /\ late' = IF Usable(s) THEN late ELSE late \cup {s}
  /\ Answered(q)
  /\ UNCHANGED <<rows, enabled, desk, wanted, listener, history>>

Disconnect(s) ==
  /\ stream' = stream \ {s} /\ late' = late \ {s}
  /\ UNCHANGED <<rows, enabled, phone, asker, desk, wanted, listener, history>>

-----------------------------------------------------------------------------
(* Challenges, on the PC *)

CreateChallenge(c) ==
  /\ chal[c] = "none" /\ \A d \in Challenges : d < c => chal[d] # "none"
  /\ chal' = [chal EXCEPT ![c] = "shown"]
  /\ UNCHANGED <<attempts, sess, handoff, enabled, phone, asker, desk, listener, history>>
  /\ Announce

ApproveChallenge(c) ==
  /\ chal[c] \in {"shown", "approved"}
  /\ chal' = [chal EXCEPT ![c] = "approved"]
  /\ UNCHANGED <<attempts, sess, handoff, enabled, phone, asker, desk, listener, history>>
  /\ Announce

RevokeChallenge(c) ==
  /\ chal[c] \notin {"none", "consumed"}
  /\ chal' = [chal EXCEPT ![c] = "revoked"]
  /\ UNCHANGED <<attempts, sess, handoff, enabled, phone, asker, desk, listener, history>>
  /\ Announce

\* The time of a challenge or of a handoff token runs out; both are read against
\* the clock when they are used, sessions do not expire.
Expire ==
  /\ \/ \E c \in Challenges :
          /\ chal[c] \in {"shown", "approved"}
          /\ chal' = [chal EXCEPT ![c] = "expired"]
          /\ UNCHANGED handoff
     \/ \E s \in Sessions :
          /\ handoff[s] = "open"
          /\ handoff' = [handoff EXCEPT ![s] = "expired"]
          /\ UNCHANGED chal
  /\ UNCHANGED <<attempts, sess, enabled, phone, asker, desk, stream, late, wanted, listener, history>>

-----------------------------------------------------------------------------
(* Pairing, from a phone *)

\* The route of a phone: refused while access is off, then waits for the body.
PhoneAsks(q, what) ==
  /\ phone[q] = "idle" /\ enabled
  /\ phone' = [phone EXCEPT ![q] = what]
  /\ UNCHANGED <<rows, enabled, asker, desk, stream, late, wanted, listener, history>>

\* The request is refused, or the phone closes the connection.
PhoneRefused(q) ==
  /\ phone[q] # "idle"
  /\ Answered(q)
  /\ UNCHANGED <<rows, enabled, desk, stream, late, wanted, listener, history>>

UnusedSession(s) ==
  sess[s].status = "none" /\ \A t \in Sessions : t < s => sess[t].status # "none"

Mint(s, from, parent) ==
  sess' = [sess EXCEPT ![s] = [status |-> "active", from |-> from, parent |-> parent]]

\* A fault: the challenge can be used again
NotConsumed(c) == chal' = chal

Consumed(c) == chal' = [chal EXCEPT ![c] = "consumed"]

\* #consume: rows of used and expired tokens are deleted on the way.
Consume(c, s) ==
  /\ UnusedSession(s)
  /\ Consumed(c)
  /\ Mint(s, c, 0)
  /\ handoff' = [t \in Sessions |-> IF t = s THEN "open"
                                    ELSE IF handoff[t] = "open" THEN "open" ELSE "none"]
  /\ UNCHANGED attempts

WrongCode(C) ==
  /\ attempts' = [c \in Challenges |-> IF c \in C THEN attempts[c] + 1 ELSE attempts[c]]
  /\ UNCHANGED <<chal, sess, handoff>>

\* A challenge that takes a code: approved, not used up, not locked
Open(c) == chal[c] = "approved" /\ attempts[c] < MaxAttempts

\* completePairing with the secret of challenge c, or with a wrong one
LinkCode(c, right) ==
  /\ Open(c)
  /\ \/ right /\ \E s \in Sessions : Consume(c, s)
     \/ ~right /\ WrongCode({c})

\* #completeWithShortCode: nobody tells which challenge a wrong code was meant
\* for, so it counts against each of them.
ShortCode(c, right) ==
  \/ right /\ Open(c) /\ \E s \in Sessions : Consume(c, s)
  \/ /\ ~right /\ WrongCode({d \in Challenges : Open(d)})

CompletePairing(q, c, right) ==
  /\ phone[q] = "complete"
  /\ LinkCode(c, right) \/ ShortCode(c, right)
  /\ Answered(q)
  /\ UNCHANGED <<enabled, desk, listener, history>>
  /\ IF right THEN Announce ELSE UNCHANGED <<stream, late, wanted>>

\* A fault: a token that was declared void is still found
Found(s) == handoff[s] # "none" /\ sess[s].status = "active"

Redeemable(s) == handoff[s] = "open" /\ sess[s].status = "active"

\* redeemHandoff: a home-screen app gets no token of its own, a browser tab does.
RedeemHandoff(q, s, standalone) ==
  /\ phone[q] = "handoff" /\ Redeemable(s)
  /\ \E t \in Sessions :
       /\ UnusedSession(t)
       /\ Mint(t, 0, s)
       /\ handoff' = [handoff EXCEPT ![s] = "used",
                                     ![t] = IF standalone THEN "none" ELSE "open"]
  /\ Answered(q)
  /\ UNCHANGED <<chal, attempts, enabled, desk, listener, history>>
  /\ Announce

-----------------------------------------------------------------------------
(* Removing sessions *)

ChildrenIn(C) == \A s, t \in Sessions : s \in C /\ sess[t].parent = s => t \in C

\* The sessions derived from s at any depth: the least set with s and with the
\* children of each of its members
Tree(s) ==
  {t \in Sessions : \A C \in SUBSET Sessions : s \in C /\ ChildrenIn(C) => t \in C}

\* A fault: the walk ends at the sessions that are out already
LiveWalk(s) ==
  {t \in Sessions : \A C \in SUBSET Sessions :
     /\ s \in C
     /\ \A u, v \in Sessions :
          u \in C /\ sess[u].status = "active" /\ sess[v].parent = u => v \in C
     => t \in C}

\* The walk of revokeSession goes on behind a session that is out already.
Walk(s) == Tree(s)

Revoke(S) ==
  /\ sess' = [s \in Sessions |-> IF s \in S /\ sess[s].status = "active"
                                   THEN [sess[s] EXCEPT !.status = "revoked"] ELSE sess[s]]
  /\ handoff' = [s \in Sessions |-> IF s \in S /\ handoff[s] \in {"open", "expired"}
                                      THEN "used" ELSE handoff[s]]
  /\ voided' = voided \cup {s \in S : handoff[s] = "open"}

\* revokeSession with cascade, from the PC
RemoveSession(s) ==
  /\ sess[s].status # "none"
  /\ Revoke(Walk(s))
  /\ removed' = removed \cup {s}
  /\ UNCHANGED <<chal, attempts, enabled, phone, asker, desk, listener>>
  /\ Announce

\* revokeSession without cascade: a phone logs itself out.
Logout(s) ==
  /\ Usable(s)
  /\ Revoke({s})
  /\ UNCHANGED <<chal, attempts, enabled, phone, asker, desk, listener, removed>>
  /\ Announce

-----------------------------------------------------------------------------
(* Turning access on and off *)

\* setEnabled(false): off at once; the answer, and with it the announcement,
\* waits for the tailnet (inspect).
TurnOff(d) ==
  /\ desk[d] = "idle"
  /\ enabled' = FALSE
  /\ handoff' = [s \in Sessions |-> IF handoff[s] \in {"open", "expired"}
                                      THEN "used" ELSE handoff[s]]
  /\ voided' = voided \cup {s \in Sessions : handoff[s] = "open"}
  /\ desk' = [desk EXCEPT ![d] = "pausing"]
  /\ UNCHANGED <<chal, attempts, sess, phone, asker, stream, late, wanted, listener, removed>>

\* setEnabled(true) asks the tailnet first.
TurnOn(d) ==
  /\ desk[d] = "idle"
  /\ desk' = [desk EXCEPT ![d] = "resolving"]
  /\ UNCHANGED <<rows, enabled, phone, asker, stream, late, wanted, listener, history>>

\* The tailnet has answered, with an address or not: without one nothing is saved.
DeskAnswer(d) ==
  /\ desk[d] # "idle"
  /\ \E found \in BOOLEAN : enabled' = (enabled \/ (desk[d] = "resolving" /\ found))
  /\ desk' = [desk EXCEPT ![d] = "idle"]
  /\ UNCHANGED <<rows, phone, asker, listener, history>>
  /\ Announce

-----------------------------------------------------------------------------
(* The tailnet listener: updates run one after the other (scheduleTailnetSync) *)

\* syncTailnetListenerNow reads the switch ...
SyncStarts ==
  /\ syncer = "idle" /\ wanted
  /\ wanted' = FALSE
  /\ \/ enabled /\ syncer' = "address" /\ UNCHANGED bound
     \/ ~enabled /\ bound' = FALSE /\ UNCHANGED syncer
  /\ UNCHANGED <<rows, enabled, phone, asker, desk, stream, late, history>>

\* ... then waits for the address ...
SyncFindsAddress ==
  /\ syncer = "address"
  /\ \E found \in BOOLEAN :
       /\ bound' = (bound /\ found)
       /\ syncer' = IF found /\ ~bound THEN "listen" ELSE "idle"
  /\ UNCHANGED <<rows, enabled, phone, asker, desk, stream, late, wanted, history>>

\* ... and for the listener, which may not come up.
SyncListens ==
  /\ syncer = "listen"
  /\ bound' \in BOOLEAN
  /\ syncer' = "idle"
  /\ UNCHANGED <<rows, enabled, phone, asker, desk, stream, late, wanted, history>>

\* The board starts again: the rows and the switch are kept.
Restart ==
  /\ phone' = [q \in Phones |-> "idle"]
  /\ desk' = [d \in Desks |-> "idle"]
  /\ asker' = [q \in Phones |-> 0]
  /\ stream' = {} /\ late' = {}
  /\ wanted' = enabled
  /\ syncer' = "idle" /\ bound' = FALSE
  /\ UNCHANGED <<rows, enabled, history>>

-----------------------------------------------------------------------------
Next ==
  \/ WriteStreams \/ Expire \/ Restart
  \/ SyncStarts \/ SyncFindsAddress \/ SyncListens
  \/ \E s \in Sessions : Disconnect(s) \/ RemoveSession(s) \/ Logout(s)
  \/ \E c \in Challenges : CreateChallenge(c) \/ ApproveChallenge(c) \/ RevokeChallenge(c)
  \/ \E d \in Desks : TurnOff(d) \/ TurnOn(d) \/ DeskAnswer(d)
  \/ \E q \in Phones :
       \/ \E what \in {"complete", "handoff"} : PhoneAsks(q, what)
       \/ PhoneRefused(q)
       \/ \E s \in Sessions : AsksStream(q, s) \/ Connect(q, s)
       \/ \E c \in Challenges, right \in BOOLEAN : CompletePairing(q, c, right)
       \/ \E s \in Sessions, standalone \in BOOLEAN : RedeemHandoff(q, s, standalone)

Spec == Init /\ [][Next]_vars

\* The tailnet lookup has a timeout and a listener comes up or fails; the promises
\* of both are resumed by Node.
FairSpec ==
  /\ Spec
  /\ \A d \in Desks : WF_vars(DeskAnswer(d))
  /\ WF_vars(SyncStarts) /\ WF_vars(SyncFindsAddress) /\ WF_vars(SyncListens)

-----------------------------------------------------------------------------
(* Properties *)

TypeOK ==
  /\ chal \in [Challenges -> ChallengeStatus]
  /\ attempts \in [Challenges -> 0 .. MaxAttempts]
  /\ sess \in [Sessions -> [status : {"none", "active", "revoked"},
                            from : Challenges \cup {0}, parent : Sessions \cup {0}]]
  /\ handoff \in [Sessions -> {"none", "open", "used", "expired"}]
  /\ enabled \in BOOLEAN
  /\ phone \in [Phones -> {"idle", "complete", "handoff", "stream"}]
  /\ asker \in [Phones -> Sessions \cup {0}]
  /\ desk \in [Desks -> {"idle", "resolving", "pausing"}]
  /\ stream \subseteq Sessions /\ late \subseteq Sessions
  /\ wanted \in BOOLEAN /\ syncer \in {"idle", "address", "listen"} /\ bound \in BOOLEAN
  /\ removed \subseteq Sessions /\ voided \subseteq Sessions

\* One challenge pairs one phone and one handoff token starts one page, although
\* a link, a short code and a token can be in flight several times.
UsedOnce ==
  \A s, t \in Sessions :
    /\ sess[s].status # "none" /\ sess[t].status # "none"
    /\ sess[s].from = sess[t].from /\ sess[s].parent = sess[t].parent
    => s = t

\* Guessing ends: a challenge that was answered wrong too often pairs nobody,
\* whichever of its two codes was guessed at.
LockedStays ==
  [][\A c \in Challenges :
       attempts[c] = MaxAttempts /\ chal'[c] = "consumed" => chal[c] = "consumed"]_vars

\* A session removed on the PC takes with it every page derived from it, at any
\* depth, also behind one that logged itself out before, and none comes back.
RemovedStaysOut ==
  \A s \in removed : \A t \in Tree(s) : sess[t].status # "active"

\* A token that was outstanding when its session was ended or access was turned
\* off starts no page any more, not even by a request that was let in before.
VoidedIsUseless ==
  \A s \in voided :
    /\ handoff[s] # "open"
    /\ \A t \in Sessions : sess[t].status # "none" => sess[t].parent # s

\* The right to a stream is gone with its session or with the switch.  A stream is then
\* in the hub only while the request that turned access off waits for the tailnet, or
\* when it was asked for before and opened after the last look at the streams: the next
\* event or keep-alive closes it before it writes (revalidate).
StreamsAreUsable ==
  \A s \in stream : Usable(s) \/ s \in late \/ \E d \in Desks : desk[d] = "pausing"

\* Once access stays off, the listener is closed in the end and stays closed,
\* although an update that saw it on may be under way.
PausedIsClosed == <>[]~enabled => <>[]~bound
=============================================================================
