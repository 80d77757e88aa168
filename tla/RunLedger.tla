------------------------------ MODULE RunLedger ------------------------------
(***************************************************************************)
(* What the rows of the run service tell whoever reads the board: a card   *)
(* has at most one run that is going on, a run that ended stays ended, and *)
(* a message that is shown as sent was delivered.  The one exception is a  *)
(* run whose stop was cut off by a restart of the board: recovery may take *)
(* it up again (recoverOnStartup).                                         *)
(***************************************************************************)
CONSTANTS Tasks, Runs, Followups

VARIABLES
  used,       \* [Tasks -> SUBSET Runs]: the runs a card had so far
  current,    \* [Tasks -> SUBSET Runs]: the one that is going on, if any
  doubtful,   \* runs whose stop a restart cut off
  message,    \* [Followups -> {"none", "pending", "sent", "dropped"}]
  delivered   \* the messages that reached a session

vars == <<used, current, doubtful, message, delivered>>

Init ==
  /\ used = [t \in Tasks |-> {}]
  /\ current = [t \in Tasks |-> {}]
  /\ doubtful = {}
  /\ message = [f \in Followups |-> "none"]
  /\ delivered = {}

\* Recovery goes through the doubtful runs while the board is used.
Dealt == doubtful' \subseteq doubtful

Begin(t, r) ==
  /\ current[t] = {} /\ \A u \in Tasks : r \notin used[u]
  /\ used' = [used EXCEPT ![t] = @ \cup {r}]
  /\ current' = [current EXCEPT ![t] = {r}]
  /\ Dealt

\* The runs of the cards T end; those of several cards when the app-server exits.
End(T) ==
  /\ current' = [t \in Tasks |-> IF t \in T THEN {} ELSE current[t]]
  /\ UNCHANGED used
  /\ Dealt

\* Recovery takes up a run; it has not ended, or its stop was cut off.
TakeUp(t, r) ==
  /\ r \in used[t] \cap doubtful /\ current[t] \subseteq {r}
  /\ current' = [current EXCEPT ![t] = {r}]
  /\ UNCHANGED used
  /\ Dealt

\* The board restarts: a run that is going on may be one that was being stopped.
Restart ==
  /\ doubtful' \subseteq UNION {current[t] : t \in Tasks}
  /\ UNCHANGED <<used, current>>

\* The outcome of a message is final.
MayBecome(f, s) ==
  \/ s = message[f]
  \/ message[f] = "none" /\ s = "pending"
  \/ message[f] = "pending" /\ s \in {"sent", "dropped"}

Write ==
  /\ message' \in [Followups -> {"none", "pending", "sent", "dropped"}]
  /\ delivered \subseteq delivered' /\ delivered' \subseteq Followups
  /\ \A f \in Followups :
       MayBecome(f, message'[f]) /\ (message'[f] = "sent" => f \in delivered')

Next ==
  /\ \/ \E T \in SUBSET Tasks : End(T)
     \/ \E t \in Tasks, r \in Runs : Begin(t, r) \/ TakeUp(t, r)
     \/ Restart
  /\ Write

Spec == Init /\ [][Next]_vars
=============================================================================
