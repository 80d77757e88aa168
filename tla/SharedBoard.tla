------------------------------ MODULE SharedBoard ------------------------------
(***************************************************************************)
(* What the people who share a board in the cloud see of it: each of their *)
(* changes takes place whole, in one step, and after each step the rows    *)
(* fit together, whatever the requests behind the changes have read before *)
(* (cloud/src/index.mjs, migrations/0001_initial.sql).                     *)
(***************************************************************************)
EXTENDS Naturals

CONSTANTS Tasks, Comments, Files

VARIABLES
  projects,  \* the projects there are
  card,      \* [Tasks -> [state, project, version]]
  rel,       \* the relations: [type, source, target]
  comment,   \* [Comments -> [state, task, version]]
  file       \* the files that are shown, each with the card or comment it is on

vars == <<projects, card, rel, comment, file>>

Present(t) == card[t].state \in {"open", "archived"}
Live(c) == comment[c].state = "live"
RelationsOf(t) == {r \in rel : t \in {r.source, r.target}}
CommentsOf(t) == {c \in Comments : Live(c) /\ comment[c].task = t}
CanHaveFiles(o) == (o \in Tasks /\ Present(o)) \/ (o \in Comments /\ Live(o))

\* s is the parent of t
IsParent(s, t) == \E r \in rel : r.type = "parent" /\ r.source = s /\ r.target = t

\* Rows refer to rows that there are; relations stay within a project; a card has
\* at most one parent, and every set of cards has one without a parent in the set.
Fits ==
  /\ \A t \in Tasks : Present(t) => card[t].project \in projects
  /\ \A r \in rel : /\ Present(r.source) /\ Present(r.target)
                    /\ card[r.source].project = card[r.target].project
  /\ \A c \in Comments : Live(c) => comment[c].task \in Tasks /\ Present(comment[c].task)
  /\ \A f \in DOMAIN file : CanHaveFiles(file[f])
  /\ \A t, u, v \in Tasks : IsParent(u, t) /\ IsParent(v, t) => u = v
  /\ \A S \in SUBSET Tasks : S # {} => \E t \in S : \A u \in S : ~IsParent(u, t)

-----------------------------------------------------------------------------
(* Changes *)

OpenProject(p) == projects' = projects \cup {p} /\ UNCHANGED <<card, rel, comment, file>>
CloseProject(p) ==
  /\ \A t \in Tasks : Present(t) => card[t].project # p
  /\ projects' = projects \ {p} /\ UNCHANGED <<card, rel, comment, file>>

MakeCard(t, p) ==
  /\ card[t].state = "none"
  /\ card' = [card EXCEPT ![t] = [state |-> "open", project |-> p, version |-> 1]]
  /\ UNCHANGED <<projects, rel, comment, file>>

\* One change of a card that is there: its version counts the changes.
Counted(t, state, p) ==
  /\ Present(t)
  /\ card' = [card EXCEPT ![t] = [state |-> state, project |-> p, version |-> @.version + 1]]

\* A card is moved, archived, restored or, without relations, transferred.
ChangeCard(t) ==
  /\ \/ \E state \in {"open", "archived"} : Counted(t, state, card[t].project)
     \/ RelationsOf(t) = {} /\ \E p \in projects : Counted(t, card[t].state, p)
  /\ UNCHANGED <<projects, rel, comment, file>>

\* A new parent replaces the one the card had.
Relate(t, r) ==
  /\ t \in {r.source, r.target}
  /\ rel' = {s \in rel : ~(r.type = "parent" /\ s.type = "parent" /\ s.target = r.target)} \cup {r}
  /\ Counted(t, card[t].state, card[t].project)
  /\ UNCHANGED <<projects, comment, file>>

Unrelate(t, r) ==
  /\ t \in {r.source, r.target}
  /\ rel' = rel \ {r}
  /\ Counted(t, card[t].state, card[t].project)
  /\ UNCHANGED <<projects, comment, file>>

\* The files without those on O
Without(O) == [f \in {g \in DOMAIN file : file[g] \notin O} |-> file[f]]

\* Everything that is on a card goes with it.
DeleteCard(t) ==
  /\ card[t].state = "archived"
  /\ card' = [card EXCEPT ![t].state = "gone"]
  /\ rel' = rel \ RelationsOf(t)
  /\ comment' = [c \in Comments |-> IF c \in CommentsOf(t) THEN [comment[c] EXCEPT !.state = "gone"]
                                                           ELSE comment[c]]
  /\ file' = Without({t} \cup CommentsOf(t))
  /\ UNCHANGED projects

WriteComment(c, t) ==
  /\ comment[c].state = "none"
  /\ comment' = [comment EXCEPT ![c] = [state |-> "live", task |-> t, version |-> 1]]
  /\ UNCHANGED <<projects, card, rel, file>>
EditComment(c) ==
  /\ Live(c)
  /\ comment' = [comment EXCEPT ![c].version = @ + 1]
  /\ UNCHANGED <<projects, card, rel, file>>
DeleteComment(c) ==
  /\ Live(c)
  /\ comment' = [comment EXCEPT ![c].state = "deleted"]
  /\ file' = Without({c})
  /\ UNCHANGED <<projects, card, rel>>

Attach(f, o) ==
  /\ f \notin DOMAIN file
  /\ file' = [g \in DOMAIN file \cup {f} |-> IF g = f THEN o ELSE file[g]]
  /\ UNCHANGED <<projects, card, rel, comment>>
Detach(f) ==
  /\ file' = [g \in DOMAIN file \ {f} |-> file[g]]
  /\ UNCHANGED <<projects, card, rel, comment>>

-----------------------------------------------------------------------------

Relations == [type : {"parent", "blocks", "related"}, source : Tasks, target : Tasks]

CardChanges(t) ==
  \/ ChangeCard(t) \/ DeleteCard(t)
  \/ \E p \in projects : MakeCard(t, p)
  \/ \E r \in Relations : Relate(t, r) \/ Unrelate(t, r)

CommentChanges(c) ==
  EditComment(c) \/ DeleteComment(c) \/ \E t \in Tasks : WriteComment(c, t)

FileChanges(f) == Detach(f) \/ \E o \in Tasks \cup Comments : Attach(f, o)

Changes ==
  \/ \E p \in projects \cup projects' : OpenProject(p) \/ CloseProject(p)
  \/ \E t \in Tasks : CardChanges(t)
  \/ \E c \in Comments : CommentChanges(c)
  \/ \E f \in Files : FileChanges(f)

Next == Changes /\ Fits'

Spec == Fits /\ [][Next]_vars
=============================================================================
