------------------------------ MODULE CloudBoard ------------------------------
(* The shared board of the Cloudflare worker (cloud/src/index.mjs): its D1 rows and R2
   objects, and requests of several people that read rows first and write them some
   awaits later.  A batch is one transaction; between two awaits anything may happen.

   A request is served once.  One that is refused by the first row it reads changes
   nothing and is left out; titles, labels, sort orders, activities and the origin of a
   relation are left out as well.  Every write moves the revision. *)
EXTENDS Naturals

CONSTANTS Tasks, Projects, Comments, Files, Requests, Types,
          NoTask, NoProject, NoComment, NoFile,
          Starts     \* the boards the runs begin with, and the requests they get

VARIABLES projects,  \* rows of projects
          task,      \* rows of tasks
          rel,       \* task_relations
          comment,   \* rows of comments
          owner,     \* what a file was uploaded to
          rows,      \* files with a row in attachments
          objects,   \* files with an object in R2
          revision,  \* global_revision
          reader,    \* a client that follows the comments of a task by cursor
          request,   \* the requests
          offered,   \* the kinds of requests of this board
          broken     \* history: the files that were in the hand of a request when D1, R2 or
                     \* the worker failed

board == <<projects, task, rel>>
store == <<comment, owner, rows, objects>>
vars  == <<board, store, revision, reader, request, offered, broken>>

ASSUME RowsAssumption ==
  /\ Tasks \subseteq Nat /\ Types \subseteq {"parent", "blocks", "blocked_by", "related"}
  /\ NoTask \notin Tasks \cup Comments /\ NoComment \notin Comments

TaskRow    == [state : {"none", "open", "archived", "gone"}, project : Projects \cup {NoProject},
               version : Nat]
CommentRow == [state : {"none", "live", "deleted", "gone"}, task : Tasks \cup {NoTask},
               version : Nat, revision : Nat]

Kinds == {"none", "move", "archive", "restore", "delete", "transfer", "createTask",
          "createProject", "deleteProject", "add", "remove", "createComment",
          "updateComment", "deleteComment", "upload", "deleteFile"}

RelationRow == [type : {"parent", "blocks", "related"}, source : Tasks, target : Tasks]
RequestRow == [step : {"new", "done", "other", "look", "write", "put", "insert", "objects"},
               kind : Kinds, task : Tasks \cup {NoTask}, other : Tasks \cup {NoTask},
               type : Types \cup {"none"}, project : Projects \cup {NoProject},
               comment : Comments \cup {NoComment}, version : Nat,
               file : Files \cup {NoFile}, files : SUBSET Files, replaces : BOOLEAN]

NoRequest == [step |-> "new", kind |-> "none", task |-> NoTask, other |-> NoTask,
              type |-> "none", project |-> NoProject, comment |-> NoComment,
              version |-> 0, file |-> NoFile, files |-> {}, replaces |-> FALSE]

-----------------------------------------------------------------------------
(* Rows *)

Stored(row) == row.state \in {"open", "archived"}
Exists(t) == Stored(task[t])
InProject(p) == {t \in Tasks : Exists(t) /\ task[t].project = p}
Live(c) == comment[c].state = "live"

RelationsOf(t) == {r \in rel : t \in {r.source, r.target}}

\* relationEndpoints: `related' has its two cards in a fixed order
Endpoints(type, t, u) ==
  CASE type = "parent"                -> [type |-> "parent", source |-> u, target |-> t]
    [] type = "blocks"                -> [type |-> "blocks", source |-> t, target |-> u]
    [] type = "blocked_by"            -> [type |-> "blocks", source |-> u, target |-> t]
    [] type = "related" /\ t < u      -> [type |-> "related", source |-> t, target |-> u]
    [] type = "related" /\ ~(t < u)   -> [type |-> "related", source |-> u, target |-> t]

Parents(R, t) == {u \in Tasks : [type |-> "parent", source |-> u, target |-> t] \in R}

\* No card has two parents, and no cards are in a cycle.
Forest(R) ==
  /\ \A t \in Tasks : \A u, v \in Parents(R, t) : u = v
  /\ \A S \in SUBSET Tasks : S # {} => \E t \in S : Parents(R, t) \cap S = {}

\* Related cards exist and are in one project.
Related(R, T) ==
  \A r \in R : /\ Stored(T[r.source]) /\ Stored(T[r.target])
               /\ T[r.source].project = T[r.target].project

\* WITH RECURSIVE ancestors: what every set holds that has the parents of t and the
\* parents of its members
IsAncestor(R, a, t) ==
  \A S \in SUBSET Tasks :
    Parents(R, t) \subseteq S /\ (\A u \in S : Parents(R, u) \subseteq S) => a \in S

\* A fault: only the request looks for a cycle
NoTrigger(R, r) == FALSE

\* task_relations_prevent_parent_cycle
CycleTrigger(R, r) == r.type = "parent" /\ IsAncestor(R, r.target, r.source)

\* D1 refuses a row: the triggers, the checks, the foreign keys and the unique indexes
Refuses(R, r) ==
  \/ r.source = r.target
  \/ CycleTrigger(R, r)
  \/ ~Exists(r.source) \/ ~Exists(r.target)
  \/ task[r.source].project # task[r.target].project
  \/ r \in R
  \/ r.type = "parent" /\ Parents(R, r.target) # {}

FilesOf(o) == {f \in rows : owner[f] = o}
CommentsOf(t) == {c \in Comments : Live(c) /\ comment[c].task = t}

\* A fault: the files of the comments are forgotten
OwnFiles(t) == FilesOf(t)

\* attachments WHERE task_id = t
AllFiles(t) == FilesOf(t) \cup UNION {FilesOf(c) : c \in CommentsOf(t)}

OwnerExists(o) == (o \in Tasks /\ Exists(o)) \/ (o \in Comments /\ Live(o))

-----------------------------------------------------------------------------
(* Requests *)

At(q, step, kinds) == request[q].step = step /\ request[q].kind \in kinds
Goes(q, step) == request' = [request EXCEPT ![q].step = step]
Over(q) == request' = [request EXCEPT ![q] = [NoRequest EXCEPT !.step = "done"]]

Begins(q, kind, r) ==
  /\ request[q].step = "new" /\ kind \in offered
  /\ request' = [request EXCEPT ![q] = [r EXCEPT !.kind = kind]]
  /\ UNCHANGED <<board, store, revision, reader, offered, broken>>

Writes == revision' = revision + 1

\* The row still has the version the request came with.
Fresh(q) == Exists(request[q].task) /\ task[request[q].task].version = request[q].version

Touched(t) == [task EXCEPT ![t].version = @ + 1]

(* moveTask, archiveTask, restoreTask, deleteArchivedTask, updateTask *)

AllowedIn(kind) == CASE kind = "move"                 -> {"open"}
                     [] kind \in {"restore", "delete"} -> {"archived"}
                     [] OTHER                          -> {"open", "archived"}

TaskRequest(q, kind, t, p) ==
  /\ task[t].state \in AllowedIn(kind)
  /\ Begins(q, kind, [NoRequest EXCEPT
       !.step = IF kind = "transfer" THEN "look" ELSE "write",
       !.task = t, !.project = p, !.version = task[t].version])

NewState(kind, state) ==
  IF kind = "archive" THEN "archived" ELSE IF kind = "restore" THEN "open" ELSE state

\* UPDATE tasks WHERE id AND version, or 409
WriteTask(q) ==
  LET t == request[q].task IN
  /\ At(q, "write", {"move", "archive", "restore"})
  /\ \/ /\ Fresh(q) /\ Writes
        /\ task' = [Touched(t) EXCEPT ![t].state = NewState(request[q].kind, @)]
     \/ ~Fresh(q) /\ UNCHANGED <<task, revision>>
  /\ Over(q)
  /\ UNCHANGED <<projects, rel, store, reader, offered, broken>>

\* requireProject, and no relation may be left
LookTransfer(q) ==
  /\ At(q, "look", {"transfer"})
  /\ IF request[q].project \in projects /\ RelationsOf(request[q].task) = {}
       THEN Goes(q, "write") ELSE Over(q)
  /\ UNCHANGED <<board, store, revision, reader, offered, broken>>

\* A fault: the relations were looked for before
NoGuard(t) == TRUE

\* NOT EXISTS (SELECT 1 FROM task_relations ...)
RelationGuard(t) == RelationsOf(t) = {}

WriteTransfer(q) ==
  LET t == request[q].task
      p == request[q].project
      moves == Fresh(q) /\ RelationGuard(t) /\ p \in projects IN
  /\ At(q, "write", {"transfer"})
  /\ \/ moves /\ Writes /\ task' = [Touched(t) EXCEPT ![t].project = p]
     \/ ~moves /\ UNCHANGED <<task, revision>>
  /\ Over(q)
  /\ UNCHANGED <<projects, rel, store, reader, offered, broken>>

\* The rows of comments, files and relations go with the row of their card.
WriteDelete(q) ==
  LET t == request[q].task IN
  /\ At(q, "write", {"delete"})
  /\ \/ /\ Fresh(q) /\ task[t].state = "archived" /\ Writes
        /\ task' = [task EXCEPT ![t].state = "gone"]
        /\ rel' = rel \ RelationsOf(t)
        /\ comment' = [c \in Comments |-> IF c \in CommentsOf(t)
                                            THEN [comment[c] EXCEPT !.state = "gone"]
                                            ELSE comment[c]]
        /\ rows' = rows \ (FilesOf(t) \cup UNION {FilesOf(c) : c \in CommentsOf(t)})
        /\ request' = [request EXCEPT ![q].step = "objects", ![q].files = AllFiles(t)]
     \/ /\ ~(Fresh(q) /\ task[t].state = "archived")
        /\ Over(q)
        /\ UNCHANGED <<task, rel, comment, rows, revision>>
  /\ UNCHANGED <<projects, owner, objects, reader, offered, broken>>

(* createTask, createProject, deleteProject *)

ProjectRequest(q, kind, p) ==
  /\ (p \in projects) = (kind # "createProject")
  /\ Begins(q, kind, [NoRequest EXCEPT !.step = "write", !.project = p])

CreateTask(q) ==
  LET p == request[q].project IN
  /\ At(q, "write", {"createTask"})
  /\ \/ /\ p \in projects /\ Writes
        /\ \E t \in Tasks :
             /\ task[t].state = "none"
             /\ task' = [task EXCEPT ![t] = [state |-> "open", project |-> p, version |-> 1]]
     \/ p \notin projects /\ UNCHANGED <<task, revision>>
  /\ Over(q)
  /\ UNCHANGED <<projects, rel, store, reader, offered, broken>>

CreateProject(q) ==
  /\ At(q, "write", {"createProject"})
  /\ projects' = projects \cup {request[q].project} /\ Writes
  /\ Over(q)
  /\ UNCHANGED <<task, rel, store, reader, offered, broken>>

DeleteProject(q) ==
  LET p == request[q].project IN
  /\ At(q, "write", {"deleteProject"})
  /\ \/ InProject(p) = {} /\ projects' = projects \ {p} /\ Writes
     \/ InProject(p) # {} /\ UNCHANGED <<projects, revision>>
  /\ Over(q)
  /\ UNCHANGED <<task, rel, store, reader, offered, broken>>

(* addRelation, removeRelation *)

Row(q) == Endpoints(request[q].type, request[q].task, request[q].other)

RelationRequest(q, kind, type, t, u) ==
  /\ Exists(t) /\ t # u
  /\ Begins(q, kind, [NoRequest EXCEPT !.step = "other", !.task = t, !.other = u, !.type = type,
                                       !.version = task[t].version, !.project = task[t].project])

\* assertRelationTasks: the other card is read after the first one.
ReadOther(q) ==
  LET u == request[q].other IN
  /\ At(q, "other", {"add", "remove"})
  /\ IF Exists(u) /\ task[u].project = request[q].project THEN Goes(q, "look") ELSE Over(q)
  /\ UNCHANGED <<board, store, revision, reader, offered, broken>>

\* The request looks for a cycle and for the parent it replaces, or for the relation.
LookAdd(q) ==
  LET r == Row(q)
      parent == r.type = "parent" IN
  /\ At(q, "look", {"add"})
  /\ IF r \in rel \/ (parent /\ IsAncestor(rel, r.target, r.source))
       THEN Over(q)
       ELSE request' = [request EXCEPT ![q].step = "write",
                          ![q].replaces = parent /\ Parents(rel, r.target) # {}]
  /\ UNCHANGED <<board, store, revision, reader, offered, broken>>

\* The parent that was found is replaced; without it there is nothing to delete.
Kept(q) ==
  IF request[q].replaces
    THEN {r \in rel : ~(r.type = "parent" /\ r.target = request[q].task)} ELSE rel

WriteAdd(q) ==
  LET inserts == Fresh(q) /\ ~Refuses(Kept(q), Row(q)) IN
  /\ At(q, "write", {"add"})
  /\ \/ /\ inserts /\ Writes
        /\ rel' = Kept(q) \cup {Row(q)}
        /\ task' = Touched(request[q].task)
     \/ ~inserts /\ UNCHANGED <<rel, task, revision>>
  /\ Over(q)
  /\ UNCHANGED <<projects, store, reader, offered, broken>>

\* With another origin the relation stays as it is.
LookRemove(q) ==
  /\ At(q, "look", {"remove"})
  /\ \/ Row(q) \in rel /\ Goes(q, "write")
     \/ Over(q)
  /\ UNCHANGED <<board, store, revision, reader, offered, broken>>

\* A relation that only comes from a text stays while a text has it.
WriteRemove(q) ==
  /\ At(q, "write", {"remove"})
  /\ \/ /\ Fresh(q) /\ Writes
        /\ rel' = rel \ {Row(q)}
        /\ task' = Touched(request[q].task)
     \/ /\ ~Fresh(q) \/ request[q].type = "related"
        /\ UNCHANGED <<rel, task, revision>>
  /\ Over(q)
  /\ UNCHANGED <<projects, store, reader, offered, broken>>

-----------------------------------------------------------------------------
(* Comments and files *)

\* createComment: the card is looked for, then the row is inserted.
CommentOn(q, t) ==
  /\ Exists(t)
  /\ Begins(q, "createComment", [NoRequest EXCEPT !.step = "write", !.task = t])

CreateComment(q) ==
  LET t == request[q].task IN
  /\ At(q, "write", {"createComment"})
  /\ \/ /\ Exists(t) /\ Writes
        /\ \E c \in Comments :
             /\ comment[c].state = "none"
             /\ comment' = [comment EXCEPT ![c] = [state |-> "live", task |-> t, version |-> 1,
                                                   revision |-> revision + 1]]
     \/ ~Exists(t) /\ UNCHANGED <<comment, revision>>
  /\ Over(q)
  /\ UNCHANGED <<board, owner, rows, objects, reader, offered, broken>>

\* updateComment and deleteComment read the row; the one that deletes lists its files.
CommentRequest(q, kind, c) ==
  /\ Live(c)
  /\ Begins(q, kind, [NoRequest EXCEPT
       !.step = IF kind = "deleteComment" THEN "look" ELSE "write",
       !.comment = c, !.version = comment[c].version])

FreshComment(q) ==
  Live(request[q].comment) /\ comment[request[q].comment].version = request[q].version

\* A fault: the change keeps the revision the comment was made at
SameRevision(c) == comment[c].revision

\* change_revision of a row that is written
NextRevision(c) == revision + 1

UpdateComment(q) ==
  LET c == request[q].comment IN
  /\ At(q, "write", {"updateComment"})
  /\ \/ /\ FreshComment(q) /\ Writes
        /\ comment' = [comment EXCEPT ![c].version = @ + 1, ![c].revision = NextRevision(c)]
     \/ ~FreshComment(q) /\ UNCHANGED <<comment, revision>>
  /\ Over(q)
  /\ UNCHANGED <<board, owner, rows, objects, reader, offered, broken>>

\* attachmentsForComment
ListFiles(q) ==
  /\ At(q, "look", {"deleteComment"})
  /\ request' = [request EXCEPT ![q].step = "write", ![q].files = FilesOf(request[q].comment)]
  /\ UNCHANGED <<board, store, revision, reader, offered, broken>>

DeleteComment(q) ==
  LET c == request[q].comment IN
  /\ At(q, "write", {"deleteComment"})
  /\ \/ /\ FreshComment(q) /\ Writes
        /\ comment' = [comment EXCEPT ![c].state = "deleted"]
        /\ rows' = rows \ FilesOf(c)
        /\ Goes(q, "objects")
     \/ /\ ~FreshComment(q)
        /\ Over(q)
        /\ UNCHANGED <<comment, rows, revision>>
  /\ UNCHANGED <<board, owner, objects, reader, offered, broken>>

\* uploadAttachment: the owner is looked for, the object is put, the row is inserted.
Upload(q, o) ==
  /\ OwnerExists(o)
  /\ Begins(q, "upload", [NoRequest EXCEPT !.step = "put",
       !.task = IF o \in Tasks THEN o ELSE NoTask,
       !.comment = IF o \in Comments THEN o ELSE NoComment])

UploadOwner(q) == IF request[q].comment = NoComment THEN request[q].task ELSE request[q].comment

Put(q) ==
  /\ At(q, "put", {"upload"})
  /\ \E f \in Files :
       /\ owner[f] = NoTask
       /\ owner' = [owner EXCEPT ![f] = UploadOwner(q)]
       /\ objects' = objects \cup {f}
       /\ request' = [request EXCEPT ![q].step = "insert", ![q].file = f]
  /\ UNCHANGED <<board, comment, rows, revision, reader, offered, broken>>

InsertRow(q) ==
  OwnerExists(UploadOwner(q)) /\ rows' = rows \cup {request[q].file} /\ Writes

\* The insertion fails when the owner is gone, and D1 may fail, before it has inserted
\* the row or between that and its answer.  The catch removes the object in each case.
Insert(q) ==
  /\ At(q, "insert", {"upload"})
  /\ \/ InsertRow(q) /\ Over(q) /\ UNCHANGED broken
     \/ /\ request' = [request EXCEPT ![q].step = "objects", ![q].files = {request[q].file}]
        /\ \/ UNCHANGED <<rows, revision, broken>>
           \/ InsertRow(q) /\ broken' = broken \cup {request[q].file}
  /\ UNCHANGED <<board, comment, owner, objects, reader, offered>>

\* deleteAttachment
FileRequest(q, f) ==
  /\ f \in rows
  /\ Begins(q, "deleteFile", [NoRequest EXCEPT !.step = "write", !.file = f])

\* A fault: the object goes first
ObjectFirst(q) == objects' = objects \ {request[q].file} /\ UNCHANGED rows

RowFirst(q) == rows' = rows \ {request[q].file} /\ UNCHANGED objects

DeleteRow(q) ==
  LET f == request[q].file IN
  /\ At(q, "write", {"deleteFile"})
  /\ RowFirst(q) /\ Writes
  /\ request' = [request EXCEPT ![q].step = "objects", ![q].files = {f}]
  /\ UNCHANGED <<board, comment, owner, reader, offered, broken>>

\* ATTACHMENTS.delete
DeleteObjects(q) ==
  /\ request[q].step = "objects"
  /\ objects' = objects \ request[q].files
  /\ Over(q)
  /\ UNCHANGED <<board, comment, owner, rows, revision, reader, offered, broken>>

\* The files a request has yet to give a row or to remove
InHand(q) ==
  {f \in Files : f \in request[q].files \/ (At(q, "insert", {"upload"}) /\ f = request[q].file)}

\* D1 or R2 fails, or the worker is stopped, between two writes of a request.  Before
\* its first write that is a request that never goes on.
Fails(q) ==
  /\ request[q].step \in {"insert", "objects"}
  /\ broken' = broken \cup InHand(q)
  /\ Over(q)
  /\ UNCHANGED <<board, store, revision, reader, offered>>

-----------------------------------------------------------------------------
(* A client that follows the comments of a card: listComments, listCommentsAfter *)

\* The comments that are read, the last of their revisions is the next cursor.
Reads(S, none) ==
  /\ "list" \in offered /\ Exists(reader.task)
  /\ \E last \in IF S = {} THEN {none} ELSE {comment[c].revision : c \in S} :
       /\ \A c \in S : comment[c].revision <= last
       /\ reader' = [reader EXCEPT
            !.listed = TRUE, !.cursor = last,
            !.known = [c \in Comments |-> IF c \in S THEN comment[c].version ELSE @[c]]]
  /\ UNCHANGED <<board, store, revision, request, offered, broken>>

ListComments == ~reader.listed /\ Reads(CommentsOf(reader.task), 0)

ListCommentsAfter ==
  /\ reader.listed
  /\ Reads({c \in CommentsOf(reader.task) : comment[c].revision > reader.cursor}, reader.cursor)

-----------------------------------------------------------------------------

\* A board the requests may find
ASSUME StartsAssumption ==
  \A start \in Starts :
    /\ start.projects \subseteq Projects /\ start.task \in [Tasks -> TaskRow]
    /\ start.rel \subseteq RelationRow /\ Forest(start.rel) /\ Related(start.rel, start.task)
    /\ start.comment \in [Comments -> CommentRow]
    /\ \A c \in Comments : start.comment[c].revision <= start.revision
    /\ start.owner \in [Files -> Tasks \cup Comments \cup {NoTask}]
    /\ start.revision \in Nat /\ start.reads \in Tasks
    /\ \A t \in Tasks : Stored(start.task[t]) => start.task[t].project \in start.projects
    /\ \A c \in Comments : start.comment[c].state = "live" =>
         start.comment[c].task \in Tasks /\ Stored(start.task[start.comment[c].task])
    /\ \A f \in Files :
         \/ start.owner[f] = NoTask
         \/ start.owner[f] \in Tasks /\ Stored(start.task[start.owner[f]])
         \/ start.owner[f] \in Comments /\ start.comment[start.owner[f]].state = "live"

Init ==
  \E start \in Starts :
    /\ projects = start.projects /\ task = start.task /\ rel = start.rel
    /\ comment = start.comment /\ owner = start.owner
    /\ rows = {f \in Files : start.owner[f] # NoTask} /\ objects = rows
    /\ revision = start.revision
    /\ reader = [task |-> start.reads, listed |-> FALSE, cursor |-> 0,
                 known |-> [c \in Comments |-> 0]]
    /\ request = [q \in Requests |-> IF q \in start.requests THEN NoRequest
                                      ELSE [NoRequest EXCEPT !.step = "done"]]
    /\ offered = start.offered
    /\ broken = {}

Start(q) ==
  \/ \E t \in Tasks :
       \/ \E kind \in {"move", "archive", "restore", "delete"} : TaskRequest(q, kind, t, NoProject)
       \/ \E p \in Projects \ {task[t].project} : TaskRequest(q, "transfer", t, p)
       \/ \E kind \in {"add", "remove"}, type \in Types, u \in Tasks :
            RelationRequest(q, kind, type, t, u)
       \/ CommentOn(q, t)
  \/ \E kind \in {"createTask", "createProject", "deleteProject"}, p \in Projects :
       ProjectRequest(q, kind, p)
  \/ \E kind \in {"updateComment", "deleteComment"}, c \in Comments : CommentRequest(q, kind, c)
  \/ \E o \in Tasks \cup Comments : Upload(q, o)
  \/ \E f \in Files : FileRequest(q, f)

Continue(q) ==
  \/ WriteTask(q) \/ LookTransfer(q) \/ WriteTransfer(q) \/ WriteDelete(q)
  \/ CreateTask(q) \/ CreateProject(q) \/ DeleteProject(q)
  \/ ReadOther(q) \/ LookAdd(q) \/ WriteAdd(q) \/ LookRemove(q) \/ WriteRemove(q)
  \/ CreateComment(q) \/ UpdateComment(q) \/ ListFiles(q) \/ DeleteComment(q)
  \/ Put(q) \/ Insert(q) \/ DeleteRow(q) \/ DeleteObjects(q)
  \/ Fails(q)

Next ==
  \/ \E q \in Requests : Start(q) \/ Continue(q)
  \/ ListComments \/ ListCommentsAfter

Spec == Init /\ [][Next]_vars

-----------------------------------------------------------------------------
(* Properties *)

\* Every variable keeps its kind of value.
TypeOK ==
  /\ projects \subseteq Projects /\ task \in [Tasks -> TaskRow] /\ rel \subseteq RelationRow
  /\ comment \in [Comments -> CommentRow]
  /\ owner \in [Files -> Tasks \cup Comments \cup {NoTask}]
  /\ rows \subseteq Files /\ objects \subseteq Files
  /\ revision \in Nat
  /\ reader \in [task : Tasks, listed : BOOLEAN, cursor : Nat, known : [Comments -> Nat]]
  /\ request \in [Requests -> RequestRow] /\ broken \subseteq Files

\* The relations of parents have no cycle and no card has two parents, although two
\* requests may each have looked before the other one wrote (the test "concurrent
\* inverse parent writes cannot create a cycle").
ParentsAreTrees == Forest(rel)

\* Two related cards exist and are in one project, although one of them may be
\* transferred or deleted while the relation is added.
RelationsStayInProject == Related(rel, task)

\* A file the board shows can be read: its object is there before its row and as long,
\* whatever fails.  Only a file whose row D1 had inserted when it failed to answer is
\* shown without its object: its upload removed the object.
RowsHaveObjects == rows \subseteq objects \cup broken

\* Nobody will remove the object any more.
Forgotten(f) == \A q \in Requests : f \notin InHand(q)

\* An object without a row is on its way in or out.  It is left behind only when the
\* request that had it in hand was cut off, or when it was uploaded to a comment that
\* was deleted meanwhile.
ObjectsAreOwned ==
  \A f \in objects \ rows :
    Forgotten(f) => \/ f \in broken
                    \/ owner[f] \in Comments /\ comment[owner[f]].state = "deleted"

\* A client that has listed the comments once and then asks by cursor knows the present
\* text of every comment up to its cursor: none is skipped, however the changes and
\* the reads overtake one another.
CursorMissesNothing ==
  reader.listed =>
    \A c \in CommentsOf(reader.task) :
      comment[c].revision > reader.cursor \/ reader.known[c] = comment[c].version

\* What is shown of a comment, and the files that are shown
ShownComments ==
  [c \in Comments |-> [state |-> comment[c].state, task |-> comment[c].task,
                       version |-> comment[c].version]]
ShownFiles == [f \in rows |-> owner[f]]

Shared == INSTANCE SharedBoard WITH card <- task, comment <- ShownComments, file <- ShownFiles

\* However the requests read and write, what people see is a SharedBoard: each change is
\* whole and made to the board as it is then, and cards, relations, comments and files
\* always refer to rows that there are.
KeepsBoard == Shared!Spec
=============================================================================
