--------------------------- MODULE CloudBoardProofs ---------------------------
(***************************************************************************)
(* Proofs about CloudBoard, for every board, number of requests and start. *)
(* Groups of facts are inductive one after the other: the types with what  *)
(* a request is about, the relations, the files with who will remove them, *)
(* the revisions a client that reads by cursor relies on, and what rows    *)
(* and requests refer to.  With them the worker implements SharedBoard.    *)
(***************************************************************************)
EXTENDS CloudBoard, TLAPS

-----------------------------------------------------------------------------
(* Types *)

TaskKinds == {"move", "archive", "restore", "delete", "transfer", "add", "remove", "createComment"}

\* What a request is about is a row of the kind it needs.
Aimed(r) ==
  /\ r.kind \in TaskKinds => r.task \in Tasks
  /\ r.kind \in {"add", "remove"} => r.other \in Tasks /\ r.type \in Types
  /\ r.kind \in {"transfer", "createTask", "createProject", "deleteProject"}
       => r.project \in Projects
  /\ r.kind \in {"updateComment", "deleteComment"} => r.comment \in Comments
  /\ r.kind = "upload" => \/ r.task \in Tasks /\ r.comment = NoComment
                          \/ r.comment \in Comments
  /\ r.kind = "deleteFile" \/ (r.kind = "upload" /\ r.step = "insert") => r.file \in Files

AimedRow == {r \in RequestRow : Aimed(r)}

BoardType == projects \subseteq Projects /\ task \in [Tasks -> TaskRow] /\ rel \subseteq RelationRow
StoreType ==
  /\ comment \in [Comments -> CommentRow]
  /\ owner \in [Files -> Tasks \cup Comments \cup {NoTask}]
  /\ rows \subseteq Files /\ objects \subseteq Files
ReaderType ==
  reader \in [task : Tasks, listed : BOOLEAN, cursor : Nat, known : [Comments -> Nat]]

Typed ==
  /\ BoardType /\ StoreType /\ ReaderType
  /\ revision \in Nat /\ broken \subseteq Files
  /\ request \in [Requests -> AimedRow]

\* The request that goes on, and the ones that do not
LEMMA RowChange ==
  ASSUME request \in [Requests -> AimedRow], NEW q \in Requests, NEW r \in AimedRow,
         request' = [request EXCEPT ![q] = r]
  PROVE  /\ request' \in [Requests -> AimedRow] /\ request'[q] = r
         /\ \A p \in Requests : p # q => request'[p] = request[p]
OBVIOUS

LEMMA EmptyRows ==
  /\ NoRequest \in AimedRow
  /\ [NoRequest EXCEPT !.step = "done"] \in AimedRow
  /\ NoRequest.files = {} /\ NoRequest.kind = "none"
<1> DEFINE done == [NoRequest EXCEPT !.step = "done"]
<1>1. NoRequest \in RequestRow /\ NoRequest.kind = "none" /\ NoRequest.files = {}
  BY DEF NoRequest, RequestRow, Kinds
<1>2. done \in RequestRow /\ done.kind = "none"
  BY <1>1 DEF RequestRow
<1>3. \A r \in RequestRow : r.kind = "none" => Aimed(r)
  BY DEF Aimed, TaskKinds
<1> HIDE DEF done
<1>4. NoRequest \in AimedRow /\ done \in AimedRow
  BY <1>1, <1>2, <1>3 DEF AimedRow
<1> QED BY <1>1, <1>4 DEF done

LEMMA OverChanges ==
  ASSUME request \in [Requests -> AimedRow], NEW q \in Requests, Over(q)
  PROVE  /\ request' \in [Requests -> AimedRow]
         /\ request'[q].step = "done" /\ request'[q].files = {} /\ request'[q].kind = "none"
         /\ \A p \in Requests : p # q => request'[p] = request[p]
<1> DEFINE r == [NoRequest EXCEPT !.step = "done"]
<1>1. r \in AimedRow
  BY EmptyRows
<1>2. r.step = "done" /\ r.files = {} /\ r.kind = "none"
  BY DEF NoRequest
<1>3. request' = [request EXCEPT ![q] = r]
  BY DEF Over
<1> HIDE DEF r
<1> QED BY <1>1, <1>2, <1>3, RowChange

\* A step that the request takes; what it is about stays
SameAim(r, s) ==
  /\ r.kind = s.kind /\ r.task = s.task /\ r.other = s.other /\ r.type = s.type
  /\ r.project = s.project /\ r.comment = s.comment /\ r.file = s.file

LEMMA StepChanges ==
  ASSUME request \in [Requests -> AimedRow], NEW q \in Requests,
         NEW r \in RequestRow, SameAim(r, request[q]), r.step # "insert",
         request' = [request EXCEPT ![q] = r]
  PROVE  /\ request' \in [Requests -> AimedRow] /\ request'[q] = r
         /\ \A p \in Requests : p # q => request'[p] = request[p]
<1>1. Aimed(request[q])
  BY DEF AimedRow
<1>2. Aimed(r)
  BY <1>1 DEF Aimed, SameAim
<1>3. r \in AimedRow
  BY <1>2 DEF AimedRow
<1> QED BY <1>3, RowChange

LEMMA GoesChanges ==
  ASSUME request \in [Requests -> AimedRow], NEW q \in Requests,
         NEW s \in {"look", "write", "objects"}, 
         Goes(q, s)
  PROVE  /\ request' \in [Requests -> AimedRow]
         /\ request'[q].step = s /\ request'[q].files = request[q].files
         /\ request'[q].kind = request[q].kind
         /\ request'[q].file = request[q].file /\ request'[q].comment = request[q].comment
         /\ \A p \in Requests : p # q => request'[p] = request[p]
<1> DEFINE r == [request[q] EXCEPT !.step = s]
<1>1. request[q] \in RequestRow
  BY DEF AimedRow
<1>2. r \in RequestRow
  BY <1>1 DEF RequestRow
<1>3. SameAim(r, request[q]) /\ r.step = s /\ r.files = request[q].files
  BY <1>1 DEF RequestRow, SameAim
<1>4. request' = [request EXCEPT ![q] = r]
  BY DEF Goes
<1> HIDE DEF r
<1>5. /\ request' \in [Requests -> AimedRow] /\ request'[q] = r
      /\ \A p \in Requests : p # q => request'[p] = request[p]
  BY <1>2, <1>3, <1>4, StepChanges
<1> QED BY <1>3, <1>5 DEF SameAim

\* The request is at step s now and has the files of F.
Moved(q, s, F) ==
  /\ request' \in [Requests -> AimedRow]
  /\ request'[q].step = s /\ request'[q].files = F
  /\ request'[q].kind = request[q].kind
  /\ request'[q].file = request[q].file /\ request'[q].comment = request[q].comment
  /\ \A p \in Requests : p # q => request'[p] = request[p]

LEMMA FilesChange ==
  ASSUME request \in [Requests -> AimedRow], NEW q \in Requests,
         NEW s \in {"look", "write", "objects"}, NEW F \in SUBSET Files,
         request' = [request EXCEPT ![q].step = s, ![q].files = F]
  PROVE  Moved(q, s, F)
<1> DEFINE r == [request[q] EXCEPT !.step = s, !.files = F]
<1>1. request[q] \in RequestRow
  BY DEF AimedRow
<1>2. r \in RequestRow
  BY <1>1 DEF RequestRow
<1>3. SameAim(r, request[q]) /\ r.step = s /\ r.files = F
  BY <1>1 DEF RequestRow, SameAim
<1>4. request' = [request EXCEPT ![q] = r]
  BY DEF Goes
<1> HIDE DEF r
<1>5. /\ request' \in [Requests -> AimedRow] /\ request'[q] = r
      /\ \A p \in Requests : p # q => request'[p] = request[p]
  BY <1>2, <1>3, <1>4, StepChanges
<1> QED BY <1>3, <1>5 DEF SameAim, Moved

LEMMA ReplacesChanges ==
  ASSUME request \in [Requests -> AimedRow], NEW q \in Requests,
         NEW b \in BOOLEAN,
         request' = [request EXCEPT ![q].step = "write", ![q].replaces = b]
  PROVE  /\ request' \in [Requests -> AimedRow]
         /\ request'[q].step = "write" /\ request'[q].files = request[q].files
         /\ request'[q].kind = request[q].kind
         /\ request'[q].file = request[q].file /\ request'[q].comment = request[q].comment
         /\ \A p \in Requests : p # q => request'[p] = request[p]
<1> DEFINE r == [request[q] EXCEPT !.step = "write", !.replaces = b]
<1>1. request[q] \in RequestRow
  BY DEF AimedRow
<1>2. r \in RequestRow
  BY <1>1 DEF RequestRow
<1>3. SameAim(r, request[q]) /\ r.step = "write" /\ r.files = request[q].files
  BY <1>1 DEF RequestRow, SameAim
<1>4. request' = [request EXCEPT ![q] = r]
  BY DEF Goes
<1> HIDE DEF r
<1>5. /\ request' \in [Requests -> AimedRow] /\ request'[q] = r
      /\ \A p \in Requests : p # q => request'[p] = request[p]
  BY <1>2, <1>3, <1>4, StepChanges
<1> QED BY <1>3, <1>5 DEF SameAim

\* A file is put for an upload.
LEMMA FileChanges ==
  ASSUME request \in [Requests -> AimedRow], NEW q \in Requests, NEW f \in Files,
         request' = [request EXCEPT ![q].step = "insert", ![q].file = f]
  PROVE  /\ request' \in [Requests -> AimedRow]
         /\ request'[q].step = "insert" /\ request'[q].file = f
         /\ request'[q].files = request[q].files /\ request'[q].kind = request[q].kind
         /\ request'[q].comment = request[q].comment
         /\ \A p \in Requests : p # q => request'[p] = request[p]
<1> DEFINE r == [request[q] EXCEPT !.step = "insert", !.file = f]
<1>1. request[q] \in RequestRow /\ Aimed(request[q])
  BY DEF AimedRow
<1>2. r \in RequestRow
  BY <1>1 DEF RequestRow
<1>3. /\ r.kind = request[q].kind /\ r.task = request[q].task /\ r.other = request[q].other
      /\ r.type = request[q].type /\ r.project = request[q].project
      /\ r.comment = request[q].comment /\ r.file = f
      /\ r.step = "insert" /\ r.files = request[q].files
  BY <1>1 DEF RequestRow
<1>4. Aimed(r)
  BY <1>1, <1>3 DEF Aimed
<1>5. request' = [request EXCEPT ![q] = r]
  OBVIOUS
<1> HIDE DEF r
<1> QED BY <1>2, <1>3, <1>4, <1>5, RowChange DEF AimedRow

-----------------------------------------------------------------------------
(* A request begins *)

LEMMA BeginsChanges ==
  ASSUME request \in [Requests -> AimedRow], NEW q \in Requests, NEW kind \in Kinds, NEW r,
         [r EXCEPT !.kind = kind] \in AimedRow,
         Begins(q, kind, r)
  PROVE  /\ request' \in [Requests -> AimedRow] /\ request'[q] = [r EXCEPT !.kind = kind]
         /\ \A p \in Requests : p # q => request'[p] = request[p]
         /\ UNCHANGED <<board, store, revision, reader, offered, broken>>
<1> DEFINE s == [r EXCEPT !.kind = kind]
<1>1. request' = [request EXCEPT ![q] = s]
  BY DEF Begins
<1> HIDE DEF s
<1>2. s \in AimedRow
  BY DEF s
<1>3. /\ request' \in [Requests -> AimedRow] /\ request'[q] = s
      /\ \A p \in Requests : p # q => request'[p] = request[p]
  BY <1>1, <1>2, RowChange
<1> QED BY <1>3 DEF s, Begins

\* What every request begins with
Begun(r) ==
  /\ r.step \in {"other", "look", "write", "put"} /\ r.files = {}
  /\ r.kind = "deleteFile" => r.file \in rows

LEMMA StartChanges ==
  ASSUME Typed, NEW q \in Requests, Start(q)
  PROVE  /\ request' \in [Requests -> AimedRow] /\ Begun(request'[q])
         /\ \A p \in Requests : p # q => request'[p] = request[p]
         /\ UNCHANGED <<board, store, revision, reader, offered, broken>>
<1> USE DEF Kinds
<1>0. request \in [Requests -> AimedRow] /\ rows \subseteq Files
  BY DEF Typed, StoreType
<1>1. \A t \in Tasks : task[t].version \in Nat /\ task[t].project \in Projects \cup {NoProject}
  BY DEF Typed, BoardType, TaskRow
<1>2. \A c \in Comments : comment[c].version \in Nat
  BY DEF Typed, StoreType, CommentRow
<1> DEFINE Goal ==
      /\ request' \in [Requests -> AimedRow] /\ Begun(request'[q])
      /\ \A p \in Requests : p # q => request'[p] = request[p]
      /\ UNCHANGED <<board, store, revision, reader, offered, broken>>
<1>a. ASSUME NEW kind \in Kinds, NEW r, Begins(q, kind, r),
             [r EXCEPT !.kind = kind] \in AimedRow, Begun([r EXCEPT !.kind = kind])
      PROVE  Goal
  BY <1>0, <1>a, BeginsChanges
<1> HIDE DEF Goal
<1>3. ASSUME NEW t \in Tasks, NEW kind \in {"move", "archive", "restore", "delete", "transfer"},
             NEW p \in Projects \cup {NoProject}, kind = "transfer" => p \in Projects,
             TaskRequest(q, kind, t, p)
      PROVE  Goal
  <2> DEFINE r == [NoRequest EXCEPT !.step = IF kind = "transfer" THEN "look" ELSE "write",
                                    !.task = t, !.project = p, !.version = task[t].version]
             s == [r EXCEPT !.kind = kind]
  <2>1. s \in RequestRow
    BY <1>1 DEF RequestRow, NoRequest
  <2>2. /\ s.step \in {"look", "write"} /\ s.kind = kind /\ s.task = t /\ s.project = p
        /\ s.files = {}
    BY DEF NoRequest
  <2>3. Begins(q, kind, r)
    BY <1>3 DEF TaskRequest
  <2> HIDE DEF s, r
  <2>4. Aimed(s) /\ Begun(s)
    BY <1>3, <2>2 DEF Aimed, Begun
  <2> QED BY <1>a, <2>1, <2>3, <2>4 DEF AimedRow, s
<1>4. ASSUME NEW t \in Tasks, NEW kind \in {"add", "remove"}, NEW type \in Types, NEW u \in Tasks,
             RelationRequest(q, kind, type, t, u)
      PROVE  Goal
  <2> DEFINE r == [NoRequest EXCEPT !.step = "other", !.task = t, !.other = u, !.type = type,
                                    !.version = task[t].version, !.project = task[t].project]
             s == [r EXCEPT !.kind = kind]
  <2>1. s \in RequestRow
    BY <1>1 DEF RequestRow, NoRequest
  <2>2. /\ s.step = "other" /\ s.kind = kind /\ s.task = t /\ s.other = u /\ s.type = type
        /\ s.files = {}
    BY DEF NoRequest
  <2>3. Begins(q, kind, r)
    BY <1>4 DEF RelationRequest
  <2> HIDE DEF s, r
  <2>4. Aimed(s) /\ Begun(s)
    BY <2>2 DEF Aimed, Begun
  <2> QED BY <1>a, <2>1, <2>3, <2>4 DEF AimedRow, s
<1>5. ASSUME NEW t \in Tasks, CommentOn(q, t)
      PROVE  Goal
  <2> DEFINE r == [NoRequest EXCEPT !.step = "write", !.task = t]
             s == [r EXCEPT !.kind = "createComment"]
  <2>1. s \in RequestRow
    BY DEF RequestRow, NoRequest
  <2>2. s.step = "write" /\ s.kind = "createComment" /\ s.task = t /\ s.files = {}
    BY DEF NoRequest
  <2>3. Begins(q, "createComment", r)
    BY <1>5 DEF CommentOn
  <2> HIDE DEF s, r
  <2>4. Aimed(s) /\ Begun(s)
    BY <2>2 DEF Aimed, Begun
  <2> QED BY <1>a, <2>1, <2>3, <2>4 DEF AimedRow, s
<1>6. ASSUME NEW p \in Projects, NEW kind \in {"createTask", "createProject", "deleteProject"},
             ProjectRequest(q, kind, p)
      PROVE  Goal
  <2> DEFINE r == [NoRequest EXCEPT !.step = "write", !.project = p]
             s == [r EXCEPT !.kind = kind]
  <2>1. s \in RequestRow
    BY DEF RequestRow, NoRequest
  <2>2. s.step = "write" /\ s.kind = kind /\ s.project = p /\ s.files = {}
    BY DEF NoRequest
  <2>3. Begins(q, kind, r)
    BY <1>6 DEF ProjectRequest
  <2> HIDE DEF s, r
  <2>4. Aimed(s) /\ Begun(s)
    BY <2>2 DEF Aimed, Begun, TaskKinds
  <2> QED BY <1>a, <2>1, <2>3, <2>4 DEF AimedRow, s
<1>7. ASSUME NEW c \in Comments, NEW kind \in {"updateComment", "deleteComment"},
             CommentRequest(q, kind, c)
      PROVE  Goal
  <2> DEFINE r == [NoRequest EXCEPT !.step = IF kind = "deleteComment" THEN "look" ELSE "write",
                                    !.comment = c, !.version = comment[c].version]
             s == [r EXCEPT !.kind = kind]
  <2>1. s \in RequestRow
    BY <1>2 DEF RequestRow, NoRequest
  <2>2. s.step \in {"look", "write"} /\ s.kind = kind /\ s.comment = c /\ s.files = {}
    BY DEF NoRequest
  <2>3. Begins(q, kind, r)
    BY <1>7 DEF CommentRequest
  <2> HIDE DEF s, r
  <2>4. Aimed(s) /\ Begun(s)
    BY <2>2 DEF Aimed, Begun, TaskKinds
  <2> QED BY <1>a, <2>1, <2>3, <2>4 DEF AimedRow, s
<1>8. ASSUME NEW o \in Tasks \cup Comments, Upload(q, o)
      PROVE  Goal
  <2> DEFINE r == [NoRequest EXCEPT !.step = "put",
                     !.task = IF o \in Tasks THEN o ELSE NoTask,
                     !.comment = IF o \in Comments THEN o ELSE NoComment]
             s == [r EXCEPT !.kind = "upload"]
  <2>1. s \in RequestRow
    BY DEF RequestRow, NoRequest
  <2>2. /\ s.step = "put" /\ s.kind = "upload" /\ s.files = {}
        /\ s.task = (IF o \in Tasks THEN o ELSE NoTask)
        /\ s.comment = (IF o \in Comments THEN o ELSE NoComment)
    BY DEF NoRequest
  <2>3. Begins(q, "upload", r)
    BY <1>8 DEF Upload
  <2> HIDE DEF s, r
  <2>4. Aimed(s) /\ Begun(s)
    BY <2>2 DEF Aimed, Begun, TaskKinds
  <2> QED BY <1>a, <2>1, <2>3, <2>4 DEF AimedRow, s
<1>9. ASSUME NEW f \in Files, FileRequest(q, f)
      PROVE  Goal
  <2> DEFINE r == [NoRequest EXCEPT !.step = "write", !.file = f]
             s == [r EXCEPT !.kind = "deleteFile"]
  <2>1. s \in RequestRow
    BY DEF RequestRow, NoRequest
  <2>2. s.step = "write" /\ s.kind = "deleteFile" /\ s.file = f /\ s.files = {}
    BY DEF NoRequest
  <2>3. Begins(q, "deleteFile", r) /\ f \in rows
    BY <1>9 DEF FileRequest
  <2> HIDE DEF s, r
  <2>4. Aimed(s) /\ Begun(s)
    BY <2>2, <2>3 DEF Aimed, Begun, TaskKinds
  <2> QED BY <1>a, <2>1, <2>3, <2>4 DEF AimedRow, s
<1> QED BY <1>3, <1>4, <1>5, <1>6, <1>7, <1>8, <1>9 DEF Start, Goal

-----------------------------------------------------------------------------
(* Every step keeps the types *)

LEMMA AimsOf ==
  ASSUME Typed, NEW q \in Requests
  PROVE  /\ request[q] \in RequestRow
         /\ request[q].kind \in TaskKinds => request[q].task \in Tasks
         /\ request[q].kind \in {"add", "remove"} => Row(q) \in RelationRow
         /\ request[q].kind \in {"transfer", "createTask", "createProject", "deleteProject"}
              => request[q].project \in Projects
         /\ request[q].kind \in {"updateComment", "deleteComment"} => request[q].comment \in Comments
         /\ request[q].kind = "upload" => UploadOwner(q) \in Tasks \cup Comments
         /\ At(q, "insert", {"upload"}) \/ request[q].kind = "deleteFile" => request[q].file \in Files
<1>1. request[q] \in RequestRow /\ Aimed(request[q])
  BY DEF Typed, AimedRow
<1>2. ASSUME request[q].kind \in {"add", "remove"}
      PROVE  Row(q) \in RelationRow
  <2>1. /\ request[q].task \in Tasks /\ request[q].other \in Tasks
        /\ request[q].type \in {"parent", "blocks", "blocked_by", "related"}
    BY <1>1, <1>2, RowsAssumption DEF Aimed, TaskKinds
  <2> QED BY <2>1 DEF Row, Endpoints, RelationRow
<1>3. request[q].kind = "upload" => UploadOwner(q) \in Tasks \cup Comments
  BY <1>1, RowsAssumption DEF Aimed, UploadOwner
<1> QED BY <1>1, <1>2, <1>3 DEF Aimed, At

\* A card that is written stays a row of a card.
LEMMA TouchedType ==
  ASSUME BoardType, NEW t \in Tasks, NEW state \in {"none", "open", "archived", "gone"},
         NEW p \in Projects \cup {NoProject}
  PROVE  /\ Touched(t) \in [Tasks -> TaskRow]
         /\ [Touched(t) EXCEPT ![t].state = state] \in [Tasks -> TaskRow]
         /\ [Touched(t) EXCEPT ![t].project = p] \in [Tasks -> TaskRow]
         /\ [task EXCEPT ![t].state = state] \in [Tasks -> TaskRow]
<1>1. task \in [Tasks -> TaskRow]
  BY DEF BoardType
<1>2. task[t].version + 1 \in Nat
  BY <1>1 DEF TaskRow
<1>3. Touched(t) \in [Tasks -> TaskRow]
  BY <1>1, <1>2 DEF Touched, TaskRow
<1>4. ASSUME NEW T \in [Tasks -> TaskRow]
      PROVE  /\ [T EXCEPT ![t].state = state] \in [Tasks -> TaskRow]
             /\ [T EXCEPT ![t].project = p] \in [Tasks -> TaskRow]
  BY DEF TaskRow
<1> QED BY <1>1, <1>3, <1>4

\* The steps that change only cards, relations and projects, and end their request
LEMMA BoardSteps ==
  ASSUME Typed, NEW q \in Requests,
         \/ WriteTask(q) \/ LookTransfer(q) \/ WriteTransfer(q)
         \/ CreateTask(q) \/ CreateProject(q) \/ DeleteProject(q)
         \/ ReadOther(q) \/ LookAdd(q) \/ WriteAdd(q) \/ LookRemove(q) \/ WriteRemove(q)
  PROVE  /\ request' \in [Requests -> AimedRow]
         /\ request'[q].files = request[q].files \/ request'[q].files = {}
         /\ request'[q].step \in {"done", "look", "write"}
         /\ request'[q].kind \in {"none", request[q].kind}
         /\ request[q].kind \notin {"deleteFile", "deleteComment", "upload"}
         /\ request[q].step \notin {"insert", "objects"}
         /\ \A p \in Requests : p # q => request'[p] = request[p]
         /\ UNCHANGED <<store, reader, offered, broken>>
<1> DEFINE Replaces(b) == request' = [request EXCEPT ![q].step = "write", ![q].replaces = b]
<1>1. request \in [Requests -> AimedRow]
  BY DEF Typed
<1>2. /\ UNCHANGED <<store, reader, offered, broken>>
      /\ request[q].kind \notin {"deleteFile", "deleteComment", "upload"}
      /\ request[q].step \notin {"insert", "objects"}
  BY DEF WriteTask, LookTransfer, WriteTransfer, CreateTask, CreateProject, DeleteProject,
         ReadOther, LookAdd, WriteAdd, LookRemove, WriteRemove, At
<1>3. Over(q) \/ Goes(q, "look") \/ Goes(q, "write") \/ LookAdd(q)
  BY DEF WriteTask, LookTransfer, WriteTransfer, CreateTask, CreateProject, DeleteProject,
         ReadOther, WriteAdd, LookRemove, WriteRemove
<1>4. ASSUME LookAdd(q)
      PROVE  Over(q) \/ \E b \in BOOLEAN : Replaces(b)
  <2> DEFINE b == Row(q).type = "parent" /\ Parents(rel, Row(q).target) # {}
  <2>1. b \in BOOLEAN
    OBVIOUS
  <2>2. Over(q) \/ Replaces(b)
    BY <1>4 DEF LookAdd
  <2> QED BY <2>1, <2>2
<1> HIDE DEF Replaces
<1>5. CASE Over(q)
  BY <1>1, <1>2, <1>5, OverChanges
<1>6. CASE Goes(q, "look") \/ Goes(q, "write")
  BY <1>1, <1>2, <1>6, GoesChanges
<1>7. ASSUME NEW b \in BOOLEAN, Replaces(b)
      PROVE  /\ request' \in [Requests -> AimedRow]
             /\ request'[q].step = "write" /\ request'[q].files = request[q].files
             /\ request'[q].kind = request[q].kind
             /\ \A p \in Requests : p # q => request'[p] = request[p]
  BY <1>1, <1>7, ReplacesChanges DEF Replaces
<1> QED BY <1>2, <1>3, <1>4, <1>5, <1>6, <1>7

LEMMA BoardStepsTyped ==
  ASSUME Typed, NEW q \in Requests,
         \/ WriteTask(q) \/ LookTransfer(q) \/ WriteTransfer(q)
         \/ CreateTask(q) \/ CreateProject(q) \/ DeleteProject(q)
         \/ ReadOther(q) \/ LookAdd(q) \/ WriteAdd(q) \/ LookRemove(q) \/ WriteRemove(q)
  PROVE  BoardType' /\ revision' \in Nat
<1>1. BoardType /\ revision \in Nat
  BY DEF Typed
<1>2. CASE WriteTask(q)
  <2>1. request[q].task \in Tasks
    BY <1>2, AimsOf DEF WriteTask, At, TaskKinds
  <2>2. task[request[q].task].state \in {"none", "open", "archived", "gone"}
    BY <1>1, <2>1 DEF BoardType, TaskRow
  <2> DEFINE t == request[q].task
             state == NewState(request[q].kind, Touched(t)[t].state)
  <2>3. Touched(t) \in [Tasks -> TaskRow]
    BY <1>1, <2>1, <2>2, TouchedType
  <2>4. state \in {"none", "open", "archived", "gone"}
    BY <2>1, <2>3 DEF NewState, TaskRow
  <2>5. [Touched(t) EXCEPT ![t].state = state] \in [Tasks -> TaskRow]
    BY <2>3, <2>4 DEF TaskRow
  <2>6. task' \in [Tasks -> TaskRow]
    BY <1>1, <1>2, <2>5 DEF WriteTask, BoardType
  <2> QED BY <1>1, <1>2, <2>6 DEF WriteTask, Writes, BoardType
<1>3. CASE WriteTransfer(q)
  <2>1. request[q].task \in Tasks /\ request[q].project \in Projects
    BY <1>3, AimsOf DEF WriteTransfer, At, TaskKinds
  <2>2. [Touched(request[q].task) EXCEPT ![request[q].task].project = request[q].project]
          \in [Tasks -> TaskRow]
    BY <1>1, <2>1, TouchedType
  <2>3. task' \in [Tasks -> TaskRow]
    BY <1>1, <1>3, <2>2 DEF WriteTransfer, BoardType
  <2> QED BY <1>1, <1>3, <2>3 DEF WriteTransfer, Writes, BoardType
<1>4. CASE CreateTask(q)
  <2>1. ASSUME NEW t \in Tasks, NEW p \in Projects
        PROVE  [task EXCEPT ![t] = [state |-> "open", project |-> p, version |-> 1]]
                 \in [Tasks -> TaskRow]
    <3>1. [state |-> "open", project |-> p, version |-> 1] \in TaskRow
      BY DEF TaskRow
    <3> QED BY <1>1, <3>1 DEF BoardType
  <2>2. request[q].project \in Projects
    BY <1>4, AimsOf DEF CreateTask, At
  <2>3. task' \in [Tasks -> TaskRow]
    BY <1>1, <1>4, <2>1, <2>2 DEF CreateTask, BoardType
  <2> QED BY <1>1, <1>4, <2>3 DEF CreateTask, Writes, BoardType
<1>5. CASE CreateProject(q) \/ DeleteProject(q)
  <2>1. request[q].project \in Projects
    BY <1>5, AimsOf DEF CreateProject, DeleteProject, At
  <2> QED BY <1>1, <1>5, <2>1 DEF CreateProject, DeleteProject, Writes, BoardType
<1>6. CASE WriteAdd(q)
  <2>1. request[q].task \in Tasks /\ Row(q) \in RelationRow
    BY <1>6, AimsOf DEF WriteAdd, At, TaskKinds
  <2>2. Touched(request[q].task) \in [Tasks -> TaskRow]
    BY <1>1, <2>1, TouchedType
  <2>3. Kept(q) \subseteq rel
    BY DEF Kept
  <2> QED BY <1>1, <1>6, <2>1, <2>2, <2>3 DEF WriteAdd, Writes, BoardType
<1>7. CASE WriteRemove(q)
  <2>1. request[q].task \in Tasks
    BY <1>7, AimsOf DEF WriteRemove, At, TaskKinds
  <2>2. Touched(request[q].task) \in [Tasks -> TaskRow]
    BY <1>1, <2>1, TouchedType
  <2> QED BY <1>1, <1>7, <2>2 DEF WriteRemove, Writes, BoardType
<1>8. CASE LookTransfer(q) \/ ReadOther(q) \/ LookAdd(q) \/ LookRemove(q)
  BY <1>1, <1>8 DEF LookTransfer, ReadOther, LookAdd, LookRemove, board, BoardType
<1> QED BY <1>2, <1>3, <1>4, <1>5, <1>6, <1>7, <1>8

LEMMA StoreStepsTyped ==
  ASSUME Typed, NEW q \in Requests,
         \/ WriteDelete(q) \/ CreateComment(q) \/ UpdateComment(q) \/ ListFiles(q)
         \/ DeleteComment(q) \/ Put(q) \/ Insert(q) \/ DeleteRow(q) \/ DeleteObjects(q) \/ Fails(q)
  PROVE  Typed'
<1>1. request \in [Requests -> AimedRow] /\ revision \in Nat /\ BoardType /\ StoreType /\ ReaderType
  BY DEF Typed
<1>2. \A o : FilesOf(o) \subseteq Files
  BY <1>1 DEF FilesOf, StoreType
<1>3. UNCHANGED reader /\ broken' \subseteq Files
  <2>1. Insert(q) => broken' \subseteq Files
    BY AimsOf DEF Typed, Insert, At
  <2> QED BY <2>1 DEF Typed, WriteDelete, CreateComment, UpdateComment, ListFiles, DeleteComment,
                      Put, Insert, DeleteRow, DeleteObjects, Fails, InHand
<1> SUFFICES request' \in [Requests -> AimedRow] /\ revision' \in Nat /\ BoardType' /\ StoreType'
  BY <1>1, <1>3 DEF Typed, ReaderType
<1>4. \A c \in Comments : \A state \in {"live", "deleted", "gone"} :
        [comment[c] EXCEPT !.state = state] \in CommentRow
  BY <1>1 DEF StoreType, CommentRow
<1>5. CASE WriteDelete(q)
  <2>1. request[q].task \in Tasks
    BY <1>5, AimsOf DEF WriteDelete, At, TaskKinds
  <2>2. AllFiles(request[q].task) \in SUBSET Files
    BY <1>2 DEF AllFiles
  <2>3. request' \in [Requests -> AimedRow]
    BY <1>1, <1>5, <2>2, OverChanges, FilesChange DEF WriteDelete, Moved
  <2>4. [task EXCEPT ![request[q].task].state = "gone"] \in [Tasks -> TaskRow]
    BY <1>1, <2>1, TouchedType
  <2>5. BoardType' /\ revision' \in Nat
    BY <1>1, <1>5, <2>4 DEF WriteDelete, BoardType, Writes
  <2>6. comment' \in [Comments -> CommentRow]
    <3>1. \A c \in Comments : comment[c] \in CommentRow /\ [comment[c] EXCEPT !.state = "gone"] \in CommentRow
      BY <1>1, <1>4 DEF StoreType
    <3>2. CASE Over(q) /\ UNCHANGED comment
      BY <1>1, <3>2 DEF StoreType
    <3>3. CASE comment' = [c \in Comments |-> IF c \in CommentsOf(request[q].task)
                                                THEN [comment[c] EXCEPT !.state = "gone"]
                                                ELSE comment[c]]
      BY <3>1, <3>3
    <3> QED BY <1>5, <3>2, <3>3 DEF WriteDelete
  <2> QED BY <1>1, <1>5, <2>3, <2>5, <2>6 DEF WriteDelete, StoreType
<1>6. CASE CreateComment(q)
  <2>1. request[q].task \in Tasks
    BY <1>6, AimsOf DEF CreateComment, At, TaskKinds
  <2>2. request' \in [Requests -> AimedRow]
    BY <1>1, <1>6, OverChanges DEF CreateComment
  <2>3. [state |-> "live", task |-> request[q].task, version |-> 1, revision |-> revision + 1]
          \in CommentRow
    BY <1>1, <2>1 DEF CommentRow
  <2>4. comment' \in [Comments -> CommentRow]
    BY <1>1, <1>6, <2>3 DEF CreateComment, StoreType
  <2> QED BY <1>1, <1>6, <2>2, <2>4 DEF CreateComment, Writes, StoreType, BoardType, board
<1>7. CASE UpdateComment(q)
  <2>1. request[q].comment \in Comments
    BY <1>7, AimsOf DEF UpdateComment, At
  <2>2. request' \in [Requests -> AimedRow]
    BY <1>1, <1>7, OverChanges DEF UpdateComment
  <2> DEFINE c == request[q].comment
             row == [comment[c] EXCEPT !.version = @ + 1, !.revision = NextRevision(c)]
  <2>3. row \in CommentRow
    <3>1. comment[c] \in CommentRow
      BY <1>1, <2>1 DEF StoreType
    <3>2. NextRevision(c) \in Nat /\ comment[c].version + 1 \in Nat
      BY <1>1, <3>1 DEF CommentRow, NextRevision
    <3> QED BY <3>1, <3>2 DEF CommentRow
  <2>4. [comment EXCEPT ![c].version = @ + 1, ![c].revision = NextRevision(c)]
          = [comment EXCEPT ![c] = row]
    BY <1>1, <2>1 DEF StoreType
  <2> HIDE DEF row
  <2>5. comment' \in [Comments -> CommentRow]
    BY <1>1, <1>7, <2>3, <2>4 DEF UpdateComment, StoreType
  <2> QED BY <1>1, <1>7, <2>2, <2>5 DEF UpdateComment, Writes, StoreType, BoardType, board
<1>8. CASE ListFiles(q)
  <2>1. request' \in [Requests -> AimedRow]
    BY <1>1, <1>2, <1>8, FilesChange DEF ListFiles, Moved
  <2> QED BY <1>1, <1>8, <2>1 DEF ListFiles, store, board, StoreType, BoardType
<1>9. CASE DeleteComment(q)
  <2>1. request' \in [Requests -> AimedRow]
    BY <1>1, <1>9, OverChanges, GoesChanges DEF DeleteComment
  <2>2. request[q].comment \in Comments
    BY <1>9, AimsOf DEF DeleteComment, At
  <2>3. comment' \in [Comments -> CommentRow]
    BY <1>1, <1>4, <1>9, <2>2 DEF DeleteComment, StoreType
  <2> QED BY <1>1, <1>9, <2>1, <2>3 DEF DeleteComment, Writes, board, StoreType, BoardType
<1>10. CASE Put(q)
  <2>1. UploadOwner(q) \in Tasks \cup Comments
    BY <1>10, AimsOf DEF Put, At
  <2>2. request' \in [Requests -> AimedRow]
    BY <1>1, <1>10, FileChanges DEF Put
  <2> QED BY <1>1, <1>10, <2>1, <2>2 DEF Put, board, StoreType, BoardType
<1>11. CASE Insert(q)
  <2>1. request[q].file \in Files
    BY <1>11, AimsOf DEF Insert, At
  <2>2. request' \in [Requests -> AimedRow]
    <3>1. {request[q].file} \in SUBSET Files
      BY <2>1
    <3> QED BY <1>1, <1>11, <3>1, OverChanges, FilesChange DEF Insert, Moved
  <2> QED BY <1>1, <1>11, <2>1, <2>2 DEF Insert, InsertRow, Writes, board, StoreType, BoardType
<1>12. CASE DeleteRow(q)
  <2>1. request[q].file \in Files
    BY <1>12, AimsOf DEF DeleteRow, At
  <2>2. request' \in [Requests -> AimedRow]
    <3>1. {request[q].file} \in SUBSET Files
      BY <2>1
    <3> QED BY <1>1, <1>12, <3>1, FilesChange DEF DeleteRow, Moved
  <2> QED BY <1>1, <1>12, <2>2 DEF DeleteRow, RowFirst, Writes, board, StoreType, BoardType
<1>13. CASE DeleteObjects(q) \/ Fails(q)
  <2>1. request' \in [Requests -> AimedRow]
    BY <1>1, <1>13, OverChanges DEF DeleteObjects, Fails
  <2> QED BY <1>1, <1>13, <2>1 DEF DeleteObjects, Fails, board, store, StoreType, BoardType
<1> QED BY <1>5, <1>6, <1>7, <1>8, <1>9, <1>10, <1>11, <1>12, <1>13

LEMMA ReadsTyped ==
  ASSUME Typed, ListComments \/ ListCommentsAfter
  PROVE  Typed'
<1>1. UNCHANGED <<board, store, revision, request, broken>>
  BY DEF ListComments, ListCommentsAfter, Reads
<1>2. ReaderType /\ comment \in [Comments -> CommentRow]
  BY DEF Typed, StoreType
<1>3. ASSUME NEW S \in SUBSET Comments, NEW none \in Nat, Reads(S, none)
      PROVE  ReaderType'
  <2>1. PICK last \in IF S = {} THEN {none} ELSE {comment[c].revision : c \in S} :
          reader' = [reader EXCEPT
            !.listed = TRUE, !.cursor = last,
            !.known = [c \in Comments |-> IF c \in S THEN comment[c].version ELSE @[c]]]
    BY <1>3 DEF Reads
  <2>2. last \in Nat
    BY <1>2 DEF CommentRow
  <2>3. [c \in Comments |-> IF c \in S THEN comment[c].version ELSE reader.known[c]]
          \in [Comments -> Nat]
    BY <1>2 DEF CommentRow, ReaderType
  <2> QED BY <1>2, <2>1, <2>2, <2>3 DEF ReaderType
<1>4. \A t : CommentsOf(t) \in SUBSET Comments
  BY DEF CommentsOf
<1>5. ReaderType'
  <2>1. CASE ListComments
    BY <1>3, <1>4, <2>1 DEF ListComments
  <2>2. CASE ListCommentsAfter
    <3>1. reader.cursor \in Nat
      BY <1>2 DEF ReaderType
    <3>2. {c \in CommentsOf(reader.task) : comment[c].revision > reader.cursor} \in SUBSET Comments
      BY <1>4
    <3> QED BY <1>3, <2>2, <3>1, <3>2 DEF ListCommentsAfter
  <2> QED BY <2>1, <2>2
<1> QED BY <1>1, <1>5 DEF Typed, BoardType, StoreType, board, store

LEMMA TypedInit == Init => Typed
<1> SUFFICES ASSUME NEW start \in Starts,
                    projects = start.projects /\ task = start.task /\ rel = start.rel,
                    comment = start.comment /\ owner = start.owner,
                    rows = {f \in Files : start.owner[f] # NoTask} /\ objects = rows,
                    revision = start.revision,
                    reader = [task |-> start.reads, listed |-> FALSE, cursor |-> 0,
                              known |-> [c \in Comments |-> 0]],
                    request = [q \in Requests |-> IF q \in start.requests THEN NoRequest
                                      ELSE [NoRequest EXCEPT !.step = "done"]],
                    broken = {}
             PROVE  Typed
  BY DEF Init
<1>1. BoardType /\ StoreType /\ revision \in Nat
  BY StartsAssumption DEF BoardType, StoreType
<1>2. ReaderType
  BY StartsAssumption DEF ReaderType
<1>3. request \in [Requests -> AimedRow]
  BY EmptyRows
<1> QED BY <1>1, <1>2, <1>3 DEF Typed

LEMMA TypedStep == Typed /\ [Next]_vars => Typed'
<1> SUFFICES ASSUME Typed, [Next]_vars PROVE Typed'
  OBVIOUS
<1>1. ASSUME NEW q \in Requests, Start(q)
      PROVE  Typed'
  <2>1. request' \in [Requests -> AimedRow] /\ UNCHANGED <<board, store, revision, reader, broken>>
    BY <1>1, StartChanges
  <2> QED BY <2>1 DEF Typed, board, store, BoardType, StoreType, ReaderType
<1>2. ASSUME NEW q \in Requests,
             \/ WriteTask(q) \/ LookTransfer(q) \/ WriteTransfer(q)
             \/ CreateTask(q) \/ CreateProject(q) \/ DeleteProject(q)
             \/ ReadOther(q) \/ LookAdd(q) \/ WriteAdd(q) \/ LookRemove(q) \/ WriteRemove(q)
      PROVE  Typed'
  <2>1. request' \in [Requests -> AimedRow] /\ UNCHANGED <<store, reader, broken>>
    BY <1>2, BoardSteps
  <2>2. BoardType' /\ revision' \in Nat
    BY <1>2, BoardStepsTyped
  <2> QED BY <2>1, <2>2 DEF Typed, store, StoreType, ReaderType
<1>3. CASE UNCHANGED vars
  BY <1>3 DEF vars, board, store, Typed, BoardType, StoreType, ReaderType
<1> QED BY <1>1, <1>2, <1>3, StoreStepsTyped, ReadsTyped DEF Next, Continue

\* Every variable keeps its kind of value, whatever requests interleave.
THEOREM TypeCorrect == Spec => []TypeOK
<1>1. Typed => TypeOK
  BY DEF Typed, TypeOK, BoardType, StoreType, ReaderType, AimedRow
<1> QED BY <1>1, TypedInit, TypedStep, PTL DEF Spec

-----------------------------------------------------------------------------
(* Relations *)

\* A part of a forest is a forest.
LEMMA ForestPart ==
  ASSUME NEW R, NEW Q, Q \subseteq R, Forest(R)
  PROVE  Forest(Q)
<1>1. \A t : Parents(Q, t) \subseteq Parents(R, t)
  BY DEF Parents
<1> QED BY <1>1 DEF Forest

\* A parent whose ancestors do not hold the child keeps the forest.  The set C is
\* closed under parents and does not hold the child; with the new parent in it, it
\* stays so, and a set of cards has a root either within it or outside of it.
LEMMA ForestGrows ==
  ASSUME NEW R, NEW s \in Tasks, NEW t \in Tasks, s # t, Forest(R),
         Parents(R, t) = {}, ~IsAncestor(R, t, s)
  PROVE  Forest(R \cup {[type |-> "parent", source |-> s, target |-> t]})
<1> DEFINE Q == R \cup {[type |-> "parent", source |-> s, target |-> t]}
<1>1. /\ Parents(Q, t) = {s}
      /\ \A u \in Tasks : u # t => Parents(Q, u) = Parents(R, u)
  BY DEF Parents
<1> HIDE DEF Q
<1>2. PICK C \in SUBSET Tasks :
        /\ Parents(R, s) \subseteq C /\ t \notin C
        /\ \A u \in C : Parents(R, u) \subseteq C
  BY DEF IsAncestor
<1> DEFINE D == C \cup {s}
<1>3. t \notin D /\ \A u \in D : Parents(Q, u) \subseteq D
  BY <1>1, <1>2
<1>4. ASSUME NEW S \in SUBSET Tasks, S # {}
      PROVE  \E u \in S : Parents(Q, u) \cap S = {}
  <2>1. CASE S \cap D # {}
    <3>1. PICK u \in S \cap D : Parents(R, u) \cap (S \cap D) = {}
      BY <2>1 DEF Forest
    <3>2. Parents(Q, u) = Parents(R, u)
      BY <1>1, <1>3
    <3> QED BY <1>3, <3>1, <3>2
  <2>2. CASE S \cap D = {}
    <3>1. PICK u \in S : Parents(R, u) \cap S = {}
      BY <1>4 DEF Forest
    <3>2. Parents(Q, u) \subseteq Parents(R, u) \cup {s}
      BY <1>1
    <3> QED BY <2>2, <3>1, <3>2
  <2> QED BY <2>1, <2>2
<1>5. \A x \in Tasks : \A u, v \in Parents(Q, x) : u = v
  BY <1>1 DEF Forest
<1> QED BY <1>4, <1>5 DEF Forest, Q

\* What D1 accepts keeps the forest and the relations within their projects.
LEMMA Accepted ==
  ASSUME NEW R \in SUBSET RelationRow, NEW r \in RelationRow, Forest(R), Related(R, task),
         ~Refuses(R, r)
  PROVE  Forest(R \cup {r}) /\ Related(R \cup {r}, task)
<1>1. r.source \in Tasks /\ r.target \in Tasks
  BY DEF RelationRow
<1>2. Related(R \cup {r}, task)
  BY DEF Related, Refuses, Exists
<1>3. CASE r.type = "parent"
  <2>1. r = [type |-> "parent", source |-> r.source, target |-> r.target]
    BY <1>3 DEF RelationRow
  <2>2. /\ r.source # r.target /\ Parents(R, r.target) = {}
        /\ ~IsAncestor(R, r.target, r.source)
    BY <1>3 DEF Refuses, CycleTrigger
  <2>3. Forest(R \cup {[type |-> "parent", source |-> r.source, target |-> r.target]})
    BY <1>1, <2>2, ForestGrows
  <2> QED BY <1>2, <2>1, <2>3
<1>4. CASE r.type # "parent"
  <2>1. \A t : Parents(R \cup {r}, t) = Parents(R, t)
    BY <1>4 DEF Parents
  <2>2. Forest(R \cup {r})
    BY <2>1 DEF Forest
  <2> QED BY <1>2, <2>2
<1> QED BY <1>3, <1>4

\* Cards that stay stored in the project they are in
LEMMA RelatedStays ==
  ASSUME NEW R, NEW Q, Q \subseteq R, NEW T, Related(R, task),
         \A r \in Q : \A t \in {r.source, r.target} :
           Stored(T[t]) /\ T[t].project = task[t].project
  PROVE  Related(Q, T)
BY DEF Related

BoardHolds == Forest(rel) /\ Related(rel, task)

LEMMA BoardStep == Typed /\ BoardHolds /\ [Next]_vars => BoardHolds'
<1> SUFFICES ASSUME Typed, BoardHolds, [Next]_vars PROVE Forest(rel') /\ Related(rel', task')
  BY DEF BoardHolds
<1>0. /\ Forest(rel) /\ Related(rel, task) /\ rel \in SUBSET RelationRow
      /\ task \in [Tasks -> TaskRow]
  BY DEF BoardHolds, Typed, BoardType
<1>a. \A r \in rel : r.source \in Tasks /\ r.target \in Tasks /\ Exists(r.source) /\ Exists(r.target)
  BY <1>0 DEF RelationRow, Related, Exists
<1>1. CASE UNCHANGED <<rel, task>>
  BY <1>0, <1>1
<1>2. ASSUME NEW q \in Requests, WriteTask(q)
      PROVE  Forest(rel') /\ Related(rel', task')
  <2> DEFINE t == request[q].task
             state == NewState(request[q].kind, Touched(t)[t].state)
  <2>1. t \in Tasks /\ rel' = rel
    BY <1>2, AimsOf DEF WriteTask, At, TaskKinds
  <2>2. CASE UNCHANGED task
    BY <1>1, <2>1, <2>2
  <2>3. CASE Fresh(q) /\ task' = [Touched(t) EXCEPT ![t].state = state]
    <3>1. Exists(t)
      BY <2>3 DEF Fresh
    <3>2. Touched(t) \in [Tasks -> TaskRow] /\ Touched(t)[t].state = task[t].state
          /\ \A u \in Tasks : Touched(t)[u].project = task[u].project /\ (u # t => Touched(t)[u] = task[u])
      <4>1. task[t] \in TaskRow /\ task[t].version + 1 \in Nat
        BY <1>0, <2>1 DEF TaskRow
      <4> QED BY <1>0, <2>1, <4>1 DEF Touched, TaskRow
    <3>3. state \in {"open", "archived"}
      BY <3>1, <3>2 DEF NewState, Exists, Stored
    <3>4. \A u \in Tasks : /\ task'[u].project = task[u].project
                           /\ u # t => task'[u] = task[u]
                           /\ task'[t].state = state
      BY <2>1, <2>3, <3>2 DEF TaskRow
    <3>5. \A r \in rel : \A u \in {r.source, r.target} :
            Stored(task'[u]) /\ task'[u].project = task[u].project
      BY <1>a, <3>3, <3>4 DEF Stored, Exists
    <3>6. Related(rel, task')
      BY <1>0, <3>5, RelatedStays
    <3> QED BY <1>0, <2>1, <3>6
  <2> QED BY <1>2, <2>2, <2>3 DEF WriteTask
<1>3. ASSUME NEW q \in Requests, WriteTransfer(q)
      PROVE  Forest(rel') /\ Related(rel', task')
  <2> DEFINE t == request[q].task
  <2>1. rel' = rel
    BY <1>3 DEF WriteTransfer
  <2>2. CASE UNCHANGED task
    BY <1>1, <2>1, <2>2
  <2>3. CASE RelationsOf(t) = {} /\ task' = [Touched(t) EXCEPT ![t].project = request[q].project]
    <3>1. \A r \in rel : r.source # t /\ r.target # t
      BY <2>3 DEF RelationsOf
    <3>2. \A u \in Tasks : u # t => task'[u] = task[u]
      BY <1>0, <2>3 DEF Touched
    <3>3. \A r \in rel : \A u \in {r.source, r.target} :
            Stored(task'[u]) /\ task'[u].project = task[u].project
      BY <1>a, <3>1, <3>2 DEF Exists
    <3>4. Related(rel, task')
      BY <1>0, <3>3, RelatedStays
    <3> QED BY <1>0, <2>1, <3>4
  <2> QED BY <1>3, <2>2, <2>3 DEF WriteTransfer, RelationGuard
<1>4. ASSUME NEW q \in Requests, WriteDelete(q)
      PROVE  Forest(rel') /\ Related(rel', task')
  <2> DEFINE t == request[q].task
  <2>1. CASE UNCHANGED <<task, rel>>
    BY <1>1, <2>1
  <2>2. CASE task' = [task EXCEPT ![t].state = "gone"] /\ rel' = rel \ RelationsOf(t)
    <3>1. \A r \in rel' : r \in rel /\ r.source # t /\ r.target # t
      BY <2>2 DEF RelationsOf
    <3>2. \A u \in Tasks : u # t => task'[u] = task[u]
      BY <1>0, <2>2
    <3>3. \A r \in rel' : \A u \in {r.source, r.target} :
            Stored(task'[u]) /\ task'[u].project = task[u].project
      BY <1>a, <3>1, <3>2 DEF Exists
    <3>4. rel' \subseteq rel
      BY <3>1
    <3>5. Related(rel', task')
      BY <1>0, <3>3, <3>4, RelatedStays
    <3>6. Forest(rel')
      BY <1>0, <3>4, ForestPart
    <3> QED BY <3>5, <3>6
  <2> QED BY <1>4, <2>1, <2>2 DEF WriteDelete
<1>5. ASSUME NEW q \in Requests, CreateTask(q)
      PROVE  Forest(rel') /\ Related(rel', task')
  <2>1. rel' = rel
    BY <1>5 DEF CreateTask
  <2>2. CASE UNCHANGED task
    BY <1>1, <2>1, <2>2
  <2>3. ASSUME NEW t \in Tasks, NEW row, task[t].state = "none", task' = [task EXCEPT ![t] = row]
        PROVE  Related(rel, task')
    <3>1. \A r \in rel : r.source # t /\ r.target # t
      BY <1>a, <2>3 DEF Exists, Stored
    <3>2. \A u \in Tasks : u # t => task'[u] = task[u]
      BY <1>0, <2>3
    <3>3. \A r \in rel : \A u \in {r.source, r.target} :
            Stored(task'[u]) /\ task'[u].project = task[u].project
      BY <1>a, <3>1, <3>2 DEF Exists
    <3> QED BY <1>0, <3>3, RelatedStays
  <2> QED BY <1>0, <1>5, <2>1, <2>2, <2>3 DEF CreateTask
<1>b. ASSUME NEW t \in Tasks, Exists(t), NEW R \in SUBSET RelationRow, Related(R, task)
      PROVE  Related(R, Touched(t))
  <2>1. task[t] \in TaskRow
    BY <1>0
  <2>2. \A u \in Tasks : Touched(t)[u].project = task[u].project /\ Touched(t)[u].state = task[u].state
    BY <1>0, <2>1 DEF Touched, TaskRow
  <2>3. \A r \in R : \A u \in {r.source, r.target} : u \in Tasks /\ Stored(task[u])
    BY <1>b DEF Related, RelationRow
  <2>4. \A r \in R : \A u \in {r.source, r.target} :
          Stored(Touched(t)[u]) /\ Touched(t)[u].project = task[u].project
    BY <2>2, <2>3 DEF Stored
  <2> QED BY <1>b, <2>4, RelatedStays
<1>6. ASSUME NEW q \in Requests, WriteAdd(q)
      PROVE  Forest(rel') /\ Related(rel', task')
  <2> DEFINE t == request[q].task
  <2>1. t \in Tasks /\ Row(q) \in RelationRow
    BY <1>6, AimsOf DEF WriteAdd, At, TaskKinds
  <2>2. CASE UNCHANGED <<rel, task>>
    BY <1>1, <2>2
  <2>3. CASE /\ Fresh(q) /\ ~Refuses(Kept(q), Row(q))
             /\ rel' = Kept(q) \cup {Row(q)} /\ task' = Touched(t)
    <3>1. Kept(q) \subseteq rel
      BY DEF Kept
    <3>2. Forest(Kept(q)) /\ Related(Kept(q), task)
      BY <1>0, <3>1, ForestPart DEF Related
    <3>3. Forest(rel') /\ Related(rel', task)
      BY <1>0, <2>1, <2>3, <3>1, <3>2, Accepted
    <3>4. rel' \in SUBSET RelationRow
      BY <1>0, <2>1, <2>3, <3>1
    <3>5. Exists(t)
      BY <2>3 DEF Fresh
    <3> QED BY <1>b, <2>1, <2>3, <3>3, <3>4, <3>5
  <2> QED BY <1>6, <2>2, <2>3 DEF WriteAdd
<1>7. ASSUME NEW q \in Requests, WriteRemove(q)
      PROVE  Forest(rel') /\ Related(rel', task')
  <2> DEFINE t == request[q].task
  <2>1. t \in Tasks
    BY <1>7, AimsOf DEF WriteRemove, At, TaskKinds
  <2>2. CASE UNCHANGED <<rel, task>>
    BY <1>1, <2>2
  <2>3. CASE Fresh(q) /\ rel' = rel \ {Row(q)} /\ task' = Touched(t)
    <3>1. Forest(rel') /\ Related(rel', task) /\ rel' \in SUBSET RelationRow
      BY <1>0, <2>3, ForestPart DEF Related
    <3>2. Exists(t)
      BY <2>3 DEF Fresh
    <3> QED BY <1>b, <2>1, <2>3, <3>1, <3>2
  <2> QED BY <1>7, <2>2, <2>3 DEF WriteRemove
<1>8. ASSUME NEW q \in Requests, Start(q)
      PROVE  UNCHANGED <<rel, task>>
  BY <1>8, StartChanges DEF board
<1>9. ASSUME NEW q \in Requests,
             \/ LookTransfer(q) \/ CreateProject(q) \/ DeleteProject(q) \/ ReadOther(q)
             \/ LookAdd(q) \/ LookRemove(q) \/ CreateComment(q) \/ UpdateComment(q)
             \/ ListFiles(q) \/ DeleteComment(q) \/ Put(q) \/ Insert(q) \/ DeleteRow(q)
             \/ DeleteObjects(q) \/ Fails(q)
      PROVE  UNCHANGED <<rel, task>>
  BY <1>9 DEF LookTransfer, CreateProject, DeleteProject, ReadOther, LookAdd, LookRemove,
              CreateComment, UpdateComment, ListFiles, DeleteComment, Put, Insert, DeleteRow,
              DeleteObjects, Fails, board
<1>10. ASSUME ListComments \/ ListCommentsAfter \/ UNCHANGED vars
       PROVE  UNCHANGED <<rel, task>>
  BY <1>10 DEF ListComments, ListCommentsAfter, Reads, vars, board
<1> QED BY <1>1, <1>2, <1>3, <1>4, <1>5, <1>6, <1>7, <1>8, <1>9, <1>10 DEF Next, Continue

LEMMA BoardInit == Init => BoardHolds
BY StartsAssumption DEF Init, BoardHolds

\* Parents never form a cycle and no card has two, however the requests that looked
\* for a cycle before they write interleave.
THEOREM ParentsAreTreesHolds == Spec => []ParentsAreTrees
<1>1. BoardHolds => ParentsAreTrees
  BY DEF BoardHolds, ParentsAreTrees
<1> QED BY <1>1, TypedInit, TypedStep, BoardInit, BoardStep, PTL DEF Spec

\* Related cards exist and are in one project, although cards are transferred, archived
\* and deleted while a relation is added.
THEOREM RelationsStayInProjectHolds == Spec => []RelationsStayInProject
<1>1. BoardHolds => RelationsStayInProject
  BY DEF BoardHolds, RelationsStayInProject
<1> QED BY <1>1, TypedInit, TypedStep, BoardInit, BoardStep, PTL DEF Spec

-----------------------------------------------------------------------------
(* Files *)

\* A request holds a file it listed, or is about to delete; it brings the file it put;
\* it will remove the objects of the files it holds at its last step.
Holds(r, f)   == f \in r.files \/ (r.kind = "deleteFile" /\ r.step = "write" /\ r.file = f)
Brings(r, f)  == r.kind = "upload" /\ r.step = "insert" /\ r.file = f
Removes(r, f) == r.step = "objects" /\ f \in r.files

\* Nobody is left who would remove the object.
Excused(f) == f \in broken \/ (owner[f] \in Comments /\ comment[owner[f]].state = "deleted")

FilesHold ==
  /\ \A f \in rows : f \in objects \cup broken /\ owner[f] # NoTask
  /\ \A q \in Requests, f \in Files :
       /\ Holds(request[q], f) => owner[f] # NoTask
       /\ Removes(request[q], f) => f \notin rows \/ f \in broken
       /\ f \in request[q].files /\ request[q].kind = "deleteComment" => owner[f] = request[q].comment
       /\ Brings(request[q], f) =>
            /\ f \in objects /\ f \notin rows /\ owner[f] # NoTask
            /\ \A p \in Requests : ~Holds(request[p], f) /\ (Brings(request[p], f) => p = q)
  /\ \A f \in objects : f \notin rows =>
       \/ Excused(f)
       \/ \E q \in Requests : Brings(request[q], f) \/ Removes(request[q], f)

\* A request that took a step without bringing or removing files: it holds at most
\* what it held, or files that are in rows.
LEMMA FilesStay ==
  ASSUME Typed, FilesHold, NEW q \in Requests,
         \A p \in Requests : p # q => request'[p] = request[p],
         \A f \in Files : /\ Holds(request'[q], f) => Holds(request[q], f) \/ f \in rows
                          /\ ~Brings(request'[q], f) /\ ~Removes(request'[q], f)
                          /\ ~Brings(request[q], f) /\ ~Removes(request[q], f)
                          /\ f \in request'[q].files /\ request'[q].kind = "deleteComment"
                               => owner[f] = request'[q].comment,
         UNCHANGED <<owner, rows, objects, broken>>,
         \A c \in Comments : comment[c].state = "deleted" => comment'[c].state = "deleted"
  PROVE  FilesHold'
<1> USE DEF Typed, StoreType
<1>1. \A f \in rows' : f \in objects' \cup broken' /\ owner'[f] # NoTask
  BY DEF FilesHold
<1>2. ASSUME NEW p \in Requests, NEW f \in Files
      PROVE  /\ Holds(request'[p], f) => owner'[f] # NoTask
             /\ Removes(request'[p], f) => f \notin rows' \/ f \in broken'
             /\ f \in request'[p].files /\ request'[p].kind = "deleteComment"
                  => owner'[f] = request'[p].comment
  BY DEF FilesHold
<1>3. ASSUME NEW p \in Requests, NEW f \in Files, Brings(request'[p], f)
      PROVE  /\ f \in objects' /\ f \notin rows' /\ owner'[f] # NoTask
             /\ \A o \in Requests : ~Holds(request'[o], f) /\ (Brings(request'[o], f) => o = p)
  <2>1. p # q /\ Brings(request[p], f)
    BY <1>3
  <2>2. /\ f \in objects /\ f \notin rows /\ owner[f] # NoTask
        /\ \A o \in Requests : ~Holds(request[o], f) /\ (Brings(request[o], f) => o = p)
    BY <2>1 DEF FilesHold
  <2> QED BY <2>1, <2>2
<1>4. ASSUME NEW f \in objects', f \notin rows'
      PROVE  \/ Excused(f)'
             \/ \E p \in Requests : Brings(request'[p], f) \/ Removes(request'[p], f)
  <2>1. Excused(f) \/ \E p \in Requests : Brings(request[p], f) \/ Removes(request[p], f)
    BY <1>4 DEF FilesHold
  <2>2. CASE Excused(f)
    BY <2>2 DEF Excused
  <2>3. ASSUME NEW p \in Requests, Brings(request[p], f) \/ Removes(request[p], f)
        PROVE  Brings(request'[p], f) \/ Removes(request'[p], f)
    BY <1>4, <2>3
  <2> QED BY <2>1, <2>2, <2>3
<1> QED BY <1>1, <1>2, <1>3, <1>4 DEF FilesHold

\* A request that has come to its last step and will remove the objects of F
LEMMA RowsGo ==
  ASSUME Typed, FilesHold, NEW q \in Requests, NEW F \in SUBSET Files,
         request'[q].step = "objects", request'[q].files = F, request[q].step # "objects",
         \A p \in Requests : p # q => request'[p] = request[p],
         request'[q].kind = "deleteComment" => \A f \in F : owner[f] = request'[q].comment,
         rows' \subseteq rows, rows' \cap F = {}, UNCHANGED <<owner, objects, broken>>,
         \A f \in F : owner[f] # NoTask /\ \A p \in Requests : p # q => ~Brings(request[p], f),
         \A f \in rows : f \in rows' \/ f \in F
                        \/ (owner[f] \in Comments /\ comment'[owner[f]].state = "deleted"),
         \A f \in Files : Brings(request[q], f) => f \in F,
         \A c \in Comments : comment[c].state = "deleted" => comment'[c].state = "deleted"
  PROVE  FilesHold'
<1> USE DEF Typed, StoreType
<1>1. \A f \in rows' : f \in objects' \cup broken' /\ owner'[f] # NoTask
  BY DEF FilesHold
<1>2. \A f \in Files : /\ Holds(request'[q], f) <=> f \in F
                       /\ ~Brings(request'[q], f) /\ (Removes(request'[q], f) <=> f \in F)
  BY DEF Holds, Brings, Removes
<1>3. ASSUME NEW p \in Requests, NEW f \in Files
      PROVE  /\ Holds(request'[p], f) => owner'[f] # NoTask
             /\ Removes(request'[p], f) => f \notin rows' \/ f \in broken'
             /\ f \in request'[p].files /\ request'[p].kind = "deleteComment"
                  => owner'[f] = request'[p].comment
  BY <1>2 DEF FilesHold
<1>4. ASSUME NEW p \in Requests, NEW f \in Files, Brings(request'[p], f)
      PROVE  /\ f \in objects' /\ f \notin rows' /\ owner'[f] # NoTask
             /\ \A o \in Requests : ~Holds(request'[o], f) /\ (Brings(request'[o], f) => o = p)
  <2>1. p # q /\ Brings(request[p], f)
    BY <1>2, <1>4
  <2>2. /\ f \in objects /\ f \notin rows /\ owner[f] # NoTask
        /\ \A o \in Requests : ~Holds(request[o], f) /\ (Brings(request[o], f) => o = p)
    BY <2>1 DEF FilesHold
  <2>3. f \notin F
    BY <2>1
  <2> QED BY <1>2, <2>1, <2>2, <2>3
<1>5. ASSUME NEW f \in objects', f \notin rows'
      PROVE  \/ Excused(f)'
             \/ \E p \in Requests : Brings(request'[p], f) \/ Removes(request'[p], f)
  <2>1. CASE f \in F
    BY <1>2, <2>1
  <2>2. CASE f \in rows /\ f \notin F
    BY <1>5, <2>2 DEF Excused
  <2>3. CASE f \notin rows /\ f \notin F
    <3>1. Excused(f) \/ \E p \in Requests : Brings(request[p], f) \/ Removes(request[p], f)
      BY <1>5, <2>3 DEF FilesHold
    <3>2. Excused(f) => Excused(f)'
      BY DEF Excused
    <3>3. ASSUME NEW p \in Requests, Brings(request[p], f) \/ Removes(request[p], f)
          PROVE  p # q /\ (Brings(request'[p], f) \/ Removes(request'[p], f))
      <4>1. p # q
        BY <1>5, <2>3, <3>3 DEF Removes
      <4> QED BY <3>3, <4>1
    <3> QED BY <3>1, <3>2, <3>3
  <2> QED BY <2>1, <2>2, <2>3
<1> QED BY <1>1, <1>3, <1>4, <1>5 DEF FilesHold

\* Files of rows belong to nobody who brings them.
LEMMA RowsAreHeld ==
  ASSUME FilesHold, Typed, NEW f \in rows
  PROVE  f \in Files /\ owner[f] # NoTask /\ \A p \in Requests : ~Brings(request[p], f)
BY DEF FilesHold, Typed, StoreType

LEMMA FilesStep == Typed /\ FilesHold /\ [Next]_vars => FilesHold'
<1> SUFFICES ASSUME Typed, FilesHold, [Next]_vars PROVE FilesHold'
  OBVIOUS
<1>0. /\ request \in [Requests -> AimedRow] /\ rows \subseteq Files /\ objects \subseteq Files
      /\ comment \in [Comments -> CommentRow]
  BY DEF Typed, StoreType
<1>1. CASE UNCHANGED <<store, request, broken>>
  BY <1>1 DEF FilesHold, store, Excused
<1>2. ASSUME NEW q \in Requests, Start(q)
      PROVE  FilesHold'
  <2>1. /\ Begun(request'[q]) /\ request[q].step = "new"
        /\ \A p \in Requests : p # q => request'[p] = request[p]
        /\ UNCHANGED <<store, broken>>
    BY <1>2, StartChanges DEF Start, TaskRequest, RelationRequest, CommentOn, ProjectRequest,
       CommentRequest, Upload, FileRequest, Begins
  <2>2. \A f \in Files : /\ Holds(request'[q], f) => f \in rows
                         /\ ~Brings(request'[q], f) /\ ~Removes(request'[q], f)
                         /\ ~Brings(request[q], f) /\ ~Removes(request[q], f)
                         /\ f \notin request'[q].files
    BY <2>1 DEF Begun, Holds, Brings, Removes
  <2> QED BY <2>1, <2>2, FilesStay DEF store
<1>3. ASSUME NEW q \in Requests,
             \/ WriteTask(q) \/ LookTransfer(q) \/ WriteTransfer(q)
             \/ CreateTask(q) \/ CreateProject(q) \/ DeleteProject(q)
             \/ ReadOther(q) \/ LookAdd(q) \/ WriteAdd(q) \/ LookRemove(q) \/ WriteRemove(q)
      PROVE  FilesHold'
  <2>1. /\ request'[q].files = request[q].files \/ request'[q].files = {}
        /\ request'[q].step \in {"done", "look", "write"}
        /\ request'[q].kind \in {"none", request[q].kind}
        /\ request[q].kind \notin {"deleteFile", "deleteComment", "upload"}
        /\ request[q].step \notin {"insert", "objects"}
        /\ \A p \in Requests : p # q => request'[p] = request[p]
        /\ UNCHANGED <<store, broken>>
    BY <1>3, BoardSteps
  <2>2. \A f \in Files : /\ Holds(request'[q], f) => Holds(request[q], f)
                         /\ ~Brings(request'[q], f) /\ ~Removes(request'[q], f)
                         /\ ~Brings(request[q], f) /\ ~Removes(request[q], f)
                         /\ request'[q].kind # "deleteComment"
    BY <2>1 DEF Holds, Brings, Removes
  <2> QED BY <2>1, <2>2, FilesStay DEF store
<1>4. ASSUME NEW q \in Requests, CreateComment(q) \/ UpdateComment(q)
      PROVE  FilesHold'
  <2>1. /\ request'[q].step = "done" /\ request'[q].files = {} /\ request'[q].kind = "none"
        /\ \A p \in Requests : p # q => request'[p] = request[p]
    BY <1>0, <1>4, OverChanges DEF CreateComment, UpdateComment
  <2>2. /\ request[q].step = "write" /\ request[q].kind # "upload"
        /\ UNCHANGED <<owner, rows, objects, broken>>
    BY <1>4 DEF CreateComment, UpdateComment, At
  <2>3. \A c \in Comments : comment[c].state = "deleted" => comment'[c].state = "deleted"
    BY <1>0, <1>4 DEF CreateComment, UpdateComment, CommentRow
  <2>4. \A f \in Files : /\ ~Holds(request'[q], f) /\ f \notin request'[q].files
                         /\ ~Brings(request'[q], f) /\ ~Removes(request'[q], f)
                         /\ ~Brings(request[q], f) /\ ~Removes(request[q], f)
    BY <2>1, <2>2 DEF Holds, Brings, Removes
  <2> QED BY <2>1, <2>2, <2>3, <2>4, FilesStay
<1>5. ASSUME NEW q \in Requests, ListFiles(q)
      PROVE  FilesHold'
  <2> DEFINE F == FilesOf(request[q].comment)
  <2>1. F \in SUBSET Files
    BY <1>0 DEF FilesOf
  <2>2. /\ request'[q].step = "write" /\ request'[q].files = F
        /\ request'[q].kind = request[q].kind /\ request'[q].comment = request[q].comment
        /\ \A p \in Requests : p # q => request'[p] = request[p]
    <3>1. Moved(q, "write", F)
      BY <1>0, <1>5, <2>1, FilesChange DEF ListFiles
    <3> QED BY <3>1 DEF Moved
  <2>3. /\ request[q].step = "look" /\ request[q].kind = "deleteComment"
        /\ UNCHANGED <<store, broken>>
    BY <1>5 DEF ListFiles, At
  <2>4. \A f \in Files : /\ Holds(request'[q], f) => f \in rows
                         /\ ~Brings(request'[q], f) /\ ~Removes(request'[q], f)
                         /\ ~Brings(request[q], f) /\ ~Removes(request[q], f)
                         /\ f \in request'[q].files => owner[f] = request'[q].comment
    BY <2>2, <2>3 DEF Holds, Brings, Removes, FilesOf
  <2> QED BY <2>2, <2>3, <2>4, FilesStay DEF store
<1>a. ASSUME NEW q \in Requests, Over(q), request[q].step \notin {"insert", "objects"},
             UNCHANGED <<store, broken>>
      PROVE  FilesHold'
  <2>1. /\ request'[q].step = "done" /\ request'[q].files = {} /\ request'[q].kind = "none"
        /\ \A p \in Requests : p # q => request'[p] = request[p]
    BY <1>0, <1>a, OverChanges
  <2>2. \A f \in Files : /\ ~Holds(request'[q], f) /\ f \notin request'[q].files
                         /\ ~Brings(request'[q], f) /\ ~Removes(request'[q], f)
                         /\ ~Brings(request[q], f) /\ ~Removes(request[q], f)
    BY <1>a, <2>1 DEF Holds, Brings, Removes
  <2> QED BY <1>a, <2>1, <2>2, FilesStay DEF store
<1>6. ASSUME NEW q \in Requests, WriteDelete(q)
      PROVE  FilesHold'
  <2> DEFINE t == request[q].task
             F == AllFiles(t)
  <2>1. request[q].step = "write" /\ request[q].kind = "delete"
    BY <1>6 DEF WriteDelete, At
  <2>2. CASE Over(q) /\ UNCHANGED <<store, broken>>
    BY <1>a, <2>1, <2>2
  <2>3. CASE /\ comment' = [c \in Comments |-> IF c \in CommentsOf(t)
                                                THEN [comment[c] EXCEPT !.state = "gone"]
                                                ELSE comment[c]]
             /\ rows' = rows \ (FilesOf(t) \cup UNION {FilesOf(c) : c \in CommentsOf(t)})
             /\ request' = [request EXCEPT ![q].step = "objects", ![q].files = AllFiles(t)]
             /\ UNCHANGED <<owner, objects, broken>>
    <3>1. F \in SUBSET Files /\ F \subseteq rows /\ rows' = rows \ F
      BY <1>0, <2>3 DEF AllFiles, FilesOf
    <3>2. /\ request'[q].step = "objects" /\ request'[q].files = F /\ request'[q].kind = "delete"
          /\ \A p \in Requests : p # q => request'[p] = request[p]
      <4>1. Moved(q, "objects", F)
        BY <1>0, <2>3, <3>1, FilesChange
      <4> QED BY <2>1, <4>1 DEF Moved
    <3>3. \A f \in F : owner[f] # NoTask /\ \A p \in Requests : ~Brings(request[p], f)
      BY <3>1, RowsAreHeld
    <3>4. \A c \in Comments : comment[c].state = "deleted" => comment'[c].state = "deleted"
      BY <1>0, <2>3 DEF CommentsOf, Live
    <3>5. \A f \in Files : ~Brings(request[q], f)
      BY <2>1 DEF Brings
    <3>6. /\ rows' \subseteq rows /\ rows' \cap F = {} /\ UNCHANGED <<owner, objects, broken>>
          /\ \A f \in rows : f \in rows' \/ f \in F
          /\ request[q].step # "objects"
      BY <2>1, <2>3, <3>1
    <3> HIDE DEF F, t
    <3> QED BY <3>1, <3>2, <3>3, <3>4, <3>5, <3>6, RowsGo
  <2> QED BY <1>6, <2>2, <2>3 DEF WriteDelete, store
<1>7. ASSUME NEW q \in Requests, DeleteComment(q)
      PROVE  FilesHold'
  <2> DEFINE c == request[q].comment
             F == request[q].files
  <2>1. /\ request[q].step = "write" /\ request[q].kind = "deleteComment" /\ c \in Comments
        /\ F \in SUBSET Files
    BY <1>7, AimsOf DEF DeleteComment, At, RequestRow
  <2>2. CASE Over(q) /\ UNCHANGED <<store, broken>>
    BY <1>a, <2>1, <2>2
  <2>3. CASE /\ comment' = [comment EXCEPT ![c].state = "deleted"] /\ rows' = rows \ FilesOf(c)
             /\ Goes(q, "objects") /\ UNCHANGED <<owner, objects, broken>>
    <3>1. /\ request'[q].step = "objects" /\ request'[q].files = F
          /\ request'[q].kind = "deleteComment" /\ request'[q].comment = c
          /\ \A p \in Requests : p # q => request'[p] = request[p]
      BY <1>0, <2>1, <2>3, GoesChanges
    <3>2. \A f \in F : /\ owner[f] = c /\ owner[f] # NoTask
                       /\ \A p \in Requests : ~Brings(request[p], f)
      BY <2>1 DEF FilesHold, Holds
    <3>3. rows' \cap F = {} /\ \A f \in rows : f \in rows' \/ owner[f] = c
      BY <2>3, <3>2 DEF FilesOf
    <3>4. /\ comment'[c].state = "deleted"
          /\ \A d \in Comments : comment[d].state = "deleted" => comment'[d].state = "deleted"
      BY <1>0, <2>1, <2>3 DEF CommentRow
    <3>5. \A f \in Files : ~Brings(request[q], f)
      BY <2>1 DEF Brings
    <3> QED BY <2>1, <2>3, <3>1, <3>2, <3>3, <3>4, <3>5, RowsGo
  <2> QED BY <1>7, <2>2, <2>3 DEF DeleteComment, store
<1>8. ASSUME NEW q \in Requests, DeleteRow(q)
      PROVE  FilesHold'
  <2> DEFINE g == request[q].file
  <2>1. g \in Files /\ request[q].step = "write" /\ request[q].kind = "deleteFile"
    BY <1>8, AimsOf DEF DeleteRow, At
  <2>2. {g} \in SUBSET Files
    BY <2>1
  <2>3. /\ request'[q].step = "objects" /\ request'[q].files = {g}
        /\ request'[q].kind = "deleteFile"
        /\ \A p \in Requests : p # q => request'[p] = request[p]
    <3>1. Moved(q, "objects", {g})
      BY <1>0, <1>8, <2>2, FilesChange DEF DeleteRow
    <3> QED BY <2>1, <3>1 DEF Moved
  <2>4. rows' = rows \ {g} /\ UNCHANGED <<owner, objects, broken, comment>>
    BY <1>8 DEF DeleteRow, RowFirst
  <2>5. owner[g] # NoTask /\ \A p \in Requests : ~Brings(request[p], g)
    BY <2>1 DEF FilesHold, Holds
  <2>6. \A f \in Files : ~Brings(request[q], f)
    BY <2>1 DEF Brings
  <2> QED BY <2>1, <2>2, <2>3, <2>4, <2>5, <2>6, RowsGo
<1>9. ASSUME NEW q \in Requests, Put(q)
      PROVE  FilesHold'
  <2>1. PICK g \in Files :
          /\ owner[g] = NoTask
          /\ owner' = [owner EXCEPT ![g] = UploadOwner(q)]
          /\ objects' = objects \cup {g}
          /\ request' = [request EXCEPT ![q].step = "insert", ![q].file = g]
    BY <1>9 DEF Put
  <2>2. /\ request[q].step = "put" /\ request[q].kind = "upload" /\ UploadOwner(q) # NoTask
        /\ UNCHANGED <<comment, rows, broken>>
    BY <1>9, AimsOf, RowsAssumption DEF Put, At
  <2>3. /\ request'[q].step = "insert" /\ request'[q].file = g
        /\ request'[q].files = request[q].files /\ request'[q].kind = "upload"
        /\ \A p \in Requests : p # q => request'[p] = request[p]
    BY <1>0, <2>1, <2>2, FileChanges
  <2>4. owner'[g] # NoTask /\ \A f \in Files : f # g => owner'[f] = owner[f]
    BY <2>1, <2>2 DEF Typed, StoreType
  <2>5. g \notin rows /\ \A p \in Requests : ~Holds(request[p], g) /\ ~Brings(request[p], g)
    BY <2>1 DEF FilesHold
  <2>6. \A p \in Requests, f \in Files :
          /\ Holds(request'[p], f) <=> Holds(request[p], f)
          /\ Brings(request'[p], f) <=> Brings(request[p], f) \/ (p = q /\ f = g)
          /\ Removes(request'[p], f) <=> Removes(request[p], f)
          /\ request'[p].files = request[p].files
    BY <2>2, <2>3 DEF Holds, Brings, Removes
  <2>7. \A f \in rows' : f \in objects' \cup broken' /\ owner'[f] # NoTask
    BY <1>0, <2>1, <2>2, <2>4, <2>5 DEF FilesHold
  <2>8. ASSUME NEW p \in Requests, NEW f \in Files
        PROVE  /\ Holds(request'[p], f) => owner'[f] # NoTask
               /\ Removes(request'[p], f) => f \notin rows' \/ f \in broken'
               /\ f \in request'[p].files /\ request'[p].kind = "deleteComment"
                    => owner'[f] = request'[p].comment
    <3>1. f = g => ~Holds(request[p], f)
      BY <2>5
    <3>2. f \in request[p].files => Holds(request[p], f)
      BY DEF Holds
    <3>3. request'[p].kind = "deleteComment" => request'[p] = request[p]
      BY <2>3
    <3> QED BY <2>2, <2>4, <2>6, <3>1, <3>2, <3>3 DEF FilesHold
  <2>9. ASSUME NEW p \in Requests, NEW f \in Files, Brings(request'[p], f)
        PROVE  /\ f \in objects' /\ f \notin rows' /\ owner'[f] # NoTask
               /\ \A o \in Requests : ~Holds(request'[o], f) /\ (Brings(request'[o], f) => o = p)
    <3>1. CASE f = g
      BY <2>1, <2>2, <2>4, <2>5, <2>6, <2>9, <3>1
    <3>2. CASE f # g
      <4>1. Brings(request[p], f)
        BY <2>6, <2>9, <3>2
      <4>2. /\ f \in objects /\ f \notin rows /\ owner[f] # NoTask
            /\ \A o \in Requests : ~Holds(request[o], f) /\ (Brings(request[o], f) => o = p)
        BY <4>1 DEF FilesHold
      <4> QED BY <2>1, <2>2, <2>4, <2>6, <3>2, <4>2
    <3> QED BY <3>1, <3>2
  <2>10. ASSUME NEW f \in objects', f \notin rows'
         PROVE  \/ Excused(f)'
                \/ \E p \in Requests : Brings(request'[p], f) \/ Removes(request'[p], f)
    <3>1. CASE f = g
      BY <2>6, <3>1
    <3>2. CASE f # g
      <4>1. f \in objects /\ f \in Files /\ f \notin rows
        BY <1>0, <2>1, <2>2, <2>10, <3>2
      <4>2. Excused(f) \/ \E p \in Requests : Brings(request[p], f) \/ Removes(request[p], f)
        BY <4>1 DEF FilesHold
      <4>3. Excused(f) => Excused(f)'
        BY <2>2, <2>4, <3>2, <4>1 DEF Excused
      <4> QED BY <2>6, <4>1, <4>2, <4>3
    <3> QED BY <3>1, <3>2
  <2> QED BY <2>7, <2>8, <2>9, <2>10 DEF FilesHold
<1>10. ASSUME NEW q \in Requests, Insert(q)
       PROVE  FilesHold'
  <2> DEFINE g == request[q].file
  <2>1. /\ g \in Files /\ request[q].step = "insert" /\ request[q].kind = "upload"
        /\ UNCHANGED <<comment, owner, objects>>
    BY <1>10, AimsOf DEF Insert, At
  <2>2. /\ Brings(request[q], g) /\ g \in objects /\ owner[g] # NoTask
        /\ \A p \in Requests : ~Holds(request[p], g) /\ (Brings(request[p], g) => p = q)
    BY <2>1 DEF FilesHold, Brings
  <2>3. CASE rows' = rows \cup {g} /\ Over(q) /\ UNCHANGED broken
    <3>1. /\ request'[q].step = "done" /\ request'[q].files = {} /\ request'[q].kind = "none"
          /\ \A p \in Requests : p # q => request'[p] = request[p]
      BY <1>0, <2>3, OverChanges
    <3>2. \A p \in Requests, f \in Files :
            /\ Holds(request'[p], f) => p # q /\ Holds(request[p], f)
            /\ Brings(request'[p], f) => p # q /\ Brings(request[p], f)
            /\ Removes(request'[p], f) => p # q /\ Removes(request[p], f)
            /\ f \in request'[p].files => p # q
      BY <3>1 DEF Holds, Brings, Removes
    <3>3. \A f \in rows' : f \in objects' \cup broken' /\ owner'[f] # NoTask
      BY <2>1, <2>2, <2>3 DEF FilesHold
    <3>4. ASSUME NEW p \in Requests, NEW f \in Files
          PROVE  /\ Holds(request'[p], f) => owner'[f] # NoTask
                 /\ Removes(request'[p], f) => f \notin rows' \/ f \in broken'
                 /\ f \in request'[p].files /\ request'[p].kind = "deleteComment"
                      => owner'[f] = request'[p].comment
      <4>1. Removes(request[p], f) => Holds(request[p], f)
        BY DEF Removes, Holds
      <4> QED BY <2>1, <2>2, <2>3, <3>1, <3>2, <4>1 DEF FilesHold
    <3>5. ASSUME NEW p \in Requests, NEW f \in Files, Brings(request'[p], f)
          PROVE  /\ f \in objects' /\ f \notin rows' /\ owner'[f] # NoTask
                 /\ \A o \in Requests : ~Holds(request'[o], f) /\ (Brings(request'[o], f) => o = p)
      <4>1. p # q /\ Brings(request[p], f)
        BY <3>2, <3>5
      <4>2. /\ f \in objects /\ f \notin rows /\ owner[f] # NoTask
            /\ \A o \in Requests : ~Holds(request[o], f) /\ (Brings(request[o], f) => o = p)
        BY <4>1 DEF FilesHold
      <4>3. f # g
        BY <2>2, <4>1
      <4> QED BY <2>1, <2>3, <3>2, <4>2, <4>3
    <3>6. ASSUME NEW f \in objects', f \notin rows'
          PROVE  \/ Excused(f)'
                 \/ \E p \in Requests : Brings(request'[p], f) \/ Removes(request'[p], f)
      <4>1. f \in objects /\ f \notin rows /\ f # g
        BY <2>1, <2>3, <3>6
      <4>2. Excused(f) \/ \E p \in Requests : Brings(request[p], f) \/ Removes(request[p], f)
        BY <4>1 DEF FilesHold
      <4>3. Excused(f) => Excused(f)'
        BY <2>1, <2>3 DEF Excused
      <4>4. ASSUME NEW p \in Requests, Brings(request[p], f) \/ Removes(request[p], f)
            PROVE  Brings(request'[p], f) \/ Removes(request'[p], f)
        <5>1. p # q
          BY <2>1, <4>1, <4>4 DEF Brings, Removes
        <5> QED BY <3>1, <4>4, <5>1
      <4> QED BY <4>2, <4>3, <4>4
    <3> QED BY <3>3, <3>4, <3>5, <3>6 DEF FilesHold
  <2>4. CASE UNCHANGED <<rows, broken>> /\ request' = [request EXCEPT ![q].step = "objects", ![q].files = {g}]
    <3>1. {g} \in SUBSET Files
      BY <2>1
    <3>2. /\ request'[q].step = "objects" /\ request'[q].files = {g} /\ request'[q].kind = "upload"
          /\ \A p \in Requests : p # q => request'[p] = request[p]
      <4>1. Moved(q, "objects", {g})
        BY <1>0, <2>4, <3>1, FilesChange
      <4> QED BY <2>1, <4>1 DEF Moved
    <3>3. g \notin rows /\ \A f \in Files : Brings(request[q], f) => f \in {g}
      BY <2>1, <2>2 DEF Brings, FilesHold
    <3>4. /\ rows' \subseteq rows /\ rows' \cap {g} = {} /\ UNCHANGED <<owner, objects, broken>>
          /\ \A f \in rows : f \in rows'
          /\ request[q].step # "objects" /\ UNCHANGED comment
      BY <2>1, <2>4, <3>3
    <3>5. \A f \in {g} : owner[f] # NoTask /\ \A p \in Requests : p # q => ~Brings(request[p], f)
      BY <2>2
    <3> HIDE DEF g
    <3> QED BY <3>1, <3>2, <3>3, <3>4, <3>5, RowsGo
  <2>5. CASE /\ rows' = rows \cup {g} /\ broken' = broken \cup {g}
             /\ request' = [request EXCEPT ![q].step = "objects", ![q].files = {g}]
    <3>1. {g} \in SUBSET Files
      BY <2>1
    <3>2. /\ request'[q].step = "objects" /\ request'[q].files = {g} /\ request'[q].kind = "upload"
          /\ \A p \in Requests : p # q => request'[p] = request[p]
      <4>1. Moved(q, "objects", {g})
        BY <1>0, <2>5, <3>1, FilesChange
      <4> QED BY <2>1, <4>1 DEF Moved
    <3>3. \A p \in Requests, f \in Files :
            /\ Holds(request'[p], f) => f = g \/ Holds(request[p], f)
            /\ Brings(request'[p], f) => p # q /\ Brings(request[p], f)
            /\ Removes(request'[p], f) => f = g \/ Removes(request[p], f)
            /\ f \in request'[p].files => p = q \/ request'[p] = request[p]
      BY <3>2 DEF Holds, Brings, Removes
    <3>4. \A f \in rows' : f \in objects' \cup broken' /\ owner'[f] # NoTask
      BY <2>1, <2>2, <2>5 DEF FilesHold
    <3>5. ASSUME NEW p \in Requests, NEW f \in Files
          PROVE  /\ Holds(request'[p], f) => owner'[f] # NoTask
                 /\ Removes(request'[p], f) => f \notin rows' \/ f \in broken'
                 /\ f \in request'[p].files /\ request'[p].kind = "deleteComment"
                      => owner'[f] = request'[p].comment
      <4>1. Removes(request[p], f) => f \notin rows \/ f \in broken
        BY DEF FilesHold
      <4>2. p # q => request'[p] = request[p]
        BY <3>2
      <4>3. Holds(request'[p], f) => owner'[f] # NoTask
        BY <2>1, <2>2, <3>3 DEF FilesHold
      <4>4. Removes(request'[p], f) => f \notin rows' \/ f \in broken'
        <5>1. CASE f = g
          BY <2>5, <5>1
        <5>2. CASE f # g
          BY <2>5, <3>3, <4>1, <5>2
        <5> QED BY <5>1, <5>2
      <4>5. f \in request'[p].files /\ request'[p].kind = "deleteComment"
              => owner'[f] = request'[p].comment
        BY <2>1, <3>2, <4>2 DEF FilesHold
      <4> QED BY <4>3, <4>4, <4>5
    <3>6. ASSUME NEW p \in Requests, NEW f \in Files, Brings(request'[p], f)
          PROVE  /\ f \in objects' /\ f \notin rows' /\ owner'[f] # NoTask
                 /\ \A o \in Requests : ~Holds(request'[o], f) /\ (Brings(request'[o], f) => o = p)
      <4>1. p # q /\ Brings(request[p], f)
        BY <3>3, <3>6
      <4>2. /\ f \in objects /\ f \notin rows /\ owner[f] # NoTask
            /\ \A o \in Requests : ~Holds(request[o], f) /\ (Brings(request[o], f) => o = p)
        BY <4>1 DEF FilesHold
      <4>3. f # g
        BY <2>2, <4>1
      <4> QED BY <2>1, <2>5, <3>3, <4>2, <4>3
    <3>7. ASSUME NEW f \in objects', f \notin rows'
          PROVE  \/ Excused(f)'
                 \/ \E p \in Requests : Brings(request'[p], f) \/ Removes(request'[p], f)
      <4>1. f \in objects /\ f \notin rows /\ f # g
        BY <2>1, <2>5, <3>7
      <4>2. Excused(f) \/ \E p \in Requests : Brings(request[p], f) \/ Removes(request[p], f)
        BY <4>1 DEF FilesHold
      <4>3. Excused(f) => Excused(f)'
        BY <2>1, <2>5 DEF Excused
      <4>4. ASSUME NEW p \in Requests, Brings(request[p], f) \/ Removes(request[p], f)
            PROVE  Brings(request'[p], f) \/ Removes(request'[p], f)
        <5>1. p # q
          BY <2>1, <4>1, <4>4 DEF Brings, Removes
        <5> QED BY <3>2, <4>4, <5>1
      <4> QED BY <4>2, <4>3, <4>4
    <3> QED BY <3>4, <3>5, <3>6, <3>7 DEF FilesHold
  <2> QED BY <1>10, <2>3, <2>4, <2>5 DEF Insert, InsertRow
<1>11. ASSUME NEW q \in Requests, DeleteObjects(q)
       PROVE  FilesHold'
  <2> DEFINE F == request[q].files
  <2>1. /\ request[q].step = "objects" /\ objects' = objects \ F
        /\ UNCHANGED <<comment, owner, rows, broken>>
    BY <1>11 DEF DeleteObjects
  <2>2. /\ request'[q].step = "done" /\ request'[q].files = {} /\ request'[q].kind = "none"
        /\ \A p \in Requests : p # q => request'[p] = request[p]
    BY <1>0, <1>11, OverChanges DEF DeleteObjects
  <2>3. \A f \in Files : f \in F => Holds(request[q], f) /\ Removes(request[q], f)
    BY <2>1 DEF Holds, Removes
  <2>4. \A p \in Requests, f \in Files :
          /\ Holds(request'[p], f) => p # q /\ Holds(request[p], f)
          /\ Brings(request'[p], f) => p # q /\ Brings(request[p], f)
          /\ Removes(request'[p], f) => p # q /\ Removes(request[p], f)
          /\ f \in request'[p].files => p # q
    BY <2>2 DEF Holds, Brings, Removes
  <2>5. \A f \in rows' : f \in objects' \cup broken' /\ owner'[f] # NoTask
    BY <1>0, <2>1, <2>3 DEF FilesHold
  <2>6. ASSUME NEW p \in Requests, NEW f \in Files
        PROVE  /\ Holds(request'[p], f) => owner'[f] # NoTask
               /\ Removes(request'[p], f) => f \notin rows' \/ f \in broken'
               /\ f \in request'[p].files /\ request'[p].kind = "deleteComment"
                    => owner'[f] = request'[p].comment
    BY <2>1, <2>2, <2>4 DEF FilesHold
  <2>7. ASSUME NEW p \in Requests, NEW f \in Files, Brings(request'[p], f)
        PROVE  /\ f \in objects' /\ f \notin rows' /\ owner'[f] # NoTask
               /\ \A o \in Requests : ~Holds(request'[o], f) /\ (Brings(request'[o], f) => o = p)
    <3>1. Brings(request[p], f)
      BY <2>4, <2>7
    <3>2. /\ f \in objects /\ f \notin rows /\ owner[f] # NoTask
          /\ \A o \in Requests : ~Holds(request[o], f) /\ (Brings(request[o], f) => o = p)
      BY <3>1 DEF FilesHold
    <3>3. f \notin F
      BY <2>3, <3>2
    <3> QED BY <2>1, <2>4, <3>2, <3>3
  <2>8. ASSUME NEW f \in objects', f \notin rows'
        PROVE  \/ Excused(f)'
               \/ \E p \in Requests : Brings(request'[p], f) \/ Removes(request'[p], f)
    <3>1. f \in objects /\ f \notin rows /\ f \notin F
      BY <2>1, <2>8
    <3>2. Excused(f) \/ \E p \in Requests : Brings(request[p], f) \/ Removes(request[p], f)
      BY <3>1 DEF FilesHold
    <3>3. Excused(f) => Excused(f)'
      BY <2>1 DEF Excused
    <3>4. ASSUME NEW p \in Requests, Brings(request[p], f) \/ Removes(request[p], f)
          PROVE  Brings(request'[p], f) \/ Removes(request'[p], f)
      <4>1. p # q
        BY <2>1, <3>1, <3>4 DEF Brings, Removes
      <4> QED BY <2>2, <3>4, <4>1
    <3> QED BY <3>2, <3>3, <3>4
  <2> QED BY <2>5, <2>6, <2>7, <2>8 DEF FilesHold
<1>12. ASSUME NEW q \in Requests, Fails(q)
       PROVE  FilesHold'
  <2>1. broken' = broken \cup InHand(q) /\ UNCHANGED store
    BY <1>12 DEF Fails
  <2>2. /\ request'[q].step = "done" /\ request'[q].files = {} /\ request'[q].kind = "none"
        /\ \A p \in Requests : p # q => request'[p] = request[p]
    BY <1>0, <1>12, OverChanges DEF Fails
  <2>3. \A p \in Requests, f \in Files :
          /\ Holds(request'[p], f) => Holds(request[p], f)
          /\ Brings(request'[p], f) => Brings(request[p], f)
          /\ Removes(request'[p], f) => Removes(request[p], f)
          /\ f \in request'[p].files => p # q
    BY <2>2 DEF Holds, Brings, Removes
  <2>4. ASSUME NEW f \in objects, f \notin rows
        PROVE  \/ Excused(f)'
               \/ \E p \in Requests : Brings(request'[p], f) \/ Removes(request'[p], f)
    <3>1. Excused(f) \/ \E p \in Requests : Brings(request[p], f) \/ Removes(request[p], f)
      BY <2>4 DEF FilesHold
    <3>2. Excused(f) => Excused(f)'
      BY <2>1 DEF Excused, store
    <3>3. f \in InHand(q) => Excused(f)'
      BY <2>1 DEF Excused
    <3>4. Brings(request[q], f) \/ Removes(request[q], f) => f \in InHand(q)
      BY <1>0, <2>4 DEF Brings, Removes, InHand, At
    <3> QED BY <2>2, <3>1, <3>2, <3>3, <3>4
  <2>5. ASSUME NEW p \in Requests, NEW f \in Files
        PROVE  /\ Holds(request'[p], f) => owner'[f] # NoTask
               /\ Removes(request'[p], f) => f \notin rows' \/ f \in broken'
               /\ f \in request'[p].files /\ request'[p].kind = "deleteComment"
                    => owner'[f] = request'[p].comment
               /\ Brings(request'[p], f) =>
                    /\ f \in objects' /\ f \notin rows' /\ owner'[f] # NoTask
                    /\ \A o \in Requests : ~Holds(request'[o], f) /\ (Brings(request'[o], f) => o = p)
    BY <2>1, <2>2, <2>3 DEF FilesHold, store
  <2> QED BY <2>1, <2>4, <2>5 DEF FilesHold, store
<1>13. CASE ListComments \/ ListCommentsAfter \/ UNCHANGED vars
  BY <1>1, <1>13 DEF ListComments, ListCommentsAfter, Reads, vars, store
<1> QED BY <1>2, <1>3, <1>4, <1>5, <1>6, <1>7, <1>8, <1>9, <1>10, <1>11, <1>12, <1>13
        DEF Next, Continue

LEMMA FilesInit == Init => FilesHold
<1> SUFFICES ASSUME Init PROVE FilesHold
  OBVIOUS
<1>1. rows = {f \in Files : owner[f] # NoTask} /\ objects = rows
  BY DEF Init
<1>2. \A q \in Requests : request[q].files = {} /\ request[q].kind = "none"
  <2>1. [NoRequest EXCEPT !.step = "done"].files = {} /\ [NoRequest EXCEPT !.step = "done"].kind = "none"
    BY DEF NoRequest
  <2>2. NoRequest.files = {} /\ NoRequest.kind = "none"
    BY DEF NoRequest
  <2>3. \A q \in Requests : request[q] \in {NoRequest, [NoRequest EXCEPT !.step = "done"]}
    BY DEF Init
  <2> QED BY <2>1, <2>2, <2>3
<1>3. \A q \in Requests, f \in Files :
        ~Holds(request[q], f) /\ ~Removes(request[q], f) /\ ~Brings(request[q], f)
  BY <1>2 DEF Holds, Removes, Brings
<1> QED BY <1>1, <1>2, <1>3 DEF FilesHold

\* A file that has a row has an object, although uploads, deletions of files, comments
\* and cards, and failures interleave; only the upload that failed after D1 had inserted
\* its row has removed the object of a row.
THEOREM RowsHaveObjectsHolds == Spec => []RowsHaveObjects
<1>1. FilesHold => RowsHaveObjects
  BY DEF FilesHold, RowsHaveObjects
<1> QED BY <1>1, TypedInit, TypedStep, FilesInit, FilesStep, PTL DEF Spec

\* An object without a row is about to be given a row or to be removed, unless the
\* request that had it in hand was cut off or its comment was deleted during the upload.
THEOREM ObjectsAreOwnedHolds == Spec => []ObjectsAreOwned
<1>1. Typed /\ FilesHold => ObjectsAreOwned
  <2> SUFFICES ASSUME Typed, FilesHold, NEW f \in objects \ rows, Forgotten(f)
               PROVE  Excused(f)
    BY DEF ObjectsAreOwned, Excused
  <2>1. \A q \in Requests : ~Brings(request[q], f) /\ ~Removes(request[q], f)
    BY DEF Typed, StoreType, Forgotten, InHand, Brings, Removes, At
  <2> QED BY <2>1 DEF FilesHold
<1> QED BY <1>1, TypedInit, TypedStep, FilesInit, FilesStep, PTL DEF Spec

-----------------------------------------------------------------------------
(* Reading by cursor *)

CursorHolds ==
  /\ \A c \in Comments : comment[c].revision <= revision
  /\ reader.cursor <= revision
  /\ CursorMissesNothing

\* A write after which every comment of the card is as it was, or is newer than all
\* revisions before
LEMMA CursorStays ==
  ASSUME Typed, Typed', CursorHolds, UNCHANGED reader, revision' \in {revision, revision + 1},
         \A c \in Comments :
           \/ comment'[c].revision = revision + 1 /\ revision' = revision + 1
           \/ /\ comment'[c].revision = comment[c].revision
              /\ comment'[c].version = comment[c].version
              /\ comment'[c].state = "live" => comment[c].state = "live"
              /\ comment'[c].task = comment[c].task
  PROVE  CursorHolds'
<1>1. /\ revision \in Nat /\ reader.cursor \in Nat
      /\ \A c \in Comments : comment[c].revision \in Nat /\ comment'[c].revision \in Nat
  BY DEF Typed, StoreType, ReaderType, CommentRow
<1>2. (\A c \in Comments : comment'[c].revision <= revision') /\ reader'.cursor <= revision'
  BY <1>1 DEF CursorHolds
<1>3. ASSUME reader.listed, NEW c \in CommentsOf(reader.task)'
      PROVE  comment'[c].revision > reader.cursor \/ reader.known[c] = comment'[c].version
  <2>1. c \in Comments /\ comment'[c].state = "live" /\ comment'[c].task = reader.task
    BY DEF CommentsOf, Live
  <2>2. CASE comment'[c].revision = revision + 1
    BY <1>1, <2>2 DEF CursorHolds
  <2>3. CASE /\ comment'[c].revision = comment[c].revision
             /\ comment'[c].version = comment[c].version
             /\ comment[c].state = "live" /\ comment'[c].task = comment[c].task
    <3>1. c \in CommentsOf(reader.task)
      BY <2>1, <2>3 DEF CommentsOf, Live
    <3>2. comment[c].revision > reader.cursor \/ reader.known[c] = comment[c].version
      BY <1>3, <3>1 DEF CursorHolds, CursorMissesNothing
    <3> QED BY <2>3, <3>2
  <2> QED BY <2>1, <2>2, <2>3
<1> QED BY <1>2, <1>3 DEF CursorHolds, CursorMissesNothing

LEMMA CursorReads ==
  ASSUME Typed, CursorHolds, ListComments \/ ListCommentsAfter
  PROVE  CursorHolds'
<1>0. /\ revision \in Nat /\ ReaderType /\ comment \in [Comments -> CommentRow]
  BY DEF Typed, StoreType
<1>1. UNCHANGED <<comment, revision>>
  BY DEF ListComments, ListCommentsAfter, Reads, store
<1>2. ASSUME NEW S \in SUBSET Comments, NEW none \in Nat, none <= revision, Reads(S, none),
             \A c \in CommentsOf(reader.task) : c \in S \/ reader.known[c] = comment[c].version
      PROVE  CursorHolds'
  <2>1. PICK last \in IF S = {} THEN {none} ELSE {comment[c].revision : c \in S} :
          reader' = [reader EXCEPT
            !.listed = TRUE, !.cursor = last,
            !.known = [c \in Comments |-> IF c \in S THEN comment[c].version ELSE @[c]]]
    BY <1>2 DEF Reads
  <2>2. last <= revision
    BY <1>2 DEF CursorHolds
  <2>3. /\ reader'.cursor = last /\ reader'.task = reader.task
        /\ \A c \in Comments : reader'.known[c] = IF c \in S THEN comment[c].version
                                                          ELSE reader.known[c]
    BY <1>0, <2>1 DEF ReaderType
  <2>4. \A c \in CommentsOf(reader.task)' : reader'.known[c] = comment'[c].version
    BY <1>1, <1>2, <2>3 DEF CommentsOf, Live
  <2> QED BY <1>1, <2>2, <2>3, <2>4 DEF CursorHolds, CursorMissesNothing
<1>3. CommentsOf(reader.task) \in SUBSET Comments
  BY DEF CommentsOf
<1>4. CASE ListComments
  BY <1>0, <1>2, <1>3, <1>4 DEF ListComments
<1>5. CASE ListCommentsAfter
  <2> DEFINE S == {c \in CommentsOf(reader.task) : comment[c].revision > reader.cursor}
  <2>1. S \in SUBSET Comments /\ reader.cursor \in Nat /\ reader.cursor <= revision
    BY <1>0, <1>3 DEF ReaderType, CursorHolds
  <2>2. \A c \in CommentsOf(reader.task) : c \in S \/ reader.known[c] = comment[c].version
    BY <1>5 DEF CursorHolds, CursorMissesNothing, ListCommentsAfter
  <2>3. Reads(S, reader.cursor)
    BY <1>5 DEF ListCommentsAfter
  <2> HIDE DEF S
  <2> QED BY <1>2, <2>1, <2>2, <2>3
<1> QED BY <1>4, <1>5

LEMMA CursorStep == Typed /\ CursorHolds /\ [Next]_vars => CursorHolds'
<1> SUFFICES ASSUME Typed, CursorHolds, [Next]_vars PROVE CursorHolds'
  OBVIOUS
<1>0. /\ Typed' /\ revision \in Nat /\ comment \in [Comments -> CommentRow]
  BY TypedStep DEF Typed, StoreType
<1>1. ASSUME UNCHANGED <<comment, reader>>, revision' \in {revision, revision + 1}
      PROVE  CursorHolds'
  BY <1>0, <1>1, CursorStays
<1>2. ASSUME NEW q \in Requests,
             \/ WriteTask(q) \/ LookTransfer(q) \/ WriteTransfer(q)
             \/ CreateTask(q) \/ CreateProject(q) \/ DeleteProject(q)
             \/ ReadOther(q) \/ LookAdd(q) \/ WriteAdd(q) \/ LookRemove(q) \/ WriteRemove(q)
             \/ ListFiles(q) \/ Put(q) \/ Insert(q) \/ DeleteRow(q) \/ DeleteObjects(q) \/ Fails(q)
      PROVE  CursorHolds'
  <2>1. UNCHANGED <<comment, reader>> /\ revision' \in {revision, revision + 1}
    BY <1>2 DEF WriteTask, LookTransfer, WriteTransfer, CreateTask, CreateProject, DeleteProject,
       ReadOther, LookAdd, WriteAdd, LookRemove, WriteRemove, ListFiles, Put, Insert, DeleteRow,
       DeleteObjects, Fails, InsertRow, Writes, store
  <2> QED BY <1>1, <2>1
<1>3. ASSUME NEW q \in Requests, Start(q)
      PROVE  CursorHolds'
  BY <1>1, <1>3, StartChanges DEF store
<1>4. ASSUME NEW q \in Requests, WriteDelete(q)
      PROVE  CursorHolds'
  <2>1. UNCHANGED reader /\ revision' \in {revision, revision + 1}
    BY <1>4 DEF WriteDelete, Writes
  <2>2. \A c \in Comments : comment'[c] \in {comment[c], [comment[c] EXCEPT !.state = "gone"]}
    BY <1>0, <1>4 DEF WriteDelete
  <2>3. \A c \in Comments : /\ comment'[c].revision = comment[c].revision
                            /\ comment'[c].version = comment[c].version
                            /\ comment'[c].state = "live" => comment[c].state = "live"
                            /\ comment'[c].task = comment[c].task
    BY <1>0, <2>2 DEF CommentRow
  <2> QED BY <1>0, <2>1, <2>3, CursorStays
<1>5. ASSUME NEW q \in Requests, CreateComment(q)
      PROVE  CursorHolds'
  <2>1. CASE UNCHANGED <<comment, revision>>
    BY <1>1, <1>5, <2>1 DEF CreateComment
  <2>2. ASSUME NEW c \in Comments, revision' = revision + 1,
               comment' = [comment EXCEPT ![c] = [state |-> "live", task |-> request[q].task,
                                                  version |-> 1, revision |-> revision + 1]]
        PROVE  CursorHolds'
    <3>1. UNCHANGED reader
      BY <1>5 DEF CreateComment
    <3>2. comment'[c].revision = revision + 1 /\ \A d \in Comments : d # c => comment'[d] = comment[d]
      BY <1>0, <2>2
    <3> QED BY <1>0, <2>2, <3>1, <3>2, CursorStays
  <2> QED BY <1>5, <2>1, <2>2 DEF CreateComment, Writes
<1>6. ASSUME NEW q \in Requests, UpdateComment(q)
      PROVE  CursorHolds'
  <2> DEFINE c == request[q].comment
  <2>1. CASE UNCHANGED <<comment, revision>>
    BY <1>1, <1>6, <2>1 DEF UpdateComment
  <2>2. CASE /\ revision' = revision + 1
             /\ comment' = [comment EXCEPT ![c].version = @ + 1, ![c].revision = revision + 1]
    <3>1. UNCHANGED reader /\ c \in Comments
      BY <1>6, AimsOf DEF UpdateComment, At
    <3>2. \A d \in Comments : d # c => comment'[d] = comment[d]
      BY <1>0, <2>2
    <3>3. comment'[c].revision = revision + 1
      BY <1>0, <2>2, <3>1 DEF CommentRow
    <3> QED BY <1>0, <2>2, <3>1, <3>2, <3>3, CursorStays
  <2> QED BY <1>6, <2>1, <2>2 DEF UpdateComment, Writes, NextRevision
<1>7. ASSUME NEW q \in Requests, DeleteComment(q)
      PROVE  CursorHolds'
  <2> DEFINE c == request[q].comment
  <2>1. UNCHANGED reader /\ revision' \in {revision, revision + 1} /\ c \in Comments
    BY <1>7, AimsOf DEF DeleteComment, Writes, At
  <2>2. comment' = comment \/ comment' = [comment EXCEPT ![c].state = "deleted"]
    BY <1>7 DEF DeleteComment
  <2>3. \A d \in Comments : /\ comment'[d].revision = comment[d].revision
                            /\ comment'[d].version = comment[d].version
                            /\ comment'[d].state = "live" => comment[d].state = "live"
                            /\ comment'[d].task = comment[d].task
    BY <1>0, <2>1, <2>2 DEF CommentRow
  <2> QED BY <1>0, <2>1, <2>3, CursorStays
<1>8. CASE UNCHANGED vars
  BY <1>1, <1>8 DEF vars, store
<1> QED BY <1>2, <1>3, <1>4, <1>5, <1>6, <1>7, <1>8, CursorReads DEF Next, Continue

LEMMA CursorInit == Init => CursorHolds
BY StartsAssumption DEF Init, CursorHolds, CursorMissesNothing

\* A client that lists the comments of a card once and then asks by cursor has the
\* present text of every comment up to its cursor.
THEOREM CursorMissesNothingHolds == Spec => []CursorMissesNothing
<1>1. CursorHolds => CursorMissesNothing
  BY DEF CursorHolds
<1> QED BY <1>1, TypedInit, TypedStep, CursorInit, CursorStep, PTL DEF Spec

-----------------------------------------------------------------------------
(* The shared board: rows refer to rows that there are, and each step of a    *)
(* request is one change of the board or none                                 *)

\* Rows refer to rows that there are.
RowsFit ==
  /\ \A t \in Tasks : Exists(t) => task[t].project \in projects
  /\ \A c \in Comments : Live(c) => comment[c].task \in Tasks /\ Exists(comment[c].task)
  /\ \A f \in rows : OwnerExists(owner[f])

LEMMA RowsFitInit == Init => RowsFit
<1> SUFFICES ASSUME Init PROVE RowsFit
  OBVIOUS
<1>1. PICK start \in Starts :
        /\ projects = start.projects /\ task = start.task
        /\ comment = start.comment /\ owner = start.owner
        /\ rows = {f \in Files : start.owner[f] # NoTask}
  BY DEF Init
<1>2. /\ \A t \in Tasks : Stored(start.task[t]) => start.task[t].project \in start.projects
      /\ \A c \in Comments : start.comment[c].state = "live" =>
           start.comment[c].task \in Tasks /\ Stored(start.task[start.comment[c].task])
      /\ \A f \in Files :
           \/ start.owner[f] = NoTask
           \/ start.owner[f] \in Tasks /\ Stored(start.task[start.owner[f]])
           \/ start.owner[f] \in Comments /\ start.comment[start.owner[f]].state = "live"
  BY StartsAssumption
<1> QED BY <1>1, <1>2 DEF RowsFit, Exists, Live, OwnerExists

LEMMA ShownIs ==
  /\ \A c \in Comments : /\ ShownComments[c].state = comment[c].state
                         /\ ShownComments[c].task = comment[c].task
                         /\ ShownComments[c].version = comment[c].version
                         /\ Shared!Live(c) <=> Live(c)
  /\ \A t : Shared!Present(t) <=> Exists(t)
  /\ \A t : Shared!RelationsOf(t) = RelationsOf(t) /\ Shared!CommentsOf(t) = CommentsOf(t)
  /\ DOMAIN ShownFiles = rows /\ \A f \in rows : ShownFiles[f] = owner[f]
<1>1. \A c \in Comments : /\ ShownComments[c].state = comment[c].state
                          /\ ShownComments[c].task = comment[c].task
                          /\ ShownComments[c].version = comment[c].version
  BY DEF ShownComments
<1>2. \A c \in Comments : Shared!Live(c) <=> Live(c)
  BY <1>1 DEF Shared!Live, Live
<1>3. \A t : Shared!Present(t) <=> Exists(t)
  BY DEF Shared!Present, Exists, Stored
<1>4. \A t : Shared!RelationsOf(t) = RelationsOf(t)
  BY DEF Shared!RelationsOf, RelationsOf
<1>5. \A t : Shared!CommentsOf(t) = CommentsOf(t)
  BY <1>1, <1>2 DEF Shared!CommentsOf, CommentsOf
<1>6. DOMAIN ShownFiles = rows /\ \A f \in rows : ShownFiles[f] = owner[f]
  BY DEF ShownFiles
<1> QED BY <1>1, <1>2, <1>3, <1>4, <1>5, <1>6

LEMMA FitsWhenSound == Typed /\ BoardHolds /\ RowsFit => Shared!Fits
<1> SUFFICES ASSUME Typed, BoardHolds, RowsFit PROVE Shared!Fits
  OBVIOUS
<1>1. \A t \in Tasks : Shared!Present(t) => task[t].project \in projects
  BY ShownIs DEF RowsFit
<1>2. \A r \in rel : /\ Shared!Present(r.source) /\ Shared!Present(r.target)
                     /\ task[r.source].project = task[r.target].project
  BY ShownIs DEF BoardHolds, Related, Exists
<1>3. \A c \in Comments : Shared!Live(c) =>
        ShownComments[c].task \in Tasks /\ Shared!Present(ShownComments[c].task)
  BY ShownIs DEF RowsFit
<1>4. \A f \in DOMAIN ShownFiles : Shared!CanHaveFiles(ShownFiles[f])
  BY ShownIs DEF RowsFit, OwnerExists, Shared!CanHaveFiles
<1>5. \A s, t \in Tasks : Shared!IsParent(s, t) <=> s \in Parents(rel, t)
  <2> SUFFICES ASSUME NEW s \in Tasks, NEW t \in Tasks
               PROVE  Shared!IsParent(s, t) <=> s \in Parents(rel, t)
    OBVIOUS
  <2>1. rel \subseteq RelationRow
    BY DEF Typed, BoardType
  <2>2. ASSUME NEW r \in rel, r.type = "parent", r.source = s, r.target = t
        PROVE  r = [type |-> "parent", source |-> s, target |-> t]
    BY <2>1, <2>2 DEF RelationRow
  <2>3. Shared!IsParent(s, t) => s \in Parents(rel, t)
    BY <2>2 DEF Shared!IsParent, Parents
  <2>4. s \in Parents(rel, t) => Shared!IsParent(s, t)
    BY DEF Shared!IsParent, Parents
  <2> QED BY <2>3, <2>4
<1>6. \A t \in Tasks : Parents(rel, t) \subseteq Tasks
  BY DEF Parents
<1>7. \A t, u, v \in Tasks : Shared!IsParent(u, t) /\ Shared!IsParent(v, t) => u = v
  BY <1>5 DEF BoardHolds, Forest
<1>8. \A S \in SUBSET Tasks : S # {} => \E t \in S : \A u \in S : ~Shared!IsParent(u, t)
  <2> SUFFICES ASSUME NEW S \in SUBSET Tasks, S # {}
               PROVE  \E t \in S : \A u \in S : ~Shared!IsParent(u, t)
    OBVIOUS
  <2>1. PICK t \in S : Parents(rel, t) \cap S = {}
    BY DEF BoardHolds, Forest
  <2> QED BY <1>5, <2>1
<1> QED BY <1>1, <1>2, <1>3, <1>4, <1>7, <1>8 DEF Shared!Fits

\* A card whose change is counted
CountedRow(t, state, p) == [state |-> state, project |-> p, version |-> task[t].version + 1]
LEMMA TouchedIs ==
  ASSUME BoardType, NEW t \in Tasks, NEW state, NEW p
  PROVE  /\ Touched(t) = [task EXCEPT ![t] = CountedRow(t, task[t].state, task[t].project)]
         /\ [Touched(t) EXCEPT ![t].state = state]
              = [task EXCEPT ![t] = CountedRow(t, state, task[t].project)]
         /\ [Touched(t) EXCEPT ![t].project = p] = [task EXCEPT ![t] = CountedRow(t, task[t].state, p)]
         /\ Touched(t)[t].state = task[t].state
<1>1. task \in [Tasks -> TaskRow] /\ task[t] \in TaskRow
  BY DEF BoardType
<1>2. [task[t] EXCEPT !.version = task[t].version + 1] = CountedRow(t, task[t].state, task[t].project)
  BY <1>1 DEF TaskRow, CountedRow
<1>3. Touched(t) = [task EXCEPT ![t] = CountedRow(t, task[t].state, task[t].project)]
  BY <1>1, <1>2 DEF Touched
<1>4. Touched(t)[t] = CountedRow(t, task[t].state, task[t].project)
  BY <1>1, <1>3
<1>5. [Touched(t)[t] EXCEPT !.state = state] = CountedRow(t, state, task[t].project)
  BY <1>4 DEF CountedRow
<1>6. [Touched(t)[t] EXCEPT !.project = p] = CountedRow(t, task[t].state, p)
  BY <1>4 DEF CountedRow
<1>7. \A row : [Touched(t) EXCEPT ![t] = row] = [task EXCEPT ![t] = row]
  BY <1>1, <1>3
<1>8. Touched(t)[t].state = task[t].state
  BY <1>4 DEF CountedRow
<1>9. [Touched(t) EXCEPT ![t].state = state] = [task EXCEPT ![t] = CountedRow(t, state, task[t].project)]
  BY <1>5, <1>7
<1>10. [Touched(t) EXCEPT ![t].project = p] = [task EXCEPT ![t] = CountedRow(t, task[t].state, p)]
  BY <1>6, <1>7
<1> QED BY <1>3, <1>8, <1>9, <1>10

\* The card of a change that is counted
LEMMA CountedHere ==
  ASSUME BoardType, NEW t \in Tasks, NEW state, NEW p, Exists(t),
         task' = [task EXCEPT ![t] = CountedRow(t, state, p)]
  PROVE  /\ Shared!Counted(t, state, p)
         /\ task'[t].state = state /\ task'[t].project = p
         /\ \A u \in Tasks : u # t => task'[u] = task[u]
<1>1. task \in [Tasks -> TaskRow]
  BY DEF BoardType
<1>2. Shared!Counted(t, state, p)
  BY ShownIs DEF Shared!Counted, CountedRow
<1>3. task'[t] = CountedRow(t, state, p) /\ \A u \in Tasks : u # t => task'[u] = task[u]
  BY <1>1
<1> QED BY <1>2, <1>3 DEF CountedRow

\* What is seen of the board does not change.
SeenSame == UNCHANGED <<projects, task, rel, ShownComments, ShownFiles>>

LEMMA ShownSame ==
  /\ UNCHANGED comment => UNCHANGED ShownComments
  /\ UNCHANGED rows /\ (\A f \in rows : owner'[f] = owner[f]) => UNCHANGED ShownFiles
<1>1. UNCHANGED comment => UNCHANGED ShownComments
  BY DEF ShownComments
<1>2. ASSUME UNCHANGED rows, \A f \in rows : owner'[f] = owner[f]
      PROVE  UNCHANGED ShownFiles
  BY <1>2 DEF ShownFiles
<1> QED BY <1>1, <1>2

\* No card goes, and the cards are in projects that there are.
LEMMA CardsFit ==
  ASSUME Typed, RowsFit, UNCHANGED <<comment, owner, rows>>,
         \A u \in Tasks : Exists(u) => Exists(u)',
         \A u \in Tasks : Exists(u)' => task'[u].project \in projects'
  PROVE  RowsFit'
BY DEF RowsFit, Live, OwnerExists, Exists, Stored

\* A change of a card that is counted, and leaves it in a project that there is
LEMMA CountedFits ==
  ASSUME Typed, RowsFit, UNCHANGED <<store, projects>>, NEW t \in Tasks,
         NEW state \in {"open", "archived"}, NEW p \in projects, Exists(t),
         task' = [task EXCEPT ![t] = CountedRow(t, state, p)]
  PROVE  /\ Shared!Counted(t, state, p) /\ RowsFit'
         /\ UNCHANGED <<projects, ShownComments, ShownFiles>>
<1>1. BoardType
  BY DEF Typed
<1>2. /\ Shared!Counted(t, state, p)
      /\ task'[t].state = state /\ task'[t].project = p
      /\ \A u \in Tasks : u # t => task'[u] = task[u]
  BY <1>1, CountedHere
<1>3. \A u \in Tasks : (Exists(u) => Exists(u)') /\ (Exists(u)' => task'[u].project \in projects')
  BY <1>2 DEF RowsFit, Exists, Stored
<1>4. RowsFit'
  BY <1>3, CardsFit DEF store
<1> QED BY <1>2, <1>4, ShownSame DEF store

LEMMA CardIs ==
  ASSUME Typed, RowsFit, NEW t \in Tasks, Exists(t)
  PROVE  task[t].state \in {"open", "archived"} /\ task[t].project \in projects
BY DEF RowsFit, Exists, Stored

LEMMA WriteTaskSeen ==
  ASSUME Typed, RowsFit, NEW q \in Requests, WriteTask(q)
  PROVE  (Shared!Changes \/ SeenSame) /\ RowsFit'
<1> DEFINE t == request[q].task
           state == NewState(request[q].kind, Touched(t)[t].state)
<1>1. t \in Tasks /\ UNCHANGED <<projects, rel, store>> /\ BoardType
  BY AimsOf DEF WriteTask, At, TaskKinds, Typed
<1>2. CASE UNCHANGED task
  <2>1. RowsFit'
    BY <1>1, <1>2 DEF RowsFit, store, Exists, Live, OwnerExists
  <2> QED BY <1>1, <1>2, <2>1, ShownSame DEF SeenSame, store
<1>3. CASE Fresh(q) /\ task' = [Touched(t) EXCEPT ![t].state = state]
  <2>1. Exists(t)
    BY <1>3 DEF Fresh
  <2>2. task[t].state \in {"open", "archived"} /\ task[t].project \in projects
    BY <1>1, <2>1, CardIs
  <2>3. state \in {"open", "archived"}
    BY <1>1, <2>2, TouchedIs DEF NewState
  <2>4. task' = [task EXCEPT ![t] = CountedRow(t, state, task[t].project)]
    BY <1>1, <1>3, TouchedIs
  <2>5. /\ Shared!Counted(t, state, task[t].project) /\ RowsFit'
        /\ UNCHANGED <<projects, ShownComments, ShownFiles>>
    BY <1>1, <2>1, <2>2, <2>3, <2>4, CountedFits
  <2>6. Shared!ChangeCard(t)
    BY <1>1, <2>3, <2>5 DEF Shared!ChangeCard
  <2> QED BY <1>1, <2>5, <2>6 DEF Shared!Changes, Shared!CardChanges
<1> QED BY <1>2, <1>3 DEF WriteTask

LEMMA WriteTransferSeen ==
  ASSUME Typed, RowsFit, NEW q \in Requests, WriteTransfer(q)
  PROVE  (Shared!Changes \/ SeenSame) /\ RowsFit'
<1> DEFINE t == request[q].task
           p == request[q].project
<1>1. t \in Tasks /\ UNCHANGED <<projects, rel, store>> /\ BoardType
  BY AimsOf DEF WriteTransfer, At, TaskKinds, Typed
<1>2. CASE UNCHANGED task
  <2>1. RowsFit'
    BY <1>1, <1>2 DEF RowsFit, store, Exists, Live, OwnerExists
  <2> QED BY <1>1, <1>2, <2>1, ShownSame DEF SeenSame, store
<1>3. CASE Fresh(q) /\ RelationGuard(t) /\ p \in projects /\ task' = [Touched(t) EXCEPT ![t].project = p]
  <2>1. Exists(t)
    BY <1>3 DEF Fresh
  <2>2. task[t].state \in {"open", "archived"}
    BY <1>1, <2>1, CardIs
  <2>3. task' = [task EXCEPT ![t] = CountedRow(t, task[t].state, p)]
    BY <1>1, <1>3, TouchedIs
  <2>4. /\ Shared!Counted(t, task[t].state, p) /\ RowsFit'
        /\ UNCHANGED <<projects, ShownComments, ShownFiles>>
    BY <1>1, <1>3, <2>1, <2>2, <2>3, CountedFits
  <2>5. Shared!RelationsOf(t) = {}
    BY <1>3, ShownIs DEF RelationGuard
  <2>6. Shared!ChangeCard(t)
    BY <1>1, <1>3, <2>4, <2>5 DEF Shared!ChangeCard
  <2> QED BY <1>1, <2>4, <2>6 DEF Shared!Changes, Shared!CardChanges
<1> QED BY <1>2, <1>3 DEF WriteTransfer

LEMMA ProjectsSeen ==
  ASSUME Typed, RowsFit, NEW q \in Requests, CreateTask(q) \/ CreateProject(q) \/ DeleteProject(q)
  PROVE  (Shared!Changes \/ SeenSame) /\ RowsFit'
<1> DEFINE p == request[q].project
<1>1. UNCHANGED <<rel, store>> /\ BoardType
  BY DEF CreateTask, CreateProject, DeleteProject, Typed
<1>2. UNCHANGED <<ShownComments, ShownFiles>>
  BY <1>1, ShownSame DEF store
<1>3. CASE CreateTask(q)
  <2>1. CASE UNCHANGED task
    <3>1. UNCHANGED projects
      BY <1>3 DEF CreateTask
    <3>2. RowsFit'
      BY <1>1, <2>1, <3>1 DEF RowsFit, store, Exists, Live, OwnerExists
    <3> QED BY <1>1, <1>2, <2>1, <3>1, <3>2 DEF SeenSame
  <2>2. ASSUME NEW t \in Tasks, task[t].state = "none", p \in projects,
               task' = [task EXCEPT ![t] = [state |-> "open", project |-> p, version |-> 1]]
        PROVE  (Shared!Changes \/ SeenSame) /\ RowsFit'
    <3>1. UNCHANGED projects
      BY <1>3 DEF CreateTask
    <3>2. task'[t].project = p /\ \A u \in Tasks : u # t => task'[u] = task[u]
      BY <1>1, <2>2 DEF BoardType
    <3>3. \A u \in Tasks : (Exists(u) => Exists(u)') /\ (Exists(u)' => task'[u].project \in projects')
      BY <2>2, <3>1, <3>2 DEF RowsFit, Exists, Stored
    <3>4. RowsFit'
      BY <1>1, <3>3, CardsFit DEF store
    <3>5. Shared!MakeCard(t, p)
      BY <1>1, <1>2, <2>2, <3>1 DEF Shared!MakeCard
    <3> QED BY <2>2, <3>4, <3>5 DEF Shared!Changes, Shared!CardChanges
  <2> QED BY <1>3, <2>1, <2>2 DEF CreateTask
<1>4. CASE CreateProject(q)
  <2>1. UNCHANGED task /\ projects' = projects \cup {p}
    BY <1>4 DEF CreateProject
  <2>2. \A u \in Tasks : (Exists(u) => Exists(u)') /\ (Exists(u)' => task'[u].project \in projects')
    BY <2>1 DEF RowsFit, Exists, Stored
  <2>3. RowsFit'
    BY <1>1, <2>2, CardsFit DEF store
  <2>4. Shared!OpenProject(p) /\ p \in projects'
    BY <1>1, <1>2, <2>1 DEF Shared!OpenProject
  <2> QED BY <2>3, <2>4 DEF Shared!Changes
<1>5. CASE DeleteProject(q)
  <2>1. UNCHANGED task
    BY <1>5 DEF DeleteProject
  <2>2. CASE UNCHANGED projects
    <3>1. RowsFit'
      BY <1>1, <2>1, <2>2 DEF RowsFit, store, Exists, Live, OwnerExists
    <3> QED BY <1>1, <1>2, <2>1, <2>2, <3>1 DEF SeenSame
  <2>3. CASE InProject(p) = {} /\ projects' = projects \ {p}
    <3>1. \A u \in Tasks : Exists(u) => task[u].project # p
      BY <2>3 DEF InProject
    <3>2. \A u \in Tasks : (Exists(u) => Exists(u)') /\ (Exists(u)' => task'[u].project \in projects')
      BY <2>1, <2>3, <3>1 DEF RowsFit, Exists, Stored
    <3>3. RowsFit'
      BY <1>1, <3>2, CardsFit DEF store
    <3>4. Shared!CloseProject(p)
      BY <1>1, <1>2, <2>1, <2>3, <3>1, ShownIs DEF Shared!CloseProject
    <3>5. p \in projects \/ UNCHANGED projects
      BY <2>3
    <3>6. CASE UNCHANGED projects
      BY <1>1, <1>2, <2>1, <3>3, <3>6 DEF SeenSame
    <3> QED BY <3>3, <3>4, <3>5, <3>6 DEF Shared!Changes
  <2> QED BY <1>5, <2>2, <2>3 DEF DeleteProject
<1> QED BY <1>3, <1>4, <1>5

LEMMA RowIsParent ==
  ASSUME Typed, NEW q \in Requests, request[q].kind = "add"
  PROVE  /\ request[q].type = "parent" <=> Row(q).type = "parent"
         /\ request[q].type = "parent" => Row(q).target = request[q].task
<1>1. /\ request[q].type \in {"parent", "blocks", "blocked_by", "related"}
      /\ request[q].task \in Tasks /\ request[q].other \in Tasks
  BY RowsAssumption DEF Typed, AimedRow, Aimed, TaskKinds
<1>2. request[q].type = "parent" => Row(q).type = "parent" /\ Row(q).target = request[q].task
  BY DEF Row, Endpoints
<1>3. \A type \in {"blocks", "blocked_by", "related"}, t, u \in Tasks : Endpoints(type, t, u).type # "parent"
  BY DEF Endpoints
<1> QED BY <1>1, <1>2, <1>3 DEF Row

-----------------------------------------------------------------------------
(* What requests keep of what they read *)

\* Only a parent is replaced, and a file that was put is on what it was put for.
OwnerIn(r) == IF r.comment = NoComment THEN r.task ELSE r.comment
ReadRight(r) ==
  /\ r.replaces => r.type = "parent"
  /\ r.kind = "upload" /\ r.step = "insert" => owner[r.file] = OwnerIn(r)
RequestsReadRight == \A q \in Requests : ReadRight(request[q])

\* The request becomes r; files that have an owner keep it.
LEMMA ReadRightKept ==
  ASSUME Typed, FilesHold, RequestsReadRight, NEW q \in Requests, NEW r,
         request' = [request EXCEPT ![q] = r],
         r.replaces => r.type = "parent",
         r.kind = "upload" /\ r.step = "insert" => owner'[r.file] = OwnerIn(r),
         \A f \in Files : owner[f] # NoTask => owner'[f] = owner[f]
  PROVE  RequestsReadRight'
<1> SUFFICES ASSUME NEW p \in Requests
             PROVE  /\ request'[p].replaces => request'[p].type = "parent"
                    /\ request'[p].kind = "upload" /\ request'[p].step = "insert"
                         => owner'[request'[p].file] = OwnerIn(request'[p])
  BY DEF RequestsReadRight, ReadRight, OwnerIn
<1>1. request'[q] = r /\ \A o \in Requests : o # q => request'[o] = request[o]
  BY DEF Typed
<1>2. CASE p = q
  BY <1>1, <1>2
<1>3. CASE p # q
  <2>1. request'[p] = request[p] /\ ReadRight(request[p])
    BY <1>1, <1>3 DEF RequestsReadRight
  <2>2. ASSUME request[p].kind = "upload", request[p].step = "insert"
        PROVE  owner'[request[p].file] = owner[request[p].file]
    <3>1. request[p].file \in Files
      BY <2>2, AimsOf DEF At
    <3>2. owner[request[p].file] # NoTask
      BY <2>2, <3>1 DEF FilesHold, Brings
    <3> QED BY <3>1, <3>2
  <2> QED BY <2>1, <2>2 DEF ReadRight
<1> QED BY <1>2, <1>3

LEMMA ReadRightBegins ==
  ASSUME Typed, FilesHold, RequestsReadRight, NEW q \in Requests, NEW r \in RequestRow, NEW kind,
         Begins(q, kind, r), ~r.replaces, r.step # "insert"
  PROVE  RequestsReadRight'
<1> DEFINE s == [r EXCEPT !.kind = kind]
<1>1. request' = [request EXCEPT ![q] = s] /\ UNCHANGED owner
  BY DEF Begins, store
<1>2. ~s.replaces /\ s.step # "insert"
  BY DEF RequestRow
<1> HIDE DEF s
<1> QED BY <1>1, <1>2, ReadRightKept

LEMMA ReadRightStart ==
  ASSUME Typed, FilesHold, RequestsReadRight, NEW q \in Requests, Start(q)
  PROVE  RequestsReadRight'
<1>1. \A t \in Tasks : task[t].version \in Nat /\ task[t].project \in Projects \cup {NoProject}
  BY DEF Typed, BoardType, TaskRow
<1>2. \A c \in Comments : comment[c].version \in Nat
  BY DEF Typed, StoreType, CommentRow
<1>3. NoRequest \in RequestRow /\ ~NoRequest.replaces
  BY DEF NoRequest, RequestRow, Kinds
<1>4. ASSUME NEW t \in Tasks, NEW kind, NEW p \in Projects \cup {NoProject}, TaskRequest(q, kind, t, p)
      PROVE  RequestsReadRight'
  <2> DEFINE r == [NoRequest EXCEPT !.step = IF kind = "transfer" THEN "look" ELSE "write",
                                    !.task = t, !.project = p, !.version = task[t].version]
  <2>1. r \in RequestRow /\ ~r.replaces /\ r.step # "insert"
    BY <1>1 DEF NoRequest, RequestRow, Kinds
  <2>2. Begins(q, kind, r)
    BY <1>4 DEF TaskRequest
  <2> HIDE DEF r
  <2> QED BY <2>1, <2>2, ReadRightBegins
<1>5. ASSUME NEW t \in Tasks, NEW kind, NEW type \in Types, NEW u \in Tasks,
             RelationRequest(q, kind, type, t, u)
      PROVE  RequestsReadRight'
  <2> DEFINE r == [NoRequest EXCEPT !.step = "other", !.task = t, !.other = u, !.type = type,
                                    !.version = task[t].version, !.project = task[t].project]
  <2>1. r \in RequestRow /\ ~r.replaces /\ r.step # "insert"
    BY <1>1 DEF NoRequest, RequestRow, Kinds
  <2>2. Begins(q, kind, r)
    BY <1>5 DEF RelationRequest
  <2> HIDE DEF r
  <2> QED BY <2>1, <2>2, ReadRightBegins
<1>6. ASSUME NEW t \in Tasks, CommentOn(q, t)
      PROVE  RequestsReadRight'
  <2> DEFINE r == [NoRequest EXCEPT !.step = "write", !.task = t]
  <2>1. r \in RequestRow /\ ~r.replaces /\ r.step # "insert"
    BY DEF NoRequest, RequestRow, Kinds
  <2>2. Begins(q, "createComment", r)
    BY <1>6 DEF CommentOn
  <2> HIDE DEF r
  <2> QED BY <2>1, <2>2, ReadRightBegins
<1>7. ASSUME NEW p \in Projects, NEW kind, ProjectRequest(q, kind, p)
      PROVE  RequestsReadRight'
  <2> DEFINE r == [NoRequest EXCEPT !.step = "write", !.project = p]
  <2>1. r \in RequestRow /\ ~r.replaces /\ r.step # "insert"
    BY DEF NoRequest, RequestRow, Kinds
  <2>2. Begins(q, kind, r)
    BY <1>7 DEF ProjectRequest
  <2> HIDE DEF r
  <2> QED BY <2>1, <2>2, ReadRightBegins
<1>8. ASSUME NEW c \in Comments, NEW kind, CommentRequest(q, kind, c)
      PROVE  RequestsReadRight'
  <2> DEFINE r == [NoRequest EXCEPT !.step = IF kind = "deleteComment" THEN "look" ELSE "write",
                                    !.comment = c, !.version = comment[c].version]
  <2>1. r \in RequestRow /\ ~r.replaces /\ r.step # "insert"
    BY <1>2 DEF NoRequest, RequestRow, Kinds
  <2>2. Begins(q, kind, r)
    BY <1>8 DEF CommentRequest
  <2> HIDE DEF r
  <2> QED BY <2>1, <2>2, ReadRightBegins
<1>9. ASSUME NEW o \in Tasks \cup Comments, Upload(q, o)
      PROVE  RequestsReadRight'
  <2> DEFINE r == [NoRequest EXCEPT !.step = "put",
                     !.task = IF o \in Tasks THEN o ELSE NoTask,
                     !.comment = IF o \in Comments THEN o ELSE NoComment]
  <2>1. r \in RequestRow /\ ~r.replaces /\ r.step # "insert"
    BY DEF NoRequest, RequestRow, Kinds
  <2>2. Begins(q, "upload", r)
    BY <1>9 DEF Upload
  <2> HIDE DEF r
  <2> QED BY <2>1, <2>2, ReadRightBegins
<1>10. ASSUME NEW f \in Files, FileRequest(q, f)
       PROVE  RequestsReadRight'
  <2> DEFINE r == [NoRequest EXCEPT !.step = "write", !.file = f]
  <2>1. r \in RequestRow /\ ~r.replaces /\ r.step # "insert"
    BY DEF NoRequest, RequestRow, Kinds
  <2>2. Begins(q, "deleteFile", r)
    BY <1>10 DEF FileRequest
  <2> HIDE DEF r
  <2> QED BY <2>1, <2>2, ReadRightBegins
<1> QED BY <1>4, <1>5, <1>6, <1>7, <1>8, <1>9, <1>10 DEF Start

LEMMA ReadRightContinue ==
  ASSUME Typed, FilesHold, RequestsReadRight, NEW q \in Requests, Continue(q)
  PROVE  RequestsReadRight'
<1>1. request[q] \in RequestRow /\ ReadRight(request[q]) /\ request \in [Requests -> AimedRow]
  BY AimsOf DEF RequestsReadRight, Typed
<1>2. ASSUME NEW r \in RequestRow, request' = [request EXCEPT ![q] = r], UNCHANGED owner,
             r.step # "insert", r.replaces => r.type = "parent"
      PROVE  RequestsReadRight'
  BY <1>2, ReadRightKept
<1>3. ASSUME Over(q), UNCHANGED owner
      PROVE  RequestsReadRight'
  <2> DEFINE r == [NoRequest EXCEPT !.step = "done"]
  <2>1. r \in RequestRow /\ ~r.replaces /\ r.step # "insert"
    BY DEF NoRequest, RequestRow, Kinds
  <2>2. request' = [request EXCEPT ![q] = r]
    BY <1>3 DEF Over
  <2> HIDE DEF r
  <2> QED BY <1>2, <1>3, <2>1, <2>2
<1>4. ASSUME NEW s \in {"look", "write", "objects"}, Goes(q, s), UNCHANGED owner
      PROVE  RequestsReadRight'
  <2> DEFINE r == [request[q] EXCEPT !.step = s]
  <2>1. /\ r \in RequestRow /\ r.step = s /\ r.replaces = request[q].replaces
        /\ r.type = request[q].type
    BY <1>1 DEF RequestRow
  <2>2. request' = [request EXCEPT ![q] = r]
    BY <1>1, <1>4 DEF Goes
  <2> HIDE DEF r
  <2> QED BY <1>1, <1>2, <1>4, <2>1, <2>2 DEF ReadRight
<1>5. ASSUME NEW s \in {"look", "write", "objects"}, NEW F \in SUBSET Files, UNCHANGED owner,
             request' = [request EXCEPT ![q].step = s, ![q].files = F]
      PROVE  RequestsReadRight'
  <2> DEFINE r == [request[q] EXCEPT !.step = s, !.files = F]
  <2>1. /\ r \in RequestRow /\ r.step = s /\ r.replaces = request[q].replaces
        /\ r.type = request[q].type
    BY <1>1 DEF RequestRow
  <2>2. request' = [request EXCEPT ![q] = r]
    BY <1>1, <1>5
  <2> HIDE DEF r
  <2> QED BY <1>1, <1>2, <1>5, <2>1, <2>2 DEF ReadRight
<1>6. CASE LookAdd(q)
  <2> DEFINE b == Row(q).type = "parent" /\ Parents(rel, Row(q).target) # {}
             r == [request[q] EXCEPT !.step = "write", !.replaces = b]
  <2>1. UNCHANGED owner /\ request[q].kind = "add"
    BY <1>6 DEF LookAdd, store, At
  <2>2. r \in RequestRow /\ r.step = "write" /\ r.replaces = b /\ r.type = request[q].type
    BY <1>1 DEF RequestRow
  <2>3. b => request[q].type = "parent"
    BY <2>1, RowIsParent
  <2>4. Over(q) \/ request' = [request EXCEPT ![q] = r]
    BY <1>1, <1>6 DEF LookAdd
  <2> HIDE DEF r
  <2> QED BY <1>2, <1>3, <2>1, <2>2, <2>3, <2>4
<1>7. CASE Put(q)
  <2>1. PICK f \in Files : /\ owner[f] = NoTask
                           /\ owner' = [owner EXCEPT ![f] = UploadOwner(q)]
                           /\ request' = [request EXCEPT ![q].step = "insert", ![q].file = f]
    BY <1>7 DEF Put
  <2> DEFINE r == [request[q] EXCEPT !.step = "insert", !.file = f]
  <2>2. /\ r.replaces = request[q].replaces /\ r.type = request[q].type
        /\ r.file = f /\ r.comment = request[q].comment /\ r.task = request[q].task
    BY <1>1 DEF RequestRow
  <2>3. request' = [request EXCEPT ![q] = r]
    BY <1>1, <2>1
  <2> HIDE DEF r
  <2>4. owner'[f] = UploadOwner(q) /\ \A g \in Files : owner[g] # NoTask => owner'[g] = owner[g]
    BY <2>1 DEF Typed, StoreType
  <2>5. owner'[r.file] = OwnerIn(r)
    BY <2>2, <2>4 DEF UploadOwner, OwnerIn
  <2> QED BY <1>1, <2>2, <2>3, <2>4, <2>5, ReadRightKept DEF ReadRight
<1>8. CASE \/ WriteTask(q) \/ LookTransfer(q) \/ WriteTransfer(q)
           \/ CreateTask(q) \/ CreateProject(q) \/ DeleteProject(q)
           \/ ReadOther(q) \/ WriteAdd(q) \/ LookRemove(q) \/ WriteRemove(q)
           \/ CreateComment(q) \/ UpdateComment(q) \/ DeleteObjects(q) \/ Fails(q)
  <2>1. UNCHANGED owner
    BY <1>8 DEF WriteTask, LookTransfer, WriteTransfer, CreateTask, CreateProject, DeleteProject,
         ReadOther, WriteAdd, LookRemove, WriteRemove, CreateComment, UpdateComment, DeleteObjects,
         Fails, store
  <2>2. Over(q) \/ Goes(q, "look") \/ Goes(q, "write")
    BY <1>8 DEF WriteTask, LookTransfer, WriteTransfer, CreateTask, CreateProject, DeleteProject,
         ReadOther, WriteAdd, LookRemove, WriteRemove, CreateComment, UpdateComment, DeleteObjects,
         Fails
  <2> QED BY <1>3, <1>4, <2>1, <2>2
<1>9. CASE WriteDelete(q) \/ ListFiles(q) \/ DeleteComment(q) \/ Insert(q) \/ DeleteRow(q)
  <2>1. UNCHANGED owner
    BY <1>9 DEF WriteDelete, ListFiles, DeleteComment, Insert, DeleteRow, store
  <2>2. rows \subseteq Files
    BY DEF Typed, StoreType
  <2>3. \A o : FilesOf(o) \subseteq Files /\ AllFiles(o) \subseteq Files
    BY <2>2 DEF FilesOf, AllFiles
  <2>4. At(q, "insert", {"upload"}) \/ request[q].kind = "deleteFile" => {request[q].file} \subseteq Files
    BY AimsOf
  <2>5. \/ Over(q) \/ Goes(q, "objects")
        \/ \E s \in {"look", "write", "objects"}, F \in SUBSET Files :
             request' = [request EXCEPT ![q].step = s, ![q].files = F]
    BY <1>9, <2>3, <2>4 DEF WriteDelete, ListFiles, DeleteComment, Insert, DeleteRow, At
  <2> QED BY <1>3, <1>4, <1>5, <2>1, <2>5
<1> QED BY <1>6, <1>7, <1>8, <1>9 DEF Continue

LEMMA ReadRightStep ==
  Typed /\ FilesHold /\ RequestsReadRight /\ [Next]_vars => RequestsReadRight'
<1> SUFFICES ASSUME Typed, FilesHold, RequestsReadRight, [Next]_vars PROVE RequestsReadRight'
  OBVIOUS
<1>1. CASE UNCHANGED <<request, owner>>
  BY <1>1 DEF RequestsReadRight, ReadRight, OwnerIn
<1>2. ListComments \/ ListCommentsAfter \/ UNCHANGED vars => UNCHANGED <<request, owner>>
  BY DEF ListComments, ListCommentsAfter, Reads, vars, store
<1> QED BY <1>1, <1>2, ReadRightStart, ReadRightContinue DEF Next

LEMMA ReadRightInit == Init => RequestsReadRight
<1>1. NoRequest.replaces = FALSE /\ NoRequest.step = "new"
  BY DEF NoRequest
<1>2. [NoRequest EXCEPT !.step = "done"].replaces = FALSE /\ [NoRequest EXCEPT !.step = "done"].step = "done"
  BY DEF NoRequest
<1>3. Init => \A q \in Requests : request[q] \in {NoRequest, [NoRequest EXCEPT !.step = "done"]}
  BY DEF Init
<1> QED BY <1>1, <1>2, <1>3 DEF RequestsReadRight, ReadRight

LEMMA KeptIs ==
  ASSUME Typed, RequestsReadRight, NEW q \in Requests, request[q].kind = "add",
         ~Refuses(Kept(q), Row(q))
  PROVE  Kept(q) = {s \in rel : ~(Row(q).type = "parent" /\ s.type = "parent" /\ s.target = Row(q).target)}
<1>1. rel \subseteq RelationRow
  BY DEF Typed, BoardType
<1>2. CASE request[q].replaces
  BY <1>2, RowIsParent DEF Kept, RequestsReadRight, ReadRight
<1>3. CASE ~request[q].replaces /\ Row(q).type = "parent"
  <2>1. Kept(q) = rel /\ Parents(rel, Row(q).target) = {}
    BY <1>3 DEF Kept, Refuses
  <2>2. ASSUME NEW s \in rel, s.type = "parent", s.target = Row(q).target PROVE FALSE
    <3>1. s.source \in Tasks /\ s = [type |-> "parent", source |-> s.source, target |-> Row(q).target]
      BY <1>1, <2>2 DEF RelationRow
    <3> QED BY <2>1, <3>1 DEF Parents
  <2> QED BY <2>1, <2>2
<1>4. CASE ~request[q].replaces /\ Row(q).type # "parent"
  BY <1>4 DEF Kept
<1> QED BY <1>2, <1>3, <1>4

LEMMA EndsOfRow ==
  ASSUME Typed, NEW q \in Requests, request[q].kind \in {"add", "remove"}
  PROVE  /\ request[q].task \in Tasks /\ request[q].task \in {Row(q).source, Row(q).target}
         /\ Row(q) \in Shared!Relations
<1>1. Row(q) \in RelationRow
  BY AimsOf
<1>2. /\ request[q].task \in Tasks /\ request[q].other \in Tasks
      /\ request[q].type \in {"parent", "blocks", "blocked_by", "related"}
  BY RowsAssumption DEF Typed, AimedRow, Aimed, TaskKinds
<1>3. request[q].task \in {Row(q).source, Row(q).target}
  BY <1>2 DEF Row, Endpoints
<1> QED BY <1>1, <1>2, <1>3 DEF Shared!Relations, RelationRow

LEMMA WriteAddSeen ==
  ASSUME Typed, RowsFit, RequestsReadRight, NEW q \in Requests, WriteAdd(q)
  PROVE  (Shared!Changes \/ SeenSame) /\ RowsFit'
<1> DEFINE t == request[q].task
           r == Row(q)
<1>1. /\ t \in Tasks /\ t \in {r.source, r.target} /\ r \in Shared!Relations
      /\ UNCHANGED <<projects, store>> /\ BoardType
  BY EndsOfRow DEF WriteAdd, At, Typed
<1>2. CASE UNCHANGED <<task, rel>>
  <2>1. RowsFit'
    BY <1>1, <1>2 DEF RowsFit, store, Exists, Live, OwnerExists
  <2> QED BY <1>1, <1>2, <2>1, ShownSame DEF SeenSame, store
<1>3. CASE Fresh(q) /\ ~Refuses(Kept(q), Row(q)) /\ rel' = Kept(q) \cup {Row(q)} /\ task' = Touched(t)
  <2>1. Exists(t)
    BY <1>3 DEF Fresh
  <2>2. task[t].state \in {"open", "archived"} /\ task[t].project \in projects
    BY <1>1, <2>1, CardIs
  <2>3. task' = [task EXCEPT ![t] = CountedRow(t, task[t].state, task[t].project)]
    BY <1>1, <1>3, TouchedIs
  <2>4. /\ Shared!Counted(t, task[t].state, task[t].project) /\ RowsFit'
        /\ UNCHANGED <<projects, ShownComments, ShownFiles>>
    BY <1>1, <2>1, <2>2, <2>3, CountedFits
  <2>5. Kept(q) = {s \in rel : ~(r.type = "parent" /\ s.type = "parent" /\ s.target = r.target)}
    BY <1>3, KeptIs DEF WriteAdd, At
  <2>6. Shared!Relate(t, r)
    BY <1>1, <1>3, <2>4, <2>5 DEF Shared!Relate
  <2> QED BY <1>1, <2>4, <2>6 DEF Shared!Changes, Shared!CardChanges
<1> QED BY <1>2, <1>3 DEF WriteAdd

LEMMA WriteRemoveSeen ==
  ASSUME Typed, RowsFit, NEW q \in Requests, WriteRemove(q)
  PROVE  (Shared!Changes \/ SeenSame) /\ RowsFit'
<1> DEFINE t == request[q].task
           r == Row(q)
<1>1. /\ t \in Tasks /\ t \in {r.source, r.target} /\ r \in Shared!Relations
      /\ UNCHANGED <<projects, store>> /\ BoardType
  BY EndsOfRow DEF WriteRemove, At, Typed
<1>2. CASE UNCHANGED <<task, rel>>
  <2>1. RowsFit'
    BY <1>1, <1>2 DEF RowsFit, store, Exists, Live, OwnerExists
  <2> QED BY <1>1, <1>2, <2>1, ShownSame DEF SeenSame, store
<1>3. CASE Fresh(q) /\ rel' = rel \ {Row(q)} /\ task' = Touched(t)
  <2>1. Exists(t)
    BY <1>3 DEF Fresh
  <2>2. task[t].state \in {"open", "archived"} /\ task[t].project \in projects
    BY <1>1, <2>1, CardIs
  <2>3. task' = [task EXCEPT ![t] = CountedRow(t, task[t].state, task[t].project)]
    BY <1>1, <1>3, TouchedIs
  <2>4. /\ Shared!Counted(t, task[t].state, task[t].project) /\ RowsFit'
        /\ UNCHANGED <<projects, ShownComments, ShownFiles>>
    BY <1>1, <2>1, <2>2, <2>3, CountedFits
  <2>5. Shared!Unrelate(t, r)
    BY <1>1, <1>3, <2>4 DEF Shared!Unrelate
  <2> QED BY <1>1, <2>4, <2>5 DEF Shared!Changes, Shared!CardChanges
<1> QED BY <1>2, <1>3 DEF WriteRemove

LEMMA WriteDeleteSeen ==
  ASSUME Typed, RowsFit, NEW q \in Requests, WriteDelete(q)
  PROVE  (Shared!Changes \/ SeenSame) /\ RowsFit'
<1> DEFINE t == request[q].task
           O == {t} \cup CommentsOf(t)
<1>1. /\ t \in Tasks /\ UNCHANGED <<projects, owner>>
      /\ task \in [Tasks -> TaskRow] /\ comment \in [Comments -> CommentRow]
  BY AimsOf DEF WriteDelete, At, TaskKinds, Typed, BoardType, StoreType
<1>2. CASE UNCHANGED <<task, rel, comment, rows>>
  <2>1. RowsFit'
    BY <1>1, <1>2 DEF RowsFit, Exists, Live, OwnerExists
  <2> QED BY <1>1, <1>2, <2>1, ShownSame DEF SeenSame
<1>3. CASE /\ task[t].state = "archived"
           /\ task' = [task EXCEPT ![t].state = "gone"]
           /\ rel' = rel \ RelationsOf(t)
           /\ comment' = [c \in Comments |-> IF c \in CommentsOf(t)
                                               THEN [comment[c] EXCEPT !.state = "gone"]
                                               ELSE comment[c]]
           /\ rows' = rows \ (FilesOf(t) \cup UNION {FilesOf(c) : c \in CommentsOf(t)})
  <2>1. rows' = {f \in rows : owner[f] \notin O}
    BY <1>3 DEF FilesOf
  <2>2. \A u \in Tasks : u # t => task'[u] = task[u]
    BY <1>1, <1>3
  <2>3. task'[t].state = "gone"
    BY <1>1, <1>3 DEF TaskRow
  <2>4. \A c \in Comments : /\ c \notin CommentsOf(t) => comment'[c] = comment[c]
                            /\ c \in CommentsOf(t) => comment'[c].state = "gone"
    <3>1. \A row \in CommentRow : [row EXCEPT !.state = "gone"].state = "gone"
      BY DEF CommentRow
    <3>2. \A c \in Comments : comment[c] \in CommentRow
      BY <1>1
    <3> QED BY <1>3, <3>1, <3>2
  <2>5. RowsFit'
    <3>1. \A u \in Tasks : Exists(u)' => u # t
      BY <2>3 DEF Exists, Stored
    <3>2. \A u \in Tasks : Exists(u) /\ u # t => Exists(u)'
      BY <2>2 DEF Exists, Stored
    <3>3. \A u \in Tasks : Exists(u)' => task'[u].project \in projects'
      BY <1>1, <2>2, <3>1 DEF RowsFit, Exists, Stored
    <3>4. \A c \in Comments : Live(c)' => Live(c) /\ comment'[c] = comment[c] /\ comment[c].task # t
      BY <2>4 DEF Live, CommentsOf
    <3>5. ASSUME NEW c \in Comments, comment'[c].state = "live"
          PROVE  comment'[c].task \in Tasks /\ Stored(task'[comment'[c].task])
      <4>1. Live(c) /\ comment'[c] = comment[c] /\ comment[c].task # t
        BY <3>4, <3>5 DEF Live
      <4>2. comment[c].task \in Tasks /\ Exists(comment[c].task)
        BY <4>1 DEF RowsFit
      <4> QED BY <2>2, <4>1, <4>2 DEF Exists
    <3>6. ASSUME NEW f \in rows'
          PROVE  \/ owner[f] \in Tasks /\ Stored(task'[owner[f]])
                 \/ owner[f] \in Comments /\ comment'[owner[f]].state = "live"
      <4>1. OwnerExists(owner[f]) /\ owner[f] # t /\ owner[f] \notin CommentsOf(t)
        BY <2>1 DEF RowsFit
      <4> QED BY <2>2, <2>4, <4>1 DEF OwnerExists, Exists, Live
    <3>7. \A u \in Tasks : Stored(task'[u]) => task'[u].project \in projects'
      BY <3>3 DEF Exists
    <3> QED BY <1>1, <3>5, <3>6, <3>7 DEF RowsFit, Exists, Live, OwnerExists
  <2>6. ShownComments' =
          [c \in Comments |-> IF c \in Shared!CommentsOf(t)
                                THEN [ShownComments[c] EXCEPT !.state = "gone"] ELSE ShownComments[c]]
    <3>1. \A c \in Comments : comment'[c] = IF c \in CommentsOf(t) THEN [comment[c] EXCEPT !.state = "gone"]
                                                                   ELSE comment[c]
      BY <1>3
    <3>2. \A row \in CommentRow : /\ [row EXCEPT !.state = "gone"].state = "gone"
                                  /\ [row EXCEPT !.state = "gone"].task = row.task
                                  /\ [row EXCEPT !.state = "gone"].version = row.version
      BY DEF CommentRow
    <3>3. \A c \in Comments : /\ c \in CommentsOf(t) =>
                                   /\ comment'[c].state = "gone" /\ comment'[c].task = comment[c].task
                                   /\ comment'[c].version = comment[c].version
                              /\ c \notin CommentsOf(t) => comment'[c] = comment[c]
      BY <1>1, <3>1, <3>2
    <3>4. ShownComments' = [c \in Comments |-> [state |-> comment'[c].state, task |-> comment'[c].task,
                                                version |-> comment'[c].version]]
      BY DEF ShownComments
    <3>5. ASSUME NEW c \in Comments
          PROVE  [state |-> comment'[c].state, task |-> comment'[c].task, version |-> comment'[c].version]
                   = IF c \in CommentsOf(t) THEN [ShownComments[c] EXCEPT !.state = "gone"]
                                            ELSE ShownComments[c]
      BY <3>3 DEF ShownComments
    <3>6. Shared!CommentsOf(t) = CommentsOf(t)
      BY ShownIs
    <3> QED BY <3>4, <3>5, <3>6
  <2>7. ShownFiles' = Shared!Without({t} \cup Shared!CommentsOf(t))
    <3>1. Shared!CommentsOf(t) = CommentsOf(t)
      BY ShownIs
    <3>2. {g \in DOMAIN ShownFiles : ShownFiles[g] \notin O} = rows'
      BY <2>1, ShownIs
    <3>3. \A f \in rows' : ShownFiles[f] = owner'[f]
      BY <1>1, <2>1, ShownIs
    <3>4. Shared!Without(O) = [f \in {g \in DOMAIN ShownFiles : ShownFiles[g] \notin O} |-> ShownFiles[f]]
      BY DEF Shared!Without
    <3>5. ShownFiles' = [f \in rows' |-> owner'[f]]
      BY DEF ShownFiles
    <3> QED BY <3>1, <3>2, <3>3, <3>4, <3>5
  <2>8. Shared!RelationsOf(t) = RelationsOf(t)
    BY ShownIs
  <2>9. Shared!DeleteCard(t)
    BY <1>1, <1>3, <2>6, <2>7, <2>8 DEF Shared!DeleteCard
  <2> QED BY <1>1, <2>5, <2>9 DEF Shared!Changes, Shared!CardChanges
<1> QED BY <1>2, <1>3 DEF WriteDelete

\* Comments: cards and projects stay, and the files are on what is left.
LEMMA CommentsFit ==
  ASSUME Typed, RowsFit, UNCHANGED <<board, owner>>, rows' \subseteq rows,
         \A c \in Comments : comment'[c].state = "live" =>
           comment'[c].task \in Tasks /\ Exists(comment'[c].task),
         \A f \in rows' : owner[f] \in Comments /\ Live(owner[f]) => comment'[owner[f]].state = "live"
  PROVE  RowsFit'
<1>1. \A f \in rows' : \/ owner'[f] \in Tasks /\ Stored(task'[owner'[f]])
                       \/ owner'[f] \in Comments /\ comment'[owner'[f]].state = "live"
  BY DEF RowsFit, OwnerExists, Exists, board
<1>2. \A c \in Comments : comment'[c].state = "live" =>
        comment'[c].task \in Tasks /\ Stored(task'[comment'[c].task])
  BY DEF Exists, board
<1>3. \A t \in Tasks : Stored(task'[t]) => task'[t].project \in projects'
  BY DEF RowsFit, Exists, board
<1> QED BY <1>1, <1>2, <1>3 DEF RowsFit, Exists, Live, OwnerExists

\* What is shown of one comment changes.
LEMMA ShownChanges ==
  ASSUME Typed, NEW c \in Comments, NEW row, comment' = [comment EXCEPT ![c] = row]
  PROVE  ShownComments' = [ShownComments EXCEPT ![c] = [state |-> row.state, task |-> row.task,
                                                        version |-> row.version]]
<1>1. comment \in [Comments -> CommentRow]
  BY DEF Typed, StoreType
<1>2. comment'[c] = row /\ \A d \in Comments : d # c => comment'[d] = comment[d]
  BY <1>1
<1>3. ShownComments' = [d \in Comments |-> [state |-> comment'[d].state, task |-> comment'[d].task,
                                            version |-> comment'[d].version]]
  BY DEF ShownComments
<1>4. \A d \in Comments : d # c =>
        [state |-> comment'[d].state, task |-> comment'[d].task, version |-> comment'[d].version]
          = ShownComments[d]
  BY <1>2 DEF ShownComments
<1>5. ShownComments = [d \in Comments |-> ShownComments[d]]
  BY DEF ShownComments
<1> QED BY <1>2, <1>3, <1>4, <1>5

LEMMA CreateCommentSeen ==
  ASSUME Typed, RowsFit, NEW q \in Requests, CreateComment(q)
  PROVE  (Shared!Changes \/ SeenSame) /\ RowsFit'
<1> DEFINE t == request[q].task
<1>1. /\ t \in Tasks /\ UNCHANGED <<board, owner, rows>> /\ comment \in [Comments -> CommentRow]
  BY AimsOf DEF CreateComment, At, TaskKinds, Typed, StoreType
<1>2. CASE UNCHANGED comment
  <2>1. RowsFit'
    BY <1>1, <1>2 DEF RowsFit, board, Exists, Live, OwnerExists
  <2> QED BY <1>1, <1>2, <2>1, ShownSame DEF SeenSame, board
<1>3. ASSUME NEW c \in Comments, comment[c].state = "none", Exists(t),
             comment' = [comment EXCEPT ![c] = [state |-> "live", task |-> t, version |-> 1,
                                                revision |-> revision + 1]]
      PROVE  (Shared!Changes \/ SeenSame) /\ RowsFit'
  <2> DEFINE row == [state |-> "live", task |-> t, version |-> 1, revision |-> revision + 1]
  <2>1. comment'[c] = row /\ \A d \in Comments : d # c => comment'[d] = comment[d]
    BY <1>1, <1>3
  <2>2. \A d \in Comments : comment'[d].state = "live" =>
          comment'[d].task \in Tasks /\ Exists(comment'[d].task)
    BY <1>1, <1>3, <2>1 DEF RowsFit, Live
  <2>3. RowsFit'
    BY <1>1, <1>3, <2>1, <2>2, CommentsFit DEF Live
  <2>4. ShownComments' = [ShownComments EXCEPT ![c] = [state |-> "live", task |-> t, version |-> 1]]
    <3>1. comment' = [comment EXCEPT ![c] = row]
      BY <1>3
    <3>2. row.state = "live" /\ row.task = t /\ row.version = 1
      OBVIOUS
    <3> HIDE DEF row
    <3> QED BY <3>1, <3>2, ShownChanges
  <2>5. Shared!WriteComment(c, t)
    BY <1>1, <1>3, <2>4, ShownIs, ShownSame DEF Shared!WriteComment, board
  <2> QED BY <1>1, <2>3, <2>5 DEF Shared!Changes, Shared!CommentChanges
<1> QED BY <1>2, <1>3 DEF CreateComment

LEMMA UpdateCommentSeen ==
  ASSUME Typed, RowsFit, NEW q \in Requests, UpdateComment(q)
  PROVE  (Shared!Changes \/ SeenSame) /\ RowsFit'
<1> DEFINE c == request[q].comment
           row == [comment[c] EXCEPT !.version = comment[c].version + 1, !.revision = NextRevision(c)]
<1>1. /\ c \in Comments /\ UNCHANGED <<board, owner, rows>> /\ comment \in [Comments -> CommentRow]
  BY AimsOf DEF UpdateComment, At, Typed, StoreType
<1>2. CASE UNCHANGED comment
  <2>1. RowsFit'
    BY <1>1, <1>2 DEF RowsFit, board, Exists, Live, OwnerExists
  <2> QED BY <1>1, <1>2, <2>1, ShownSame DEF SeenSame, board
<1>3. CASE /\ FreshComment(q)
           /\ comment' = [comment EXCEPT ![c].version = @ + 1, ![c].revision = NextRevision(c)]
  <2>1. Live(c)
    BY <1>3 DEF FreshComment
  <2>2. comment' = [comment EXCEPT ![c] = row]
    BY <1>1, <1>3
  <2>3. row.state = comment[c].state /\ row.task = comment[c].task /\ row.version = comment[c].version + 1
    <3>1. comment[c] \in CommentRow
      BY <1>1
    <3> QED BY <3>1 DEF CommentRow
  <2> HIDE DEF row
  <2>4. comment'[c] = row /\ \A d \in Comments : d # c => comment'[d] = comment[d]
    BY <1>1, <2>2
  <2>5. \A d \in Comments : comment'[d].state = comment[d].state /\ comment'[d].task = comment[d].task
    BY <2>3, <2>4
  <2>6. RowsFit'
    BY <1>1, <2>5, CommentsFit DEF RowsFit, Live
  <2>7. ShownComments' = [ShownComments EXCEPT ![c] = [state |-> row.state, task |-> row.task,
                                                       version |-> row.version]]
    BY <1>1, <2>2, ShownChanges
  <2>8. [state |-> row.state, task |-> row.task, version |-> row.version]
          = [ShownComments[c] EXCEPT !.version = ShownComments[c].version + 1]
    BY <1>1, <2>3 DEF ShownComments
  <2>9. ShownComments' = [ShownComments EXCEPT ![c].version = @ + 1]
    BY <2>7, <2>8
  <2>10. Shared!EditComment(c)
    BY <1>1, <2>1, <2>9, ShownIs, ShownSame DEF Shared!EditComment, board
  <2> QED BY <1>1, <2>6, <2>10 DEF Shared!Changes, Shared!CommentChanges
<1> QED BY <1>2, <1>3 DEF UpdateComment

\* The files that are left when those on O go
LEMMA FilesLeft ==
  ASSUME NEW O, UNCHANGED owner, rows' = {f \in rows : owner[f] \notin O}
  PROVE  ShownFiles' = Shared!Without(O)
<1>1. {g \in DOMAIN ShownFiles : ShownFiles[g] \notin O} = rows'
  BY ShownIs
<1>2. \A f \in rows' : ShownFiles[f] = owner'[f]
  BY ShownIs
<1>3. ShownFiles' = [f \in rows' |-> owner'[f]]
  BY DEF ShownFiles
<1> QED BY <1>1, <1>2, <1>3 DEF Shared!Without

LEMMA DeleteCommentSeen ==
  ASSUME Typed, RowsFit, NEW q \in Requests, DeleteComment(q)
  PROVE  (Shared!Changes \/ SeenSame) /\ RowsFit'
<1> DEFINE c == request[q].comment
           row == [comment[c] EXCEPT !.state = "deleted"]
<1>1. /\ c \in Comments /\ UNCHANGED <<board, owner>> /\ comment \in [Comments -> CommentRow]
  BY AimsOf DEF DeleteComment, At, Typed, StoreType
<1>2. CASE UNCHANGED <<comment, rows>>
  <2>1. RowsFit'
    BY <1>1, <1>2 DEF RowsFit, board, Exists, Live, OwnerExists
  <2> QED BY <1>1, <1>2, <2>1, ShownSame DEF SeenSame, board
<1>3. CASE /\ FreshComment(q)
           /\ comment' = [comment EXCEPT ![c].state = "deleted"]
           /\ rows' = rows \ FilesOf(c)
  <2>1. Live(c)
    BY <1>3 DEF FreshComment
  <2>2. comment' = [comment EXCEPT ![c] = row]
    BY <1>1, <1>3
  <2>3. row.state = "deleted" /\ row.task = comment[c].task /\ row.version = comment[c].version
    <3>1. comment[c] \in CommentRow
      BY <1>1
    <3> QED BY <3>1 DEF CommentRow
  <2> HIDE DEF row
  <2>4. comment'[c] = row /\ \A d \in Comments : d # c => comment'[d] = comment[d]
    BY <1>1, <2>2
  <2>5. rows' = {f \in rows : owner[f] \notin {c}}
    BY <1>3 DEF FilesOf
  <2>6. RowsFit'
    <3>1. \A d \in Comments : comment'[d].state = "live" =>
            comment'[d].task \in Tasks /\ Exists(comment'[d].task)
      BY <2>3, <2>4 DEF RowsFit, Live
    <3>2. \A f \in rows' : owner[f] \in Comments /\ Live(owner[f]) => comment'[owner[f]].state = "live"
      BY <2>4, <2>5 DEF Live
    <3> QED BY <1>1, <2>5, <3>1, <3>2, CommentsFit
  <2>7. ShownComments' = [ShownComments EXCEPT ![c] = [state |-> row.state, task |-> row.task,
                                                       version |-> row.version]]
    BY <1>1, <2>2, ShownChanges
  <2>8. [state |-> row.state, task |-> row.task, version |-> row.version]
          = [ShownComments[c] EXCEPT !.state = "deleted"]
    BY <1>1, <2>3 DEF ShownComments
  <2>9. ShownComments' = [ShownComments EXCEPT ![c].state = "deleted"]
    BY <2>7, <2>8
  <2>10. ShownFiles' = Shared!Without({c})
    BY <1>1, <2>5, FilesLeft
  <2>11. Shared!DeleteComment(c)
    BY <1>1, <2>1, <2>9, <2>10, ShownIs DEF Shared!DeleteComment, board
  <2> QED BY <1>1, <2>6, <2>11 DEF Shared!Changes, Shared!CommentChanges
<1> QED BY <1>2, <1>3 DEF DeleteComment

LEMMA FilesSeen ==
  ASSUME Typed, FilesHold, RowsFit, RequestsReadRight, NEW q \in Requests, Put(q) \/ Insert(q) \/ DeleteRow(q)
  PROVE  (Shared!Changes \/ SeenSame) /\ RowsFit'
<1>1. UNCHANGED <<board, comment>> /\ UNCHANGED ShownComments
  BY ShownSame DEF Put, Insert, DeleteRow
<1>2. owner \in [Files -> Tasks \cup Comments \cup {NoTask}] /\ rows \subseteq Files
  BY DEF Typed, StoreType
<1>3. ASSUME UNCHANGED rows, \A f \in rows : owner'[f] = owner[f]
      PROVE  SeenSame /\ RowsFit'
  <2>1. \A f \in rows' : \/ owner'[f] \in Tasks /\ Stored(task'[owner'[f]])
                         \/ owner'[f] \in Comments /\ comment'[owner'[f]].state = "live"
    BY <1>1, <1>3 DEF RowsFit, OwnerExists, Exists, Live, board
  <2>2. RowsFit'
    BY <1>1, <2>1 DEF RowsFit, board, Exists, Live, OwnerExists
  <2> QED BY <1>1, <1>3, <2>2, ShownSame DEF SeenSame, board
<1>4. CASE Put(q)
  <2>1. PICK f \in Files : owner[f] = NoTask /\ owner' = [owner EXCEPT ![f] = UploadOwner(q)]
    BY <1>4 DEF Put
  <2>2. f \notin rows
    BY <2>1 DEF FilesHold
  <2>3. UNCHANGED rows /\ \A g \in rows : owner'[g] = owner[g]
    BY <1>2, <1>4, <2>1, <2>2 DEF Put
  <2> QED BY <1>3, <2>3
<1>5. CASE Insert(q)
  <2> DEFINE f == request[q].file
             o == UploadOwner(q)
  <2>1. UNCHANGED owner
    BY <1>5 DEF Insert
  <2>2. CASE UNCHANGED rows
    BY <1>3, <2>1, <2>2
  <2>3. CASE OwnerExists(o) /\ rows' = rows \cup {f}
    <3>1. f \in Files /\ o \in Tasks \cup Comments
      BY <1>5, AimsOf DEF Insert, At
    <3>2. f \notin rows
      BY <1>5, <3>1 DEF Insert, At, FilesHold, Brings
    <3>3. owner[f] = o
      BY <1>5 DEF Insert, At, RequestsReadRight, ReadRight, OwnerIn, UploadOwner
    <3>4. \A g \in rows' : \/ owner'[g] \in Tasks /\ Stored(task'[owner'[g]])
                           \/ owner'[g] \in Comments /\ comment'[owner'[g]].state = "live"
      BY <1>1, <2>1, <2>3, <3>3 DEF RowsFit, OwnerExists, Exists, Live, board
    <3>5. RowsFit'
      BY <1>1, <3>4 DEF RowsFit, board, Exists, Live, OwnerExists
    <3>6. ShownFiles' = [g \in DOMAIN ShownFiles \cup {f} |-> IF g = f THEN o ELSE ShownFiles[g]]
      BY <2>1, <2>3, <3>2, <3>3, ShownIs DEF ShownFiles
    <3>7. Shared!Attach(f, o)
      BY <1>1, <3>2, <3>6, ShownIs DEF Shared!Attach, board
    <3> QED BY <3>1, <3>5, <3>7 DEF Shared!Changes, Shared!FileChanges
  <2> QED BY <1>5, <2>2, <2>3 DEF Insert, InsertRow
<1>6. CASE DeleteRow(q)
  <2> DEFINE f == request[q].file
  <2>1. f \in Files /\ UNCHANGED owner /\ rows' = rows \ {f}
    BY <1>6, AimsOf DEF DeleteRow, At, RowFirst
  <2>2. \A g \in rows' : \/ owner'[g] \in Tasks /\ Stored(task'[owner'[g]])
                         \/ owner'[g] \in Comments /\ comment'[owner'[g]].state = "live"
    BY <1>1, <2>1 DEF RowsFit, OwnerExists, Exists, Live, board
  <2>3. RowsFit'
    BY <1>1, <2>2 DEF RowsFit, board, Exists, Live, OwnerExists
  <2>4. ShownFiles' = [g \in DOMAIN ShownFiles \ {f} |-> ShownFiles[g]]
    BY <2>1, ShownIs DEF ShownFiles
  <2>5. Shared!Detach(f)
    BY <1>1, <2>4 DEF Shared!Detach, board
  <2> QED BY <2>1, <2>3, <2>5 DEF Shared!Changes, Shared!FileChanges
<1> QED BY <1>4, <1>5, <1>6

LEMMA BoardSeen ==
  ASSUME Typed, FilesHold, RequestsReadRight, RowsFit, [Next]_vars
  PROVE  (Shared!Changes \/ SeenSame) /\ RowsFit'
<1>1. ASSUME UNCHANGED <<board, comment, owner, rows>>
      PROVE  SeenSame /\ RowsFit'
  BY <1>1, ShownSame DEF SeenSame, board, RowsFit, Exists, Live, OwnerExists
<1>2. ASSUME NEW q \in Requests, Start(q)
      PROVE  UNCHANGED <<board, comment, owner, rows>>
  BY <1>2, StartChanges DEF store
<1>3. ASSUME NEW q \in Requests,
             \/ LookTransfer(q) \/ ReadOther(q) \/ LookAdd(q) \/ LookRemove(q) \/ ListFiles(q)
             \/ DeleteObjects(q) \/ Fails(q)
      PROVE  UNCHANGED <<board, comment, owner, rows>>
  BY <1>3 DEF LookTransfer, ReadOther, LookAdd, LookRemove, ListFiles, DeleteObjects, Fails, store
<1>4. ListComments \/ ListCommentsAfter \/ UNCHANGED vars => UNCHANGED <<board, comment, owner, rows>>
  BY DEF ListComments, ListCommentsAfter, Reads, vars, store
<1>5. ASSUME NEW q \in Requests, Continue(q)
      PROVE  (Shared!Changes \/ SeenSame) /\ RowsFit'
  BY <1>1, <1>3, <1>5, WriteTaskSeen, WriteTransferSeen, ProjectsSeen, WriteAddSeen, WriteRemoveSeen,
     WriteDeleteSeen, CreateCommentSeen, UpdateCommentSeen, DeleteCommentSeen, FilesSeen DEF Continue
<1> QED BY <1>1, <1>2, <1>4, <1>5 DEF Next

\* The worker implements the shared board: what people see begins as a board whose rows
\* fit together, and each step of a request changes it as a whole, or not at all.
THEOREM KeepsBoardHolds == Spec => KeepsBoard
<1> DEFINE Inv == Typed /\ BoardHolds /\ FilesHold /\ RequestsReadRight /\ RowsFit
<1>1. Init => Inv
  BY TypedInit, BoardInit, FilesInit, ReadRightInit, RowsFitInit
<1>2. Inv /\ [Next]_vars => Inv'
  BY TypedStep, BoardStep, FilesStep, ReadRightStep, BoardSeen
<1>3. Inv => Shared!Fits
  BY FitsWhenSound
<1>4. Inv /\ Shared!Fits' /\ [Next]_vars => [Shared!Next]_(Shared!vars)
  BY BoardSeen DEF Shared!Next, Shared!vars, SeenSame
<1> HIDE DEF Inv
<1> QED BY <1>1, <1>2, <1>3, <1>4, PTL DEF Spec, KeepsBoard, Shared!Spec
=============================================================================
