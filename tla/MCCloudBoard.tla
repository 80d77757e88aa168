------------------------------ MODULE MCCloudBoard ------------------------------
EXTENDS CloudBoard, FiniteSetsExt, TLC

MCBoard ==
  [projects |-> {"p"}, task |-> [t \in Tasks |-> [state |-> "none", project |-> NoProject,
                                                  version |-> 0]],
   rel |-> {}, owner |-> [f \in Files |-> NoTask], revision |-> 1, reads |-> 1,
   comment |-> [c \in Comments |-> [state |-> "none", task |-> NoTask, version |-> 0,
                                    revision |-> 0]],
   offered |-> {}, requests |-> Requests]

MCRow(state) == [state |-> state, project |-> "p", version |-> 1]

\* Every forest of parents on the cards of a project, the last card is archived
MCForests ==
  {R \in SUBSET [type : {"parent"}, source : Tasks, target : Tasks] : Forest(R)}

MCRelations ==
  {[MCBoard EXCEPT !.projects = {"p", "q"}, !.rel = R,
      !.task = [t \in Tasks |-> MCRow(IF \E s \in Tasks : t < s THEN "open" ELSE "archived")],
      !.offered = {"add", "remove", "transfer", "move", "delete"},
      !.requests = two] :
     R \in MCForests, two \in kSubset(2, Requests)}

\* Projects come and go while cards are made in them and transferred to them.
MCProjects ==
  {[MCBoard EXCEPT !.projects = P,
      !.task = [t \in Tasks |-> IF \E s \in Tasks : t < s THEN MCRow("open") ELSE @[t]],
      !.offered = {"createTask", "createProject", "deleteProject", "transfer", "archive",
                   "restore", "delete"}] :
     P \in {{"p"}, {"p", "q"}}}

\* One card with a comment that has a file
MCFiles ==
  {[MCBoard EXCEPT
      !.task = [t \in Tasks |-> IF \E s \in Tasks : s < t THEN @[t] ELSE MCRow(state)],
      !.comment = [c \in Comments |->
         IF c = one THEN [state |-> "live", task |-> 1, version |-> 1, revision |-> 1] ELSE @[c]],
      !.owner = [f \in Files |-> IF f = file THEN one ELSE NoTask],
      !.offered = {"createComment", "updateComment", "deleteComment", "upload", "deleteFile",
                   "delete", "list"}] :
     state \in {"open", "archived"}, one \in {CHOOSE c \in Comments : TRUE},
     file \in {CHOOSE f \in Files : TRUE}}

MCSymmetry == Permutations(Requests)

MCStarts == MCRelations \cup MCProjects \cup MCFiles
=============================================================================
