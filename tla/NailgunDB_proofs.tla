--------------------------- MODULE NailgunDB_proofs ---------------------------
(***************************************************************************)
(* Lemmas about the operators of NailgunDB and NailgunReceiver: that each  *)
(* maps consistent rows to consistent rows.                                *)
(***************************************************************************)
EXTENDS NailgunReceiver, TLAPS

(***************************************************************************)
(* Consistent rows. An identifier without a row is wholly blank, only      *)
(* identifiers given out have rows, and a task with a parent is a subtask  *)
(* of a deploy task that has a row.                                        *)
(***************************************************************************)
Shape(d) ==
  \A t \in TaskId :
    /\ d.task[t].name = "none" <=> d.task[t].status = "none"
    /\ d.task[t].name # "none" => t <= d.seq
    /\ d.task[t].parent # NoTask =>
         /\ d.task[t].name \in SubtaskNames
         /\ d.task[d.task[t].parent].name = "deploy"

\* The supertask p agrees with its subtasks.
AgreesAt(d, p) ==
  Subtasks(d, p) # {} =>
    /\ (\E t \in Subtasks(d, p) : d.task[t].status = "error")
         => d.task[p].status = "error"
    /\ (\A t \in Subtasks(d, p) : d.task[t].status = "ready")
         => d.task[p].status = "ready"

Agrees(d) == \A p \in TaskId : AgreesAt(d, p)

\* A deleted cluster has no task.
Gone(d) == d.cluster = "deleted" => \A t \in TaskId : d.task[t].name = "none"

Good(d) == d \in Database /\ Shape(d) /\ Agrees(d) /\ Gone(d)

(***************************************************************************)
(* How a transaction may change rows: names of rows persist until the row  *)
(* is deleted, identifiers are not given out twice.                        *)
(***************************************************************************)
Follows(d, e) ==
  /\ d.seq <= e.seq
  /\ \A t \in TaskId : t <= d.seq => e.task[t].name \in {d.task[t].name, "none"}

\* The task rows are untouched, and the cluster is not deleted.
SameTasks(d, e) ==
  /\ e \in Database
  /\ e.task = d.task /\ e.seq = d.seq
  /\ e.cluster = "deleted" => d.cluster = "deleted"

\* Statuses of rows may have changed, nothing else of the tasks.
SameShape(d, e) ==
  /\ e \in Database
  /\ e.seq = d.seq
  /\ e.cluster = "deleted" => d.cluster = "deleted"
  /\ \A t \in TaskId : /\ e.task[t].name = d.task[t].name
                       /\ e.task[t].parent = d.task[t].parent

------------------------------------------------------------------------------
(***************************************************************************)
(* Setters.                                                                *)
(***************************************************************************)

LEMMA SetNodesSame ==
  ASSUME NEW d \in Database, NEW rows \in [Node -> NodeRow]
  PROVE  SameTasks(d, SetNodes(d, rows))
BY DEF SetNodes, SameTasks, Database

LEMMA SetClusterSame ==
  ASSUME NEW d \in Database, NEW st \in ClusterStatuses \ {"deleted"}
  PROVE  SameTasks(d, SetCluster(d, st))
BY DEF SetCluster, SameTasks, Database

LEMMA SetTasksType ==
  ASSUME NEW d \in Database, NEW rows \in [TaskId -> TaskRow]
  PROVE  /\ SetTasks(d, rows) \in Database
         /\ SetTasks(d, rows).task = rows
         /\ SetTasks(d, rows).seq = d.seq
         /\ SetTasks(d, rows).cluster = d.cluster
         /\ SetTasks(d, rows).node = d.node
BY DEF SetTasks, Database

LEMMA SameTasksTransitive ==
  ASSUME NEW d, NEW e, NEW f, SameTasks(d, e), SameTasks(e, f)
  PROVE  SameTasks(d, f)
BY DEF SameTasks

LEMMA SetReleaseSame ==
  ASSUME NEW d \in Database, NEW chosen \in BOOLEAN
  PROVE  SameTasks(d, [d EXCEPT !.release = chosen])
BY DEF SameTasks, Database

LEMMA RowTypes ==
  ASSUME NEW d \in Database
  PROVE  /\ \A n \in Node : d.node[n] \in NodeRow
         /\ \A t \in TaskId : d.task[t] \in TaskRow
BY DEF Database

LEMMA SetNodeStatusSame ==
  ASSUME NEW d \in Database, NEW S, NEW st \in NodeStatuses
  PROVE  SameTasks(d, SetNodeStatus(d, S, st))
<1>1. \A n \in Node : [d.node[n] EXCEPT !.status = st] \in NodeRow
  BY RowTypes DEF NodeRow
<1>2. [n \in Node |-> IF n \in S THEN [d.node[n] EXCEPT !.status = st]
                                 ELSE d.node[n]] \in [Node -> NodeRow]
  BY <1>1, RowTypes
<1> QED BY <1>2, SetNodesSame DEF SetNodeStatus

LEMMA NodesToErrorSame ==
  ASSUME NEW d \in Database, NEW S, NEW type \in NodeErrors
  PROVE  SameTasks(d, NodesToError(d, S, type))
<1>1. \A n \in Node :
        [d.node[n] EXCEPT !.status = "error", !.error_type = type] \in NodeRow
  BY RowTypes DEF NodeRow, NodeStatuses
<1>2. [n \in Node |->
        IF n \in S THEN [d.node[n] EXCEPT !.status = "error", !.error_type = type]
                   ELSE d.node[n]] \in [Node -> NodeRow]
  BY <1>1, RowTypes
<1> QED BY <1>2, SetNodesSame DEF NodesToError

LEMMA ResetToDiscoverSame ==
  ASSUME NEW d \in Database, NEW S
  PROVE  SameTasks(d, ResetToDiscover(d, S))
<1>1. \A n \in Node : [d.node[n] EXCEPT !.status = "discover",
                                        !.pending_addition = TRUE,
                                        !.pending_roles = TRUE,
                                        !.pending_deletion = FALSE] \in NodeRow
  BY RowTypes DEF NodeRow, NodeStatuses
<1>2. [n \in Node |->
        IF n \in S THEN [d.node[n] EXCEPT !.status = "discover",
                                          !.pending_addition = TRUE,
                                          !.pending_roles = TRUE,
                                          !.pending_deletion = FALSE]
                   ELSE d.node[n]] \in [Node -> NodeRow]
  BY <1>1, RowTypes
<1> QED BY <1>2, SetNodesSame DEF ResetToDiscover

LEMMA DeleteNodesSame ==
  ASSUME NEW d \in Database, NEW S
  PROVE  SameTasks(d, DeleteNodes(d, S))
<1>1. NoNodeRow \in NodeRow
  BY DEF NoNodeRow, NodeRow, NodeErrors
<1>2. [n \in Node |-> IF n \in S THEN NoNodeRow ELSE d.node[n]] \in [Node -> NodeRow]
  BY <1>1, RowTypes
<1> QED BY <1>2, SetNodesSame DEF DeleteNodes

LEMMA KeepFailedSame ==
  ASSUME NEW d \in Database, NEW S
  PROVE  SameTasks(d, KeepFailed(d, S))
<1>1. \A n \in Node : [d.node[n] EXCEPT !.status = "error",
                                        !.pending_deletion = FALSE] \in NodeRow
  BY RowTypes DEF NodeRow, NodeStatuses
<1>2. [n \in Node |->
        IF n \in S THEN [d.node[n] EXCEPT !.status = "error",
                                          !.pending_deletion = FALSE]
                   ELSE d.node[n]] \in [Node -> NodeRow]
  BY <1>1, RowTypes
<1> QED BY <1>2, SetNodesSame DEF KeepFailed

------------------------------------------------------------------------------
(***************************************************************************)
(* Task.update.                                                            *)
(***************************************************************************)

LEMMA UpdateClusterDataSame ==
  ASSUME NEW d \in Database, NEW t \in TaskId
  PROVE  SameTasks(d, UpdateClusterData(d, t))
<1>0. SameTasks(d, d)
  BY DEF SameTasks
<1>1. \A e \in Database, st \in {"operational", "error", "stopped", "update_error"} :
        SameTasks(e, SetCluster(e, st))
  BY SetClusterSame DEF ClusterStatuses
<1>2. LET e == SetNodeStatus(d, NodesIn(d, {"deploying"}), "ready")
      IN SameTasks(d, SetCluster(e, "operational"))
  <2> DEFINE e == SetNodeStatus(d, NodesIn(d, {"deploying"}), "ready")
  <2>1. SameTasks(d, e)
    BY SetNodeStatusSame DEF NodeStatuses
  <2>2. e \in Database
    BY <2>1 DEF SameTasks
  <2> HIDE DEF e
  <2> QED BY <2>1, <2>2, <1>1, SameTasksTransitive DEF e
<1>3. ASSUME NEW S, NEW type \in {"deploy", "provision"},
             NEW st \in {"error", "update_error"}
      PROVE  SameTasks(d, SetCluster(NodesToError(d, S, type), st))
  <2>1. SameTasks(d, NodesToError(d, S, type))
    BY NodesToErrorSame DEF NodeErrors
  <2>2. NodesToError(d, S, type) \in Database
    BY <2>1 DEF SameTasks
  <2> QED BY <2>1, <2>2, <1>1, SameTasksTransitive
<1>4. SameTasks(d, [SetCluster(d, "operational") EXCEPT !.release = FALSE])
  <2> DEFINE e == SetCluster(d, "operational")
  <2>1. SameTasks(d, e)
    BY <1>1
  <2>2. e \in Database
    BY <2>1 DEF SameTasks
  <2> HIDE DEF e
  <2>3. SameTasks(e, [e EXCEPT !.release = FALSE])
    BY <2>2, SetReleaseSame
  <2> QED BY <2>1, <2>3, SameTasksTransitive DEF e
<1> QED BY <1>0, <1>1, <1>2, <1>3, <1>4 DEF UpdateClusterData

\* The task rows of SetStatus(d, S, st).
LEMMA SetStatusRows ==
  ASSUME NEW d \in Database, NEW S, NEW st \in TaskStatuses
  PROVE  /\ SameShape(d, SetStatus(d, S, st))
         /\ \A t \in TaskId : SetStatus(d, S, st).task[t].status =
                               IF t \in S THEN st ELSE d.task[t].status
<1> DEFINE rows == [t \in TaskId |->
      IF t \in S THEN [d.task[t] EXCEPT !.status = st] ELSE d.task[t]]
<1>1. \A t \in TaskId : /\ d.task[t] \in TaskRow
                        /\ [d.task[t] EXCEPT !.status = st] \in TaskRow
  BY RowTypes DEF TaskRow
<1>2. rows \in [TaskId -> TaskRow]
  BY <1>1
<1>3. \A t \in TaskId : /\ rows[t].name = d.task[t].name
                        /\ rows[t].parent = d.task[t].parent
                        /\ rows[t].status = IF t \in S THEN st ELSE d.task[t].status
  BY <1>1 DEF TaskRow
<1>4. SetStatus(d, S, st) = SetTasks(d, rows)
  BY DEF SetStatus
<1> HIDE DEF rows
<1> QED BY <1>2, <1>3, <1>4, SetTasksType DEF SameShape

\* UpdateOne: the status of t, and nothing else of the tasks.
LEMMA UpdateOneRows ==
  ASSUME NEW d \in Database, NEW t \in TaskId, NEW st \in TaskStatuses
  PROVE  /\ SameShape(d, UpdateOne(d, t, st))
         /\ \A u \in TaskId : UpdateOne(d, t, st).task[u].status =
                               IF u = t THEN st ELSE d.task[u].status
<1> DEFINE e == SetStatus(d, {t}, st)
<1>1. /\ SameShape(d, e)
      /\ \A u \in TaskId : e.task[u].status = IF u \in {t} THEN st
                                                ELSE d.task[u].status
  BY SetStatusRows
<1>2. SameTasks(e, UpdateClusterData(e, t))
  BY <1>1, UpdateClusterDataSame DEF SameShape
<1>3. UpdateOne(d, t, st) = UpdateClusterData(e, t)
  BY DEF UpdateOne
<1> HIDE DEF e
<1> QED BY <1>1, <1>2, <1>3 DEF SameShape, SameTasks

\* UpdateParent, case by case.
LEMMA UpdateParentRows ==
  ASSUME NEW d \in Database, NEW p \in TaskId,
         p \notin Subtasks(d, p)
  PROVE  LET kids == Subtasks(d, p)
             e    == UpdateParent(d, p)
         IN /\ SameShape(d, e)
            /\ \A u \in TaskId \ (kids \cup {p}) :
                  e.task[u].status = d.task[u].status
            /\ \A u \in kids :
                  e.task[u].status \in {d.task[u].status, "error"}
            /\ (\E u \in kids : d.task[u].status = "error") =>
                  /\ e.task[p].status = "error"
                  /\ \A u \in kids : e.task[u].status # "running"
                  /\ \E u \in kids : e.task[u].status = "error"
            /\ (\A u \in kids : d.task[u].status # "error") =>
                  /\ \A u \in kids : e.task[u].status = d.task[u].status
                  /\ (\A u \in kids : d.task[u].status = "ready")
                        => e.task[p].status = "ready"
                  /\ e.task[p].status \in {d.task[p].status, "ready"}
<1> DEFINE kids  == Subtasks(d, p)
           ended == {t \in kids : d.task[t].status \in {"ready", "error"}}
           e     == UpdateParent(d, p)
<1>0. kids \subseteq TaskId /\ p \notin kids
  BY DEF Subtasks
<1>1. CASE \A t \in kids : d.task[t].status = "ready"
  <2>1. e = UpdateOne(d, p, "ready")
    BY <1>1 DEF UpdateParent
  <2>2. "ready" \in TaskStatuses
    BY DEF TaskStatuses
  <2> HIDE DEF kids, e
  <2> QED BY <1>0, <1>1, <2>1, <2>2, UpdateOneRows DEF kids, e
<1>2. CASE /\ ~ \A t \in kids : d.task[t].status = "ready"
           /\ \E t \in kids : d.task[t].status = "error"
  <2> DEFINE d1 == SetStatus(d, kids \ ended, "error")
  <2>0. "error" \in TaskStatuses
    BY DEF TaskStatuses
  <2>1. e = UpdateOne(d1, p, "error")
    BY <1>2 DEF UpdateParent
  <2>2. /\ SameShape(d, d1)
        /\ \A u \in TaskId : d1.task[u].status =
              IF u \in kids \ ended THEN "error" ELSE d.task[u].status
    BY <2>0, SetStatusRows
  <2> HIDE DEF d1
  <2>3. /\ SameShape(d1, e)
        /\ \A u \in TaskId : e.task[u].status =
              IF u = p THEN "error" ELSE d1.task[u].status
    BY <2>0, <2>1, <2>2, UpdateOneRows DEF SameShape
  <2>4. SameShape(d, e)
    BY <2>2, <2>3 DEF SameShape
  <2>5. \A u \in kids : u \in kids \ ended \/ d.task[u].status \in {"ready", "error"}
    OBVIOUS
  <2>6. \A u \in kids : d.task[u].status = "error" => u \notin kids \ ended
    OBVIOUS
  <2> HIDE DEF kids, ended, e
  <2>7. \A u \in kids : /\ e.task[u].status = d1.task[u].status
                        /\ e.task[u].status \in {d.task[u].status, "error"}
                        /\ e.task[u].status # "running"
                        /\ d.task[u].status = "error" => e.task[u].status = "error"
    BY <1>0, <2>2, <2>3, <2>5, <2>6
  <2>8. \A u \in TaskId \ (kids \cup {p}) : e.task[u].status = d.task[u].status
    BY <2>2, <2>3
  <2>9. e.task[p].status = "error"
    BY <2>3
  <2> QED BY <1>0, <1>2, <2>4, <2>7, <2>8, <2>9 DEF kids, e
<1>3. CASE /\ ~ \A t \in kids : d.task[t].status = "ready"
           /\ ~ \E t \in kids : d.task[t].status = "error"
  <2>1. e = d
    BY <1>3 DEF UpdateParent
  <2>2. SameShape(d, d)
    BY DEF SameShape
  <2> HIDE DEF kids, e
  <2> QED BY <1>0, <1>3, <2>1, <2>2 DEF kids, e
<1> QED BY <1>1, <1>2, <1>3

------------------------------------------------------------------------------
(***************************************************************************)
(* Consistency is preserved.                                               *)
(***************************************************************************)

LEMMA SameTasksGood ==
  ASSUME NEW d, NEW e, Good(d), SameTasks(d, e)
  PROVE  Good(e) /\ Follows(d, e)
<1>1. \A p \in TaskId : Subtasks(e, p) = Subtasks(d, p)
  BY DEF SameTasks, Subtasks, Exists
<1>2. Agrees(e)
  BY <1>1 DEF Good, Agrees, AgreesAt, SameTasks
<1>3. Shape(e) /\ Gone(e)
  BY DEF Good, Shape, Gone, SameTasks
<1>4. Follows(d, e)
  <2>1. d.seq \in 0 .. MaxTask
    BY DEF Good, Database
  <2> QED BY <2>1, MaxTaskAssumption DEF SameTasks, Follows
<1> QED BY <1>2, <1>3, <1>4 DEF Good, SameTasks

LEMMA SameShapeSubtasks ==
  ASSUME NEW d, NEW e, SameShape(d, e)
  PROVE  \A p \in TaskId : Subtasks(e, p) = Subtasks(d, p)
BY DEF SameShape, Subtasks, Exists

\* A consistent database keeps its shape when only statuses of rows change.
LEMMA SameShapeShape ==
  ASSUME NEW d, NEW e, d \in Database, Shape(d), Gone(d), SameShape(d, e),
         \A t \in TaskId : d.task[t].name = "none" => e.task[t].status = "none",
         \A t \in TaskId : d.task[t].name # "none" => e.task[t].status # "none"
  PROVE  Shape(e) /\ Gone(e) /\ Follows(d, e)
<1>1. Shape(e)
  <2> SUFFICES ASSUME NEW t \in TaskId
               PROVE  /\ e.task[t].name = "none" <=> e.task[t].status = "none"
                      /\ e.task[t].name # "none" => t <= e.seq
                      /\ e.task[t].parent # NoTask =>
                           /\ e.task[t].name \in SubtaskNames
                           /\ e.task[e.task[t].parent].name = "deploy"
    BY DEF Shape
  <2>1. d.task[t] \in TaskRow
    BY RowTypes
  <2>2. d.task[t].parent # NoTask => d.task[t].parent \in TaskId
    BY <2>1 DEF TaskRow
  <2> QED BY <2>2 DEF Shape, SameShape
<1>2. Gone(e)
  BY DEF Gone, SameShape
<1>3. Follows(d, e)
  <2>1. d.seq \in 0 .. MaxTask
    BY DEF Database
  <2> QED BY <2>1, MaxTaskAssumption DEF SameShape, Follows
<1> QED BY <1>1, <1>2, <1>3

\* Task.update of any task but a deploy task.
LEMMA UpdateTaskGood ==
  ASSUME NEW d, Good(d), NEW t \in TaskId, NEW st \in TaskStatuses,
         Exists(d, t), d.task[t].name # "deploy"
  PROVE  /\ Good(UpdateTask(d, t, st)) /\ Follows(d, UpdateTask(d, t, st))
         /\ SameShape(d, UpdateTask(d, t, st))
<1> DEFINE d1 == UpdateOne(d, t, st)
           p  == d.task[t].parent
           e  == UpdateTask(d, t, st)
<1>0. d \in Database /\ Shape(d) /\ Agrees(d) /\ Gone(d)
  BY DEF Good
<1>1. /\ SameShape(d, d1)
      /\ \A u \in TaskId : d1.task[u].status =
            IF u = t THEN st ELSE d.task[u].status
  BY <1>0, UpdateOneRows
<1>2. st # "none"
  BY DEF TaskStatuses
<1>3. /\ d.task[t] \in TaskRow /\ d.task[t].name # "none"
      /\ p \in TaskId \cup {NoTask}
  BY <1>0, RowTypes DEF Exists, TaskRow
<1>4. d1 \in Database
  BY <1>1 DEF SameShape
<1>5. Shape(d1) /\ Gone(d1) /\ Follows(d, d1)
  <2> HIDE DEF d1, p
  <2>1. \A u \in TaskId : d.task[u].name = "none" => d1.task[u].status = "none"
    BY <1>0, <1>1, <1>3 DEF Shape
  <2>2. \A u \in TaskId : d.task[u].name # "none" => d1.task[u].status # "none"
    BY <1>0, <1>1, <1>2 DEF Shape
  <2> QED BY <1>0, <1>1, <2>1, <2>2, SameShapeShape
<1>6. \A q \in TaskId : Subtasks(d1, q) = Subtasks(d, q)
  BY <1>1, SameShapeSubtasks
\* The update of t leaves every other pair of supertask and subtasks alone:
\* t is no deploy task, so it has no subtasks.
<1>7. \A q \in TaskId : t \notin Subtasks(d, q) => AgreesAt(d1, q)
  <2> SUFFICES ASSUME NEW q \in TaskId, t \notin Subtasks(d, q),
                      Subtasks(d, q) # {}
               PROVE  AgreesAt(d1, q)
    BY <1>6 DEF AgreesAt
  <2>1. \A u \in Subtasks(d, q) : u \in TaskId /\ d.task[u].parent = q /\ u # t
    BY DEF Subtasks
  <2>2. q # NoTask
    BY DEF TaskId, NoTask
  <2>3. d.task[q].name = "deploy"
    BY <2>1, <2>2, <1>0 DEF Shape
  <2>4. q # t
    BY <2>3
  <2>5. AgreesAt(d, q)
    BY <1>0 DEF Agrees
  <2> HIDE DEF d1
  <2>6. /\ d1.task[q].status = d.task[q].status
        /\ \A u \in Subtasks(d, q) : d1.task[u].status = d.task[u].status
    BY <2>1, <2>4, <1>1
  <2> QED BY <2>5, <2>6, <1>6 DEF AgreesAt
<1>8. CASE p = NoTask
  <2>1. e = d1
    BY <1>8 DEF UpdateTask
  <2>2. \A q \in TaskId : t \notin Subtasks(d, q)
    BY <1>8 DEF Subtasks, TaskId, NoTask
  <2> HIDE DEF d1, e, p
  <2> QED BY <1>1, <1>4, <1>5, <1>7, <2>1, <2>2 DEF Good, Agrees, e
<1>9. CASE p # NoTask
  <2>0. p \in TaskId
    BY <1>3, <1>9
  <2>1. e = UpdateParent(d1, p)
    BY <1>9 DEF UpdateTask
  <2> DEFINE kids == Subtasks(d1, p)
  <2>2. kids = Subtasks(d, p) /\ kids \subseteq TaskId
    BY <1>6, <2>0 DEF Subtasks
  <2>3. d.task[p].name = "deploy"
    BY <1>0, <1>9 DEF Shape
  <2>3a. d1.task[p].name = "deploy"
    BY <2>3, <2>0, <1>1 DEF SameShape
  <2>4. d1.task[p].parent = NoTask
    BY <2>3a, <2>0, <1>5 DEF Shape, SubtaskNames, Checks
  <2>5. p \notin kids
    BY <2>4, <2>0 DEF Subtasks, TaskId, NoTask
  <2>6. /\ SameShape(d1, e)
        /\ \A u \in TaskId \ (kids \cup {p}) :
              e.task[u].status = d1.task[u].status
        /\ \A u \in kids :
              e.task[u].status \in {d1.task[u].status, "error"}
        /\ (\E u \in kids : d1.task[u].status = "error") =>
              /\ e.task[p].status = "error"
              /\ \A u \in kids : e.task[u].status # "running"
              /\ \E u \in kids : e.task[u].status = "error"
        /\ (\A u \in kids : d1.task[u].status # "error") =>
              /\ \A u \in kids : e.task[u].status = d1.task[u].status
              /\ (\A u \in kids : d1.task[u].status = "ready")
                    => e.task[p].status = "ready"
              /\ e.task[p].status \in {d1.task[p].status, "ready"}
    <3> HIDE DEF d1, e, p
    <3>1. p \notin Subtasks(d1, p)
      BY <2>5
    <3> QED BY <1>4, <2>0, <2>1, <3>1, UpdateParentRows
  <2>7. \A q \in TaskId : Subtasks(e, q) = Subtasks(d1, q)
    BY <2>6, SameShapeSubtasks
  <2>8. e \in Database
    BY <2>6 DEF SameShape
  <2> HIDE DEF d1, e
  <2>9. AgreesAt(e, p)
    <3> HIDE DEF kids, p
    <3>1. Subtasks(e, p) = kids
      BY <2>7, <2>0 DEF kids
    <3>2. CASE \E u \in kids : d1.task[u].status = "error"
      BY <3>1, <3>2, <2>6 DEF AgreesAt
    <3>3. CASE \A u \in kids : d1.task[u].status # "error"
      BY <3>1, <3>3, <2>6 DEF AgreesAt
    <3> QED BY <3>2, <3>3
  <2>10. \A q \in TaskId \ {p} : AgreesAt(e, q)
    <3> SUFFICES ASSUME NEW q \in TaskId \ {p}, Subtasks(d1, q) # {}
                 PROVE  AgreesAt(e, q)
      BY <2>7 DEF AgreesAt
    <3>1. t \notin Subtasks(d, q)
      BY DEF Subtasks
    <3>2. AgreesAt(d1, q)
      BY <3>1, <1>7
    <3>3. \A u \in Subtasks(d1, q) : u \in TaskId /\ d1.task[u].parent = q
      BY DEF Subtasks
    <3>4. q # NoTask
      BY DEF TaskId, NoTask
    <3>5. d1.task[q].name = "deploy"
      BY <3>3, <3>4, <1>5 DEF Shape
    <3>6. d1.task[q].parent = NoTask
      BY <3>5, <1>5 DEF Shape, SubtaskNames, Checks
    <3>7. q \notin kids
      BY <3>6, <1>9 DEF Subtasks
    <3>8. \A u \in Subtasks(d1, q) : u \in TaskId \ (kids \cup {p})
      <4>1. \A u \in Subtasks(d1, q) : u \notin kids
        BY <3>3 DEF Subtasks
      <4>2. p \notin Subtasks(d1, q)
        BY <2>4, <3>3, <3>4
      <4> QED BY <4>1, <4>2, <3>3
    <3> HIDE DEF kids, p
    <3>9. /\ e.task[q].status = d1.task[q].status
          /\ \A u \in Subtasks(d1, q) : e.task[u].status = d1.task[u].status
      BY <2>6, <3>7, <3>8
    <3> QED BY <3>2, <3>9, <2>7 DEF AgreesAt
  <2>11. Shape(e) /\ Gone(e) /\ Follows(d1, e)
    <3> HIDE DEF p
    <3>1. \A u \in TaskId : d1.task[u].name = "none" => e.task[u].status = "none"
      <4> SUFFICES ASSUME NEW u \in TaskId, d1.task[u].name = "none"
                   PROVE  e.task[u].status = "none"
        OBVIOUS
      <4>1. u # p
        BY <2>3a
      <4>2. u \notin kids
        BY DEF Subtasks, Exists
      <4>3. d1.task[u].status = "none"
        BY <1>5 DEF Shape
      <4> HIDE DEF kids
      <4> QED BY <2>6, <4>1, <4>2, <4>3
    <3>2. \A u \in TaskId : d1.task[u].name # "none" => e.task[u].status # "none"
      <4> HIDE DEF kids
      <4>1. \A u \in TaskId : d1.task[u].name # "none" => d1.task[u].status # "none"
        BY <1>5 DEF Shape
      <4>2. d1.task[p].name # "none"
        BY <2>3a
      <4> QED BY <2>0, <2>2, <2>6, <4>1, <4>2
    <3> QED BY <1>4, <1>5, <2>6, <3>1, <3>2, SameShapeShape
  <2>12. SameShape(d, e)
    BY <1>1, <2>6 DEF SameShape
  <2>13. Follows(d, e)
    <3>1. d.seq \in 0 .. MaxTask
      BY <1>0 DEF Database
    <3> QED BY <3>1, <2>12, MaxTaskAssumption DEF SameShape, Follows
  <2>14. Agrees(e)
    <3> HIDE DEF p
    <3> QED BY <2>9, <2>10 DEF Agrees
  <2> QED BY <2>8, <2>11, <2>12, <2>13, <2>14 DEF Good, e
<1> QED BY <1>8, <1>9

\* A new top-level task, or a new subtask of a deploy task.
LEMMA CreateTaskGood ==
  ASSUME NEW d, Good(d), d.seq < MaxTask, d.cluster # "deleted",
         NEW name \in SubtaskNames \cup TopNames, NEW parent \in TaskId \cup {NoTask},
         parent # NoTask => name \in SubtaskNames /\ d.task[parent].name = "deploy"
  PROVE  LET e == CreateTask(d, name, parent)
         IN /\ Good(e) /\ Follows(d, e)
            /\ e.seq = d.seq + 1 /\ e.seq \in TaskId
            /\ e.cluster = d.cluster
            /\ e.task[e.seq] = [name |-> name, status |-> "running",
                                parent |-> parent]
            /\ \A t \in TaskId : t # e.seq => e.task[t] = d.task[t]
<1> DEFINE e    == CreateTask(d, name, parent)
           new  == d.seq + 1
           row  == [name |-> name, status |-> "running", parent |-> parent]
           rows == [d.task EXCEPT ![new] = row]
<1>0. d \in Database /\ Shape(d) /\ Agrees(d) /\ Gone(d)
  BY DEF Good
<1>1. d.seq \in 0 .. MaxTask /\ d.task \in [TaskId -> TaskRow]
  BY <1>0 DEF Database
<1>2. new \in TaskId /\ new \in 0 .. MaxTask
  BY <1>1, MaxTaskAssumption DEF TaskId
<1>3. row \in TaskRow
  BY DEF TaskRow, TaskStatuses
<1>4. rows \in [TaskId -> TaskRow]
  BY <1>1, <1>2, <1>3
<1>5. /\ e.task = rows /\ e.seq = new /\ e.cluster = d.cluster
      /\ e \in Database
  <2>1. e = [d EXCEPT !.seq = new, !.task = rows]
    BY DEF CreateTask
  <2> HIDE DEF rows, new, e
  <2> QED BY <1>0, <1>2, <1>4, <2>1 DEF Database
<1>6. /\ rows[new] = row
      /\ \A t \in TaskId : t # new => rows[t] = d.task[t]
  BY <1>1, <1>2
<1> HIDE DEF e, rows
<1>7. /\ row.name = name /\ row.status = "running" /\ row.parent = parent
  OBVIOUS
\* Nothing refers to the new identifier: the row of a parent is a deploy row.
<1>8. d.task[new].name = "none"
  BY <1>0, <1>1, <1>2, MaxTaskAssumption DEF Shape, TaskId
<1>9. \A t \in TaskId : d.task[t].parent # new
  <2>1. new # NoTask
    BY <1>2 DEF TaskId, NoTask
  <2> QED BY <2>1, <1>8, <1>0 DEF Shape
<1>10. parent # new
  <2>1. new # NoTask
    BY <1>2 DEF TaskId, NoTask
  <2> QED BY <1>8, <2>1
<1>11. \A t \in TaskId : d.task[t].parent \in TaskId \cup {NoTask}
  BY <1>0, RowTypes DEF TaskRow
<1>12. name # "none"
  BY DEF SubtaskNames, TopNames, Checks
<1>13. Shape(e)
  <2> SUFFICES ASSUME NEW t \in TaskId
               PROVE  /\ rows[t].name = "none" <=> rows[t].status = "none"
                      /\ rows[t].name # "none" => t <= new
                      /\ rows[t].parent # NoTask =>
                           /\ rows[t].name \in SubtaskNames
                           /\ rows[rows[t].parent].name = "deploy"
    BY <1>5 DEF Shape
  <2> HIDE DEF row
  <2>1. CASE t = new
    <3>1. parent # NoTask => rows[parent].name = "deploy" /\ name \in SubtaskNames
      <4> HIDE DEF new
      <4> QED BY <1>6, <1>10
    <3> QED BY <2>1, <1>6, <1>7, <1>12, <1>2, <3>1 DEF TaskId
  <2>2. CASE t # new
    <3>1. rows[t] = d.task[t]
      BY <2>2, <1>6
    <3>2. d.task[t].name # "none" => t <= new
      BY <1>0, <1>1, MaxTaskAssumption DEF Shape, TaskId
    <3>3. d.task[t].parent # NoTask =>
            /\ d.task[t].name \in SubtaskNames
            /\ rows[d.task[t].parent].name = "deploy"
      BY <1>0, <1>6, <1>9, <1>11 DEF Shape
    <3> QED BY <1>0, <3>1, <3>2, <3>3 DEF Shape
  <2> QED BY <2>1, <2>2
<1>14. Gone(e)
  BY <1>5 DEF Gone
<1>15. Agrees(e)
  <2> SUFFICES ASSUME NEW p \in TaskId, Subtasks(e, p) # {}
               PROVE  AgreesAt(e, p)
    BY DEF Agrees, AgreesAt
  <2> HIDE DEF new, row
  <2>1. Subtasks(e, p) = IF p = parent THEN Subtasks(d, p) \cup {new}
                                       ELSE Subtasks(d, p)
    BY <1>2, <1>5, <1>6, <1>7, <1>8, <1>12 DEF Subtasks, Exists
  <2>2. \A u \in Subtasks(d, p) : u \in TaskId /\ u # new
    BY <1>8 DEF Subtasks, Exists
  <2>3. p # new
    BY <1>10, <2>1, <1>9 DEF Subtasks
  <2>4. /\ e.task[p] = d.task[p]
        /\ \A u \in Subtasks(d, p) : e.task[u] = d.task[u]
        /\ e.task[new].status = "running"
    BY <1>5, <1>6, <1>7, <2>2, <2>3
  <2>5. AgreesAt(d, p)
    BY <1>0 DEF Agrees
  <2> QED BY <2>1, <2>4, <2>5 DEF AgreesAt
<1>16. Follows(d, e)
  <2>1. d.seq <= new /\ ~ (new <= d.seq)
    BY <1>1, MaxTaskAssumption
  <2> HIDE DEF new
  <2> QED BY <1>5, <1>6, <2>1 DEF Follows
<1> HIDE DEF new, row
<1> QED BY <1>2, <1>5, <1>6, <1>13, <1>14, <1>15, <1>16 DEF Good, e, new, row

\* A set of tasks whose subtasks go only with their supertasks.
LEMMA DeleteTasksGood ==
  ASSUME NEW d, Good(d), NEW S \in SUBSET TaskId,
         \A t \in S : d.task[t].parent = NoTask \/ d.task[t].parent \in S
  PROVE  LET e == DeleteTasks(d, S)
         IN /\ Good(e) /\ Follows(d, e)
            /\ e.seq = d.seq /\ e.cluster = d.cluster /\ e.node = d.node
            /\ \A t \in TaskId : e.task[t] \in {d.task[t], NoRow}
            /\ \A t \in TaskId \ S :
                 d.task[t].parent = NoTask => e.task[t] = d.task[t]
            /\ \A t \in S : e.task[t] = NoRow
<1> DEFINE e    == DeleteTasks(d, S)
           rows == [t \in TaskId |->
                      IF t \in S \/ d.task[t].parent \in S THEN NoRow ELSE d.task[t]]
<1>0. d \in Database /\ Shape(d) /\ Agrees(d) /\ Gone(d)
  BY DEF Good
<1>1. NoRow \in TaskRow
  BY DEF NoRow, TaskRow
<1>2. rows \in [TaskId -> TaskRow]
  BY <1>0, <1>1, RowTypes
<1>3. e = SetTasks(d, rows)
  BY DEF DeleteTasks
<1>4. \A t \in TaskId : rows[t] = IF t \in S \/ d.task[t].parent \in S
                                  THEN NoRow ELSE d.task[t]
  OBVIOUS
<1> HIDE DEF rows, e
<1>5. /\ e \in Database /\ e.task = rows /\ e.seq = d.seq
      /\ e.cluster = d.cluster /\ e.node = d.node
  BY <1>0, <1>2, <1>3, SetTasksType
<1>6. /\ NoRow.name = "none" /\ NoRow.status = "none" /\ NoRow.parent = NoTask
  BY DEF NoRow
<1>7. NoTask \notin TaskId
  BY DEF NoTask, TaskId
<1>8. Shape(e)
  <2> SUFFICES ASSUME NEW t \in TaskId
               PROVE  /\ rows[t].name = "none" <=> rows[t].status = "none"
                      /\ rows[t].name # "none" => t <= d.seq
                      /\ rows[t].parent # NoTask =>
                           /\ rows[t].name \in SubtaskNames
                           /\ rows[rows[t].parent].name = "deploy"
    BY <1>5 DEF Shape
  <2>1. CASE rows[t] = NoRow
    BY <2>1, <1>6
  <2>2. CASE rows[t] = d.task[t] /\ t \notin S /\ d.task[t].parent \notin S
    <3> DEFINE p == d.task[t].parent
    <3>1. p \in TaskId \cup {NoTask}
      BY <1>0, RowTypes DEF TaskRow
    <3>2. p # NoTask => d.task[p].name = "deploy"
      BY <1>0 DEF Shape
    <3>3. p # NoTask => d.task[p].parent = NoTask
      BY <1>0, <3>1, <3>2 DEF Shape, SubtaskNames, Checks
    <3>4. p # NoTask => rows[p] = d.task[p]
      BY <1>4, <1>7, <2>2, <3>1, <3>3
    <3> QED BY <1>0, <2>2, <3>2, <3>4 DEF Shape
  <2> QED BY <1>4, <2>1, <2>2
<1>9. Gone(e)
  BY <1>0, <1>4, <1>5, <1>6 DEF Gone
<1>10. Agrees(e)
  <2> SUFFICES ASSUME NEW p \in TaskId, Subtasks(e, p) # {}
               PROVE  AgreesAt(e, p)
    BY DEF Agrees, AgreesAt
  <2>1. PICK t \in TaskId : rows[t].name # "none" /\ rows[t].parent = p
    BY <1>5 DEF Subtasks, Exists
  <2>2. rows[t] = d.task[t] /\ p \notin S
    BY <1>4, <1>6, <2>1
  <2>3. d.task[p].name = "deploy"
    BY <1>0, <1>7, <2>1, <2>2 DEF Shape
  <2>4. d.task[p].parent = NoTask
    BY <1>0, <2>3 DEF Shape, SubtaskNames, Checks
  <2>5. rows[p] = d.task[p]
    BY <1>4, <1>7, <2>2, <2>4
  <2>6. \A u \in TaskId : d.task[u].parent = p => rows[u] = d.task[u]
    BY <1>4, <1>7, <2>2
  <2>7. Subtasks(e, p) = Subtasks(d, p)
    BY <1>4, <1>5, <1>6, <1>7, <2>6 DEF Subtasks, Exists
  <2>8. \A u \in Subtasks(d, p) : e.task[u] = d.task[u]
    BY <1>5, <2>6 DEF Subtasks
  <2>9. AgreesAt(d, p)
    BY <1>0 DEF Agrees
  <2> QED BY <1>5, <2>5, <2>7, <2>8, <2>9 DEF AgreesAt
<1>11. Follows(d, e)
  <2>1. d.seq <= d.seq
    <3>1. d.seq \in 0 .. MaxTask
      BY <1>0 DEF Database
    <3> QED BY <3>1, MaxTaskAssumption
  <2> QED BY <1>4, <1>5, <1>6, <2>1 DEF Follows
<1>12. \A t \in TaskId \ S : d.task[t].parent = NoTask => rows[t] = d.task[t]
  BY <1>4, <1>7
<1> QED BY <1>4, <1>5, <1>8, <1>9, <1>10, <1>11, <1>12 DEF Good, e

\* Passed checks may go when another subtask still runs: their supertask is
\* not done without them.
LEMMA DropChecksGood ==
  ASSUME NEW d, Good(d), NEW p \in TaskId, NEW u \in Subtasks(d, p),
         d.task[u].status = "running", d.task[u].name # "check_networks"
  PROVE  LET e == DropChecks(d, p)
         IN /\ Good(e) /\ Follows(d, e)
            /\ e.seq = d.seq /\ e.cluster = d.cluster
            /\ e.task[u] = d.task[u]
<1> DEFINE S    == {t \in Subtasks(d, p) : d.task[t].name = "check_networks"}
           e    == DropChecks(d, p)
           rows == [t \in TaskId |->
                      IF t \in S \/ d.task[t].parent \in S THEN NoRow ELSE d.task[t]]
<1>0. d \in Database /\ Shape(d) /\ Agrees(d) /\ Gone(d)
  BY DEF Good
<1>1. NoRow \in TaskRow
  BY DEF NoRow, TaskRow
<1>2. rows \in [TaskId -> TaskRow]
  BY <1>0, <1>1, RowTypes
<1>3. e = SetTasks(d, rows)
  BY DEF DeleteTasks, DropChecks
<1>4. NoTask \notin TaskId
  BY DEF NoTask, TaskId
<1>5. S \subseteq TaskId /\ u \in TaskId /\ u \notin S
  BY DEF Subtasks
<1>6. \A t \in TaskId : d.task[t].parent \notin S
  BY <1>0, <1>4, <1>5 DEF Shape
<1>7. \A t \in TaskId : rows[t] = IF t \in S THEN NoRow ELSE d.task[t]
  BY <1>6
<1> HIDE DEF rows, e
<1>8. /\ e \in Database /\ e.task = rows /\ e.seq = d.seq /\ e.cluster = d.cluster
  BY <1>0, <1>2, <1>3, SetTasksType
<1>9. /\ NoRow.name = "none" /\ NoRow.status = "none" /\ NoRow.parent = NoTask
  BY DEF NoRow
\* Supertasks stay.
<1>10. \A q \in TaskId : d.task[q].name = "deploy" => rows[q] = d.task[q]
  BY <1>7
<1>11. \A t \in TaskId : d.task[t].parent \in TaskId \cup {NoTask}
  BY <1>0, RowTypes DEF TaskRow
<1>12. Shape(e)
  <2> SUFFICES ASSUME NEW t \in TaskId
               PROVE  /\ rows[t].name = "none" <=> rows[t].status = "none"
                      /\ rows[t].name # "none" => t <= d.seq
                      /\ rows[t].parent # NoTask =>
                           /\ rows[t].name \in SubtaskNames
                           /\ rows[rows[t].parent].name = "deploy"
    BY <1>8 DEF Shape
  <2>1. CASE rows[t] = NoRow
    BY <2>1, <1>9
  <2>2. CASE rows[t] = d.task[t]
    BY <1>0, <1>10, <1>11, <2>2 DEF Shape
  <2> QED BY <1>7, <2>1, <2>2
<1>13. Gone(e)
  BY <1>0, <1>7, <1>8, <1>9 DEF Gone
<1>14. \A q \in TaskId : Subtasks(e, q) = Subtasks(d, q) \ S
  BY <1>4, <1>7, <1>8, <1>9 DEF Subtasks, Exists
<1>15. Agrees(e)
  <2> SUFFICES ASSUME NEW q \in TaskId, Subtasks(e, q) # {}
               PROVE  AgreesAt(e, q)
    BY DEF Agrees, AgreesAt
  <2> HIDE DEF S
  <2>1. \A t \in Subtasks(e, q) : t \in Subtasks(d, q) /\ e.task[t] = d.task[t]
    BY <1>7, <1>8, <1>14 DEF Subtasks
  <2>2. e.task[q] = d.task[q]
    BY <1>0, <1>4, <1>8, <1>10, <2>1 DEF Shape, Subtasks
  <2>3. AgreesAt(d, q) /\ Subtasks(d, q) # {}
    BY <1>0, <2>1 DEF Agrees
  <2>4. CASE q = p
    <3>1. u \in Subtasks(e, p) /\ e.task[u].status # "ready"
      BY <1>5, <1>7, <1>8, <1>14
    <3> QED BY <2>1, <2>2, <2>3, <2>4, <3>1 DEF AgreesAt
  <2>5. CASE q # p
    <3>1. Subtasks(e, q) = Subtasks(d, q)
      BY <1>14, <2>5 DEF S, Subtasks
    <3> QED BY <2>1, <2>2, <2>3, <3>1 DEF AgreesAt
  <2> QED BY <2>4, <2>5
<1>16. Follows(d, e)
  <2>1. d.seq <= d.seq
    <3>1. d.seq \in 0 .. MaxTask
      BY <1>0 DEF Database
    <3> QED BY <3>1, MaxTaskAssumption
  <2> QED BY <1>7, <1>8, <1>9, <2>1 DEF Follows
<1> QED BY <1>5, <1>7, <1>8, <1>12, <1>13, <1>15, <1>16 DEF Good, e

------------------------------------------------------------------------------
(***************************************************************************)
(* The handlers of NailgunReceiver.                                        *)
(***************************************************************************)

\* The tasks that a reply of each method answers for.
Answered ==
  [m \in Methods |->
     CASE m = "provision" -> {"provision"}
       [] m = "deploy" -> {"deployment", "update"}
       [] m = "remove_nodes" -> {"node_deletion"}
       [] m = "remove_cluster" -> {"cluster_deletion"}
       [] m = "stop_deploy_task" -> {"stop_deployment"}
       [] m = "reset_environment" -> {"reset_environment"}]

\* Identifier t was given out to a task with one of these names.
Is(d, t, names) == t <= d.seq /\ d.task[t].name \in names \cup {"none"}

LEMMA FollowsReflexive ==
  ASSUME NEW d \in Database
  PROVE  Follows(d, d)
<1>1. d.seq \in 0 .. MaxTask
  BY DEF Database
<1> QED BY <1>1, MaxTaskAssumption DEF Follows

LEMMA FollowsTransitive ==
  ASSUME NEW d \in Database, NEW e \in Database, NEW f \in Database,
         Follows(d, e), Follows(e, f)
  PROVE  Follows(d, f)
<1>1. d.seq \in Int /\ e.seq \in Int /\ f.seq \in Int
  BY MaxTaskAssumption DEF Database
<1>2. \A t \in TaskId : t \in Int
  BY DEF TaskId
<1> QED BY <1>1, <1>2 DEF Follows

LEMMA IsPreserved ==
  ASSUME NEW d \in Database, NEW e \in Database, Follows(d, e),
         NEW t \in TaskId, NEW names, Is(d, t, names)
  PROVE  Is(e, t, names)
<1>1. d.seq \in Int /\ e.seq \in Int /\ t \in Int
  BY MaxTaskAssumption DEF Database, TaskId
<1> QED BY <1>1 DEF Is, Follows

\* A new task without and with a supertask.
LEMMA NewTopTask ==
  ASSUME NEW d, Good(d), d.seq < MaxTask, d.cluster # "deleted",
         NEW name \in SubtaskNames \cup TopNames
  PROVE  LET e == CreateTask(d, name, NoTask)
         IN /\ Good(e) /\ Follows(d, e)
            /\ d.seq + 1 \in TaskId
            /\ Is(e, d.seq + 1, {name})
            /\ e.task[d.seq + 1].name = name
<1> DEFINE e == CreateTask(d, name, NoTask)
<1>1. NoTask \in TaskId \cup {NoTask}
  OBVIOUS
<1>2. /\ Good(e) /\ Follows(d, e)
      /\ e.seq = d.seq + 1 /\ e.seq \in TaskId
      /\ e.task[e.seq] = [name |-> name, status |-> "running", parent |-> NoTask]
  BY <1>1, CreateTaskGood
<1> HIDE DEF e
<1>3. e.seq \in Int
  BY <1>2 DEF TaskId
<1> QED BY <1>2, <1>3 DEF Is, e

LEMMA NewSubtask ==
  ASSUME NEW d, Good(d), d.seq < MaxTask, d.cluster # "deleted",
         NEW name \in SubtaskNames, NEW p \in TaskId, d.task[p].name = "deploy"
  PROVE  LET e == CreateTask(d, name, p)
         IN /\ Good(e) /\ Follows(d, e)
            /\ d.seq + 1 \in TaskId
            /\ Is(e, d.seq + 1, {name})
            /\ e.task[d.seq + 1].name = name
<1> DEFINE e == CreateTask(d, name, p)
<1>1. /\ p \in TaskId \cup {NoTask} /\ name \in SubtaskNames \cup TopNames
      /\ p # NoTask
  BY DEF TaskId, NoTask
<1>2. /\ Good(e) /\ Follows(d, e)
      /\ e.seq = d.seq + 1 /\ e.seq \in TaskId
      /\ e.task[e.seq] = [name |-> name, status |-> "running", parent |-> p]
  BY <1>1, CreateTaskGood
<1> HIDE DEF e
<1>3. e.seq \in Int
  BY <1>2 DEF TaskId
<1> QED BY <1>2, <1>3 DEF Is, e

\* A new subtask that takes the place of the checks before it.
LEMMA NextSubtask ==
  ASSUME NEW d, Good(d), d.seq < MaxTask, d.cluster # "deleted",
         NEW name \in SubtaskNames \ {"check_networks"},
         NEW p \in TaskId, d.task[p].name = "deploy"
  PROVE  LET e == DropChecks(CreateTask(d, name, p), p)
         IN /\ Good(e) /\ Follows(d, e)
            /\ d.seq + 1 \in TaskId
            /\ Is(e, d.seq + 1, {name})
            /\ e.task[d.seq + 1].name = name
<1> DEFINE c == CreateTask(d, name, p)
           e == DropChecks(c, p)
<1>1. /\ p \in TaskId \cup {NoTask} /\ name \in SubtaskNames \cup TopNames
      /\ p # NoTask /\ name \in SubtaskNames /\ name # "none"
  BY DEF TaskId, NoTask, SubtaskNames, Checks
<1>2. /\ Good(c) /\ Follows(d, c)
      /\ c.seq = d.seq + 1 /\ c.seq \in TaskId
      /\ c.task[c.seq] = [name |-> name, status |-> "running", parent |-> p]
  BY <1>1, CreateTaskGood
<1> HIDE DEF c
<1>3. c.seq \in Subtasks(c, p)
  BY <1>1, <1>2 DEF Subtasks, Exists
<1>4. /\ Good(e) /\ Follows(c, e) /\ e.seq = c.seq
      /\ e.task[c.seq] = c.task[c.seq]
  BY <1>2, <1>3, DropChecksGood
<1> HIDE DEF e
<1>5. Follows(d, e)
  BY <1>2, <1>4, FollowsTransitive DEF Good
<1>6. e.seq \in Int
  BY <1>2, <1>4 DEF TaskId
<1> QED BY <1>2, <1>4, <1>5, <1>6 DEF Is, e, c

\* The node part of a handler, followed by Task.update.
LEMMA NodesThenUpdate ==
  ASSUME NEW d, Good(d), NEW e, SameTasks(d, e), NEW t \in TaskId,
         NEW st \in TaskStatuses, Exists(d, t), d.task[t].name # "deploy"
  PROVE  Good(UpdateTask(e, t, st)) /\ Follows(d, UpdateTask(e, t, st))
<1>1. Good(e) /\ Follows(d, e)
  BY SameTasksGood
<1>2. Exists(e, t) /\ e.task[t].name # "deploy"
  BY DEF SameTasks, Exists
<1>3. Good(UpdateTask(e, t, st)) /\ Follows(e, UpdateTask(e, t, st))
  BY <1>1, <1>2, UpdateTaskGood
<1> QED BY <1>1, <1>3, FollowsTransitive DEF Good

LEMMA DeployRespGood ==
  ASSUME NEW d, Good(d), NEW m \in Reply, Exists(d, m.task),
         d.task[m.task].name # "deploy"
  PROVE  Good(DeployResp(d, m)) /\ Follows(d, DeployResp(d, m))
<1> DEFINE st == IF m.status = "ready" THEN "ready" ELSE "deploying"
           d1 == SetNodeStatus(d, Known(d, m.good), st)
           d2 == NodesToError(d1, Known(d, m.bad), "deploy")
<1>0. d \in Database /\ m.task \in TaskId /\ m.status \in TaskStatuses
  BY DEF Good, Reply
<1>1. SameTasks(d, d1)
  BY <1>0, SetNodeStatusSame DEF NodeStatuses
<1>2. SameTasks(d1, d2)
  <2> HIDE DEF d1
  <2> QED BY <1>1, NodesToErrorSame DEF SameTasks, NodeErrors
<1>3. SameTasks(d, d2)
  BY <1>1, <1>2, SameTasksTransitive
<1>4. DeployResp(d, m) \in {UpdateTask(d2, m.task, "error"),
                           UpdateTask(d2, m.task, m.status)}
  BY DEF DeployResp
<1>5. "error" \in TaskStatuses
  BY DEF TaskStatuses
<1> HIDE DEF d2
<1> QED BY <1>0, <1>3, <1>4, <1>5, NodesThenUpdate

LEMMA ProvisionRespGood ==
  ASSUME NEW d, Good(d), NEW m \in Reply, Exists(d, m.task),
         d.task[m.task].name # "deploy"
  PROVE  Good(ProvisionResp(d, m)) /\ Follows(d, ProvisionResp(d, m))
<1> DEFINE st == IF m.status = "ready" THEN "provisioned" ELSE "provisioning"
           d1 == SetNodeStatus(d, Known(d, m.good), st)
           d2 == NodesToError(d1, Known(d, m.bad), "provision")
<1>0. d \in Database /\ m.task \in TaskId /\ m.status \in TaskStatuses
  BY DEF Good, Reply
<1>1. SameTasks(d, d1)
  BY <1>0, SetNodeStatusSame DEF NodeStatuses
<1>2. SameTasks(d1, d2)
  <2> HIDE DEF d1
  <2> QED BY <1>1, NodesToErrorSame DEF SameTasks, NodeErrors
<1>3. SameTasks(d, d2)
  BY <1>1, <1>2, SameTasksTransitive
<1>4. ProvisionResp(d, m) = UpdateTask(d2, m.task, m.status)
  BY DEF ProvisionResp
<1> HIDE DEF d2
<1> QED BY <1>0, <1>3, <1>4, NodesThenUpdate

LEMMA RemoveNodesRespGood ==
  ASSUME NEW d, Good(d), NEW m \in Reply, NEW removed, NEW failed,
         Exists(d, m.task), d.task[m.task].name # "deploy"
  PROVE  LET e == RemoveNodesResp(d, m, removed, failed)
         IN Good(e) /\ Follows(d, e)
<1> DEFINE d1 == DeleteNodes(d, removed)
           d2 == KeepFailed(d1, failed)
<1>0. d \in Database /\ m.task \in TaskId /\ m.status \in TaskStatuses
  BY DEF Good, Reply
<1>1. SameTasks(d, d1)
  BY <1>0, DeleteNodesSame
<1>2. SameTasks(d1, d2)
  <2> HIDE DEF d1
  <2> QED BY <1>1, KeepFailedSame DEF SameTasks
<1>3. SameTasks(d, d2)
  BY <1>1, <1>2, SameTasksTransitive
<1>4. RemoveNodesResp(d, m, removed, failed) = UpdateTask(d2, m.task, m.status)
  BY DEF RemoveNodesResp
<1> HIDE DEF d2
<1> QED BY <1>0, <1>3, <1>4, NodesThenUpdate

LEMMA DeleteClusterGood ==
  ASSUME NEW d, Good(d)
  PROVE  Good(DeleteCluster(d)) /\ Follows(d, DeleteCluster(d))
<1> DEFINE d1 == DeleteNodes(d, ClusterNodes(d))
           d2 == DeleteTasks(d1, TaskId)
           e  == SetCluster(d2, "deleted")
<1>1. SameTasks(d, d1)
  BY DeleteNodesSame DEF Good
<1> HIDE DEF d1
<1>2. Good(d1) /\ Follows(d, d1)
  BY <1>1, SameTasksGood
<1>3. \A t \in TaskId : d1.task[t].parent \in TaskId \cup {NoTask}
  BY <1>2, RowTypes DEF Good, TaskRow
<1>4. /\ Good(d2) /\ Follows(d1, d2)
      /\ \A t \in TaskId : d2.task[t] = NoRow
  BY <1>2, <1>3, DeleteTasksGood
<1> HIDE DEF d2
<1>5. e \in Database /\ e.task = d2.task /\ e.seq = d2.seq
  BY <1>4 DEF Good, Database, SetCluster, ClusterStatuses
<1>6. \A p \in TaskId : Subtasks(e, p) = {}
  BY <1>4, <1>5 DEF Subtasks, Exists, NoRow
<1>7. Good(e)
  <2>1. Agrees(e)
    BY <1>6 DEF Agrees, AgreesAt
  <2>2. Shape(e) /\ Gone(e)
    BY <1>4, <1>5 DEF Shape, Gone, NoRow
  <2> QED BY <1>5, <2>1, <2>2 DEF Good
<1>8. Follows(d2, e)
  BY <1>4, <1>5, FollowsReflexive DEF Good, Follows
<1>9. DeleteCluster(d) = e
  BY DEF DeleteCluster, d1, d2
<1> HIDE DEF e
<1> QED BY <1>2, <1>4, <1>7, <1>8, <1>9, FollowsTransitive DEF Good

LEMMA RemoveClusterRespGood ==
  ASSUME NEW d, Good(d), NEW m \in Reply, NEW removed, NEW failed,
         Exists(d, m.task), d.task[m.task].name # "deploy"
  PROVE  LET e == RemoveClusterResp(d, m, removed, failed)
         IN Good(e) /\ Follows(d, e)
<1> DEFINE d1 == RemoveNodesResp(d, m, removed, failed)
<1>1. Good(d1) /\ Follows(d, d1)
  BY RemoveNodesRespGood
<1> HIDE DEF d1
<1>2. Good(DeleteCluster(d1)) /\ Follows(d1, DeleteCluster(d1))
  BY <1>1, DeleteClusterGood
<1>3. Good(SetCluster(d1, "error")) /\ Follows(d1, SetCluster(d1, "error"))
  <2>1. SameTasks(d1, SetCluster(d1, "error"))
    BY <1>1, SetClusterSame DEF Good, ClusterStatuses
  <2> QED BY <1>1, <2>1, SameTasksGood
<1>4. RemoveClusterResp(d, m, removed, failed)
        \in {DeleteCluster(d1), SetCluster(d1, "error"), d1}
  BY DEF RemoveClusterResp, d1
<1> QED BY <1>1, <1>2, <1>3, <1>4, FollowsTransitive DEF Good

LEMMA StopDeploymentRespGood ==
  ASSUME NEW d, Good(d), NEW m \in Reply, Exists(d, m.task),
         d.task[m.task].name = "stop_deployment"
  PROVE  Good(StopDeploymentResp(d, m)) /\ Follows(d, StopDeploymentResp(d, m))
<1>0. d \in Database /\ m.task \in TaskId /\ m.status \in TaskStatuses
  BY DEF Good, Reply
<1>1. CASE m.status # "ready"
  <2>1. StopDeploymentResp(d, m) = UpdateTask(d, m.task, m.status)
    BY <1>1 DEF StopDeploymentResp
  <2> QED BY <1>0, <2>1, UpdateTaskGood
<1>2. CASE m.status = "ready"
  <2> DEFINE d1 == SetCluster(d, "stopped")
             S  == StoppedTasks(d)
             d2 == DeleteTasks(d1, S)
             d3 == ResetToDiscover(d2, m.good \cap ClusterNodes(d))
  <2>1. SameTasks(d, d1)
    BY <1>0, SetClusterSame DEF ClusterStatuses
  <2>2. Good(d1) /\ Follows(d, d1) /\ d1.task = d.task
    BY <2>1, SameTasksGood DEF SameTasks
  <2> HIDE DEF d1
  <2>3. S \subseteq TaskId
    BY DEF StoppedTasks, Named
  <2>4. \A t \in S : d1.task[t].parent = NoTask \/ d1.task[t].parent \in S
    <3> SUFFICES ASSUME NEW t \in S, d.task[t].parent # NoTask
                 PROVE  d.task[t].parent \in S
      BY <2>2
    <3>1. d.task[t].parent \in TaskId
      BY <1>0, <2>3, RowTypes DEF TaskRow
    <3>2. d.task[d.task[t].parent].name = "deploy"
      BY <2>3 DEF Good, Shape
    <3> QED BY <3>1, <3>2 DEF StoppedTasks, Named
  <2>5. m.task \notin S
    BY DEF StoppedTasks, Named
  <2>6. d.task[m.task].parent = NoTask
    BY <1>0 DEF Good, Shape, SubtaskNames, Checks
  <2>7. /\ Good(d2) /\ Follows(d1, d2)
        /\ d2.task[m.task] = d.task[m.task]
    <3> HIDE DEF S
    <3> QED BY <1>0, <2>2, <2>3, <2>4, <2>5, <2>6, DeleteTasksGood
  <2> HIDE DEF d2
  <2>8. SameTasks(d2, d3)
    BY <2>7, ResetToDiscoverSame DEF Good
  <2>9. Exists(d2, m.task) /\ d2.task[m.task].name # "deploy"
    BY <2>7 DEF Exists
  <2> HIDE DEF d3
  <2>10. "ready" \in TaskStatuses
    BY DEF TaskStatuses
  <2>11. LET e == UpdateTask(d3, m.task, "ready") IN Good(e) /\ Follows(d2, e)
    BY <1>0, <2>7, <2>8, <2>9, <2>10, NodesThenUpdate
  <2>12. StopDeploymentResp(d, m) = UpdateTask(d3, m.task, "ready")
    BY <1>2 DEF StopDeploymentResp, d3, d2, d1
  <2> QED BY <2>2, <2>7, <2>11, <2>12, FollowsTransitive DEF Good
<1> QED BY <1>1, <1>2

LEMMA ResetEnvironmentRespGood ==
  ASSUME NEW d, Good(d), NEW m \in Reply, Exists(d, m.task),
         d.task[m.task].name # "deploy"
  PROVE  Good(ResetEnvironmentResp(d, m)) /\ Follows(d, ResetEnvironmentResp(d, m))
<1> DEFINE d1 == SetCluster(d, "new")
           d2 == ResetToDiscover(d1, m.good \cap ClusterNodes(d))
<1>0. d \in Database /\ m.task \in TaskId /\ m.status \in TaskStatuses
  BY DEF Good, Reply
<1>1. SameTasks(d, d1)
  BY <1>0, SetClusterSame DEF ClusterStatuses
<1>2. SameTasks(d1, d2)
  <2> HIDE DEF d1
  <2> QED BY <1>1, ResetToDiscoverSame DEF SameTasks
<1>3. SameTasks(d, d2) /\ SameTasks(d, d)
  BY <1>0, <1>1, <1>2, SameTasksTransitive DEF SameTasks
<1>4. ResetEnvironmentResp(d, m) \in {UpdateTask(d2, m.task, "ready"),
                                     UpdateTask(d, m.task, m.status)}
  BY DEF ResetEnvironmentResp
<1>5. "ready" \in TaskStatuses
  BY DEF TaskStatuses
<1> HIDE DEF d2
<1> QED BY <1>0, <1>3, <1>4, <1>5, NodesThenUpdate

\* One delivery of a reply, whoever sent it, to a task of the kind it answers.
LEMMA OutcomesGood ==
  ASSUME NEW d, Good(d), NEW m \in Reply,
         Is(d, m.task, Answered[m.method]),
         NEW e \in Outcomes(d, m)
  PROVE  /\ Good(e) /\ Follows(d, e)
         /\ ~ Exists(d, m.task) => e = d
<1>0. m.method \in Methods /\ m.task \in TaskId
  BY DEF Reply
<1>1. CASE ~ Exists(d, m.task)
  <2>1. e = d
    BY <1>1 DEF Outcomes
  <2> QED BY <2>1, FollowsReflexive DEF Good
<1>2. CASE Exists(d, m.task)
  <2>1. d.task[m.task].name \in Answered[m.method]
    BY <1>2 DEF Is, Exists
  <2>2. d.task[m.task].name # "deploy"
    BY <2>1, <1>0 DEF Answered, Methods
  <2>3. m.method = "stop_deploy_task" => d.task[m.task].name = "stop_deployment"
    BY <2>1, <1>0 DEF Answered
  <2>4. \/ m.method = "deploy" /\ e \in {d, DeployResp(d, m)}
        \/ m.method = "provision" /\ e = ProvisionResp(d, m)
        \/ m.method = "stop_deploy_task" /\ e = StopDeploymentResp(d, m)
        \/ m.method = "reset_environment" /\ e = ResetEnvironmentResp(d, m)
        \/ \E r, f : e = RemoveNodesResp(d, m, r, f)
        \/ \E r, f : e = RemoveClusterResp(d, m, r, f)
    <3>1. CASE m.method \in {"deploy", "provision", "stop_deploy_task",
                             "reset_environment"}
      BY <1>2, <3>1 DEF Outcomes, DeployOutcome
    <3>2. CASE m.method = "remove_nodes"
      BY <1>2, <3>2 DEF Outcomes
    <3>3. CASE m.method = "remove_cluster"
      BY <1>2, <3>3 DEF Outcomes
    <3> QED BY <1>0, <3>1, <3>2, <3>3 DEF Methods
  <2>5. Good(d) /\ Follows(d, d)
    BY FollowsReflexive DEF Good
  <2> QED BY <1>2, <2>2, <2>3, <2>4, <2>5, DeployRespGood, ProvisionRespGood,
             StopDeploymentRespGood, ResetEnvironmentRespGood,
             RemoveNodesRespGood, RemoveClusterRespGood
<1> QED BY <1>1, <1>2

=============================================================================
