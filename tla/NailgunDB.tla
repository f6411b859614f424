------------------------------ MODULE NailgunDB ------------------------------
(***************************************************************************)
(* The rows of the PostgreSQL database that one environment (cluster) of   *)
(* Nailgun shares between the REST workers and the RPC consumer, and the   *)
(* ORM-level operations both of them apply to those rows: Task.update with *)
(* its propagation to the supertask and to the cluster, the selection of   *)
(* the nodes to delete, provision and deploy, and the resetting of nodes.  *)
(*                                                                         *)
(* A database value is a record d; every operator maps a database value    *)
(* to a database value, so that a transaction is the composition of the    *)
(* operators it calls.                                                     *)
(***************************************************************************)
EXTENDS Integers, FiniteSets

CONSTANTS
  Node,      \* the nodes that were ever discovered
  MaxTask    \* bound: the number of task rows a behaviour may create

ASSUME MaxTaskAssumption == MaxTask \in Nat

TaskId == 1 .. MaxTask

\* The parent_id of a task that has no supertask.
NoTask == 0

------------------------------------------------------------------------------
(***************************************************************************)
(* Rows.                                                                   *)
(***************************************************************************)

Checks == {"check_networks", "check_before_deployment"}

SubtaskNames == {"node_deletion", "provision", "deployment"} \cup Checks
TopNames == {"deploy", "stop_deployment", "reset_environment",
             "cluster_deletion", "update"}

TaskStatuses == {"running", "ready", "error"}

\* "none" is the status of an identifier that has no row (any more).
TaskRow == [name   : SubtaskNames \cup TopNames \cup {"none"},
            status : TaskStatuses \cup {"none"},
            parent : TaskId \cup {NoTask}]

NoRow == [name |-> "none", status |-> "none", parent |-> NoTask]

NodeStatuses == {"discover", "provisioning", "provisioned", "deploying",
                 "ready", "error"}

NodeErrors == {"none", "deploy", "provision"}

\* pending_roles: there are roles the node has still to be given.
NodeRow == [status           : NodeStatuses \cup {"none"},
            error_type       : NodeErrors,
            pending_addition : BOOLEAN,
            pending_roles    : BOOLEAN,
            pending_deletion : BOOLEAN,
            assigned         : BOOLEAN]

NoNodeRow == [status |-> "none", error_type |-> "none",
              pending_addition |-> FALSE, pending_roles |-> FALSE,
              pending_deletion |-> FALSE, assigned |-> FALSE]

\* "deleted" stands for a cluster whose row is gone.
ClusterStatuses == {"new", "deployment", "stopped", "operational", "error",
                    "update", "update_error", "remove", "deleted"}

\* release: there is a pending_release_id, the release to update the cluster to.
\* seq is the last identifier the tasks sequence gave out.
Database == [cluster : ClusterStatuses,
             release : BOOLEAN,
             node    : [Node -> NodeRow],
             task    : [TaskId -> TaskRow],
             seq     : 0 .. MaxTask]

------------------------------------------------------------------------------
(***************************************************************************)
(* Queries.                                                                *)
(***************************************************************************)

\* Mutant: objects.Task.get_by_uuid without fail_if_not_found.
ExistsUnchecked(d, t) == t \in TaskId

Exists(d, t) == t \in TaskId /\ d.task[t].name # "none"

Named(d, names) == {t \in TaskId : d.task[t].name \in names}

Subtasks(d, p) == {t \in TaskId : Exists(d, t) /\ d.task[t].parent = p}

ClusterNodes(d) == {n \in Node : d.node[n].assigned}

NodesIn(d, statuses) == {n \in ClusterNodes(d) : d.node[n].status \in statuses}

\* Cluster.is_locked: settings are locked once the cluster was deployed.
IsLocked(d) == ~ (d.cluster \in {"new", "stopped"} /\ NodesIn(d, {"ready"}) = {})

\* Node.needs_reprovision, Node.needs_redeploy
NeedsReprovision(r) ==
  r.status = "error" /\ r.error_type = "provision" /\ ~ r.pending_deletion

NeedsRedeploy(r) ==
  /\ r.status \in {"error", "provisioned"} \/ r.pending_roles
  /\ ~ r.pending_deletion

\* TaskHelper.nodes_to_delete: needs_redeletion never holds, because no code
\* stores the error_type 'deletion'.
NodesToDelete(d) == {n \in ClusterNodes(d) : d.node[n].pending_deletion}

NodesToProvision(d) == {n \in ClusterNodes(d) : NeedsReprovision(d.node[n])}

NodesToDeploy(d) ==
  {n \in ClusterNodes(d) : \/ d.node[n].pending_addition
                           \/ NeedsReprovision(d.node[n])
                           \/ NeedsRedeploy(d.node[n])}

\* TaskHelper.nodes_to_upgrade, _node_can_be_updated
NodesToUpgrade(d) ==
  {n \in ClusterNodes(d) :
     \/ d.node[n].status \in {"ready", "provisioned"}
     \/ d.node[n].status = "error" /\ d.node[n].error_type = "deploy"}

------------------------------------------------------------------------------
(***************************************************************************)
(* Updates of node rows.                                                   *)
(***************************************************************************)

SetNodes(d, rows) == [d EXCEPT !.node = rows]

SetNodeStatus(d, S, st) ==
  SetNodes(d, [n \in Node |-> IF n \in S THEN [d.node[n] EXCEPT !.status = st]
                                         ELSE d.node[n]])

\* __update_nodes_to_error and the error branches of the receivers
NodesToError(d, S, type) ==
  SetNodes(d, [n \in Node |->
      IF n \in S THEN [d.node[n] EXCEPT !.status = "error", !.error_type = type]
                 ELSE d.node[n]])

\* Node.reset_to_discover
ResetToDiscover(d, S) ==
  SetNodes(d, [n \in Node |->
      IF n \in S THEN [d.node[n] EXCEPT !.status = "discover",
                                        !.pending_addition = TRUE,
                                        !.pending_roles = TRUE,
                                        !.pending_deletion = FALSE]
                 ELSE d.node[n]])

DeleteNodes(d, S) ==
  SetNodes(d, [n \in Node |-> IF n \in S THEN NoNodeRow ELSE d.node[n]])

SetCluster(d, st) == [d EXCEPT !.cluster = st]

------------------------------------------------------------------------------
(***************************************************************************)
(* Updates of task rows.                                                   *)
(***************************************************************************)

\* Every new row is running: the model's default status.
CreateTask(d, name, parent) ==
  [d EXCEPT !.seq = d.seq + 1,
            !.task = [d.task EXCEPT ![d.seq + 1] =
                        [name |-> name, status |-> "running", parent |-> parent]]]

SetTasks(d, rows) == [d EXCEPT !.task = rows]

\* Mutant: the subtasks relationship does not cascade.
DeleteOnly(d, S) ==
  SetTasks(d, [t \in TaskId |-> IF t \in S THEN NoRow ELSE d.task[t]])

\* db().delete of task rows: the subtasks relationship cascades.
DeleteTasks(d, S) ==
  SetTasks(d, [t \in TaskId |->
      IF t \in S \/ d.task[t].parent \in S THEN NoRow ELSE d.task[t]])

\* The checks of supertask p, once they have passed, are deleted again.
DropChecks(d, p) ==
  DeleteTasks(d, {t \in Subtasks(d, p) : d.task[t].name = "check_networks"})

SetStatus(d, S, st) ==
  SetTasks(d, [t \in TaskId |->
      IF t \in S THEN [d.task[t] EXCEPT !.status = st] ELSE d.task[t]])

\* TaskHelper.before_deployment_error
BeforeDeploymentError(d, p) ==
  /\ ~ IsLocked(d)
  /\ \E t \in Subtasks(d, p) : /\ d.task[t].name \in Checks
                               /\ d.task[t].status = "error"

\* Task._update_cluster_data: what the status of task t does to its cluster.
UpdateClusterData(d, t) ==
  LET name == d.task[t].name
      st   == d.task[t].status
  IN CASE name = "deploy" /\ st = "ready" ->
            SetCluster(SetNodeStatus(d, NodesIn(d, {"deploying"}), "ready"),
                       "operational")
       [] name = "deploy" /\ st = "error" /\ ~ BeforeDeploymentError(d, t) ->
            SetCluster(d, "error")
       [] name = "deployment" /\ st = "error" ->
            SetCluster(NodesToError(d, NodesIn(d, {"deploying"}), "deploy"), "error")
       [] name = "provision" /\ st = "error" ->
            SetCluster(NodesToError(d, NodesIn(d, {"provisioning"}), "provision"),
                       "error")
       [] name = "stop_deployment" /\ st = "error" -> SetCluster(d, "error")
       [] name = "stop_deployment" /\ st # "error" -> SetCluster(d, "stopped")
       [] name = "update" /\ st = "error" ->
            SetCluster(NodesToError(d, NodesIn(d, {"deploying"}), "deploy"),
                       "update_error")
       [] name = "update" /\ st = "ready" ->
            [SetCluster(d, "operational") EXCEPT !.release = FALSE]
       [] OTHER -> d

\* The row update of Task.update and its effect on the cluster.
UpdateOne(d, t, st) == UpdateClusterData(SetStatus(d, {t}, st), t)

\* Mutant: the supertask fails only once all its subtasks have ended.
UpdateParentLate(d, p) ==
  LET kids == Subtasks(d, p)
  IN CASE \A t \in kids : d.task[t].status = "ready" -> UpdateOne(d, p, "ready")
       [] \A t \in kids : d.task[t].status # "running" -> UpdateOne(d, p, "error")
       [] OTHER -> d

\* Mutant: the other subtasks of a failed supertask are left running.
UpdateParentAlone(d, p) ==
  LET kids == Subtasks(d, p)
  IN CASE \A t \in kids : d.task[t].status = "ready" -> UpdateOne(d, p, "ready")
       [] \E t \in kids : d.task[t].status = "error" -> UpdateOne(d, p, "error")
       [] OTHER -> d

\* Task._update_parent_instance
UpdateParent(d, p) ==
  LET kids  == Subtasks(d, p)
      ended == {t \in kids : d.task[t].status \in {"ready", "error"}}
  IN CASE \A t \in kids : d.task[t].status = "ready" -> UpdateOne(d, p, "ready")
       [] \E t \in kids : d.task[t].status = "error" ->
            UpdateOne(SetStatus(d, kids \ ended, "error"), p, "error")
       [] OTHER -> d

\* Mutant: a progress report does not concern the supertask.
UpdateTaskQuietly(d, t, st) ==
  LET d1 == UpdateOne(d, t, st)
      p  == d.task[t].parent
  IN IF p = NoTask \/ st = "running" THEN d1 ELSE UpdateParent(d1, p)

\* Task.update. Supertasks have no parent, so the recursion through
\* _update_parent_instance ends after one level.
UpdateTask(d, t, st) ==
  LET d1 == UpdateOne(d, t, st)
      p  == d.task[t].parent
  IN IF p = NoTask THEN d1 ELSE UpdateParent(d1, p)

==============================================================================
