--------------------------- MODULE NailgunReceiver ---------------------------
(***************************************************************************)
(* The handlers of NailgunReceiver: what one reply of the orchestrator     *)
(* (Astute) does to the database. A handler runs in one transaction, which *)
(* the RPC consumer commits when the handler returns and rolls back when   *)
(* it raises.                                                              *)
(***************************************************************************)
EXTENDS NailgunDB

(***************************************************************************)
(* A reply names the task it answers, its new status, the nodes it reports *)
(* as done (good: handled, or on their way) and as failed (bad).           *)
(***************************************************************************)
Methods == {"provision", "deploy", "remove_nodes", "remove_cluster",
            "stop_deploy_task", "reset_environment"}

Reply == [method : Methods,
          task   : TaskId,
          status : TaskStatuses,
          good   : SUBSET Node,
          bad    : SUBSET Node]

\* The nodes among S that still have a row: the others are skipped.
Known(d, S) == {n \in S : d.node[n].status # "none"}

------------------------------------------------------------------------------
\* Mutant: a task reported ready is ready, whatever nodes have failed.
DeployRespTrusting(d, m) ==
  LET d1 == SetNodeStatus(d, Known(d, m.good), IF m.status = "ready" THEN "ready"
                                                                    ELSE "deploying")
  IN UpdateTask(NodesToError(d1, Known(d, m.bad), "deploy"), m.task, m.status)

\* deploy_resp, for a deployment and for an update: the statuses the reply
\* carries are stored first; a task that is reported ready fails when any node
\* of the cluster is in error (_success_action, _error_action).
DeployResp(d, m) ==
  LET good == Known(d, m.good)
      d1   == SetNodeStatus(d, good, IF m.status = "ready" THEN "ready"
                                                           ELSE "deploying")
      d2   == NodesToError(d1, Known(d, m.bad), "deploy")
  IN IF m.status = "ready" /\ NodesIn(d2, {"error"}) # {}
       THEN UpdateTask(d2, m.task, "error")
       ELSE UpdateTask(d2, m.task, m.status)

\* provision_resp
ProvisionResp(d, m) ==
  LET good == Known(d, m.good)
      d1   == SetNodeStatus(d, good, IF m.status = "ready" THEN "provisioned"
                                                           ELSE "provisioning")
      d2   == NodesToError(d1, Known(d, m.bad), "provision")
  IN UpdateTask(d2, m.task, m.status)

(***************************************************************************)
(* remove_nodes_resp. The loop over the removed nodes ends at the first    *)
(* one that has no row any more, so when some are missing only those       *)
(* listed before it are deleted: any subset, as the order is not fixed.    *)
(* The loop over the failed nodes ends likewise. A failed node loses its   *)
(* deletion mark and keeps the error_type it had.                          *)
(***************************************************************************)
Reached(d, S) == IF Known(d, S) = S THEN {S} ELSE SUBSET Known(d, S)

\* Mutant: a node that could not be deleted is marked for needs_redeletion.
KeepToRedelete(d, S) ==
  SetNodes(d, [n \in Node |->
      IF n \in S THEN [d.node[n] EXCEPT !.status = "error",
                                        !.error_type = "deletion",
                                        !.pending_deletion = FALSE]
                 ELSE d.node[n]])

KeepFailed(d, S) ==
  SetNodes(d, [n \in Node |->
      IF n \in S THEN [d.node[n] EXCEPT !.status = "error",
                                        !.pending_deletion = FALSE]
                 ELSE d.node[n]])

RemoveNodesResp(d, m, removed, failed) ==
  UpdateTask(KeepFailed(DeleteNodes(d, removed), failed), m.task, m.status)

\* Mutant: the tasks relationship of the cluster does not cascade.
DeleteClusterOnly(d) ==
  SetCluster(DeleteNodes(d, ClusterNodes(d)), "deleted")

\* The cascades of deleting the cluster row: its nodes and all its tasks.
DeleteCluster(d) ==
  SetCluster(DeleteTasks(DeleteNodes(d, ClusterNodes(d)), TaskId), "deleted")

\* remove_cluster_resp
RemoveClusterResp(d, m, removed, failed) ==
  LET d1 == RemoveNodesResp(d, m, removed, failed)
  IN CASE d1.task[m.task].status = "ready" -> DeleteCluster(d1)
       [] d1.task[m.task].status = "error" -> SetCluster(d1, "error")
       [] OTHER -> d1

\* stop_deployment_resp: a successful stop removes the stopped tasks and
\* sends the nodes it names, if still in the cluster, back to discovery.
StoppedTasks(d) == Named(d, {"deploy", "deployment", "provision"})

StopDeploymentResp(d, m) ==
  IF m.status = "ready"
    THEN UpdateTask(ResetToDiscover(DeleteTasks(SetCluster(d, "stopped"),
                                                StoppedTasks(d)),
                                    m.good \cap ClusterNodes(d)),
                    m.task, "ready")
    ELSE UpdateTask(d, m.task, m.status)

\* reset_environment_resp
ResetEnvironmentResp(d, m) ==
  IF m.status = "ready"
    THEN UpdateTask(ResetToDiscover(SetCluster(d, "new"),
                                    m.good \cap ClusterNodes(d)),
                    m.task, "ready")
    ELSE UpdateTask(d, m.task, m.status)

\* Once an update is ready the pending release becomes the cluster's, which must
\* not be null: with none pending the transaction fails and is rolled back.
ReleaseLost(d, e, t) ==
  /\ d.task[t].name = "update" /\ ~ d.release
  /\ e.task[t].status = "ready"

DeployOutcome(d, m) ==
  LET e == DeployResp(d, m) IN IF ReleaseLost(d, e, m.task) THEN d ELSE e

(***************************************************************************)
(* What the consumer leaves in the database after one delivery. A reply    *)
(* whose task has no row raises ObjectNotFound: the transaction is rolled  *)
(* back, the message is acknowledged and its contents are lost.            *)
(***************************************************************************)
Outcomes(d, m) ==
  IF ~ Exists(d, m.task) THEN {d} ELSE
  CASE m.method = "deploy" -> {DeployOutcome(d, m)}
    [] m.method = "provision" -> {ProvisionResp(d, m)}
    [] m.method = "stop_deploy_task" -> {StopDeploymentResp(d, m)}
    [] m.method = "reset_environment" -> {ResetEnvironmentResp(d, m)}
    [] m.method = "remove_nodes" ->
         {RemoveNodesResp(d, m, r, f) : r \in Reached(d, m.good),
                                        f \in Reached(d, m.bad)}
    [] m.method = "remove_cluster" ->
         {RemoveClusterResp(d, m, r, f) : r \in Reached(d, m.good),
                                          f \in Reached(d, m.bad)}

==============================================================================
