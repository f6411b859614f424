-------------------------- MODULE ClusterLifecycle ---------------------------
(***************************************************************************)
(* The life of one environment (cluster_type 1, OpenStack) under the       *)
(* requests of its users, the replies of the orchestrator and the          *)
(* interleaving of the two.                                                *)
(*                                                                         *)
(* REST workers run the task managers: a request is a sequence of          *)
(* transactions (it commits several times so that other threads see its    *)
(* tasks), and it ends in a message to the orchestrator. The orchestrator  *)
(* works on the messages and puts replies on the one queue from which the  *)
(* RPC consumer takes them in order.                                       *)
(***************************************************************************)
EXTENDS NailgunReceiver, Sequences

CONSTANTS
  Worker,        \* the REST workers that serve requests concurrently
  Requests,      \* the kinds of requests users make
  MaxRequests,   \* bound: requests a behaviour serves
  MaxQueue,      \* bound: replies in the queue
  MaxFaults      \* bound: worker crashes and redelivered replies

\* "elsewhere" is a request on another cluster, "release" chooses the release to
\* update this one to.
RequestKinds == {"apply", "stop", "reset", "delete", "assign", "unassign",
                 "elsewhere", "provision_nodes", "deploy_nodes", "release",
                 "update"}

ASSUME RequestsAssumption == Requests \subseteq RequestKinds
ASSUME BoundsAssumption ==
  MaxRequests \in Nat /\ MaxQueue \in Nat /\ MaxFaults \in Nat

VARIABLES
  db,      \* the rows of the cluster, as committed
  req,     \* per worker: the request it is serving
  orch,    \* the messages the orchestrator is working on
  queue,   \* the replies on the nailgun queue
  budget   \* the kinds of requests to come, and what is left of their bound
           \* and of the bound on faults

vars == <<db, req, orch, queue, budget>>

(***************************************************************************)
(* A message: the task to answer for, the nodes to work on, and the other  *)
(* task it is about: the task a stop is to stop, or the provisioning that  *)
(* a deployment of the same cast waits for. told: a progress report has    *)
(* been sent.                                                              *)
(***************************************************************************)
Message == [method : Methods,
            task   : TaskId,
            nodes  : SUBSET Node,
            other  : TaskId \cup {NoTask},
            told   : BOOLEAN]

Msg(method, t, nodes, other) ==
  [method |-> method, task |-> t, nodes |-> nodes, other |-> other,
   told |-> FALSE]

(***************************************************************************)
(* The place of a request between two of its transactions, with the local  *)
(* variables of the task manager: the supertask, the last task created,    *)
(* the rows read under lock or to be stopped, the node lists computed at   *)
(* the start and the messages to cast at the end.                          *)
(***************************************************************************)
Places == {"off", "idle", "locked", "check", "check_before", "delete", "cast_delete",
           "provision", "provision_message", "provision_kept",
           "deploy", "deploy_message", "deploy_kept", "start", "mark_cluster",
           "cast",
           "stop_provision", "stop_deployment",
           "select_message", "select_mark",
           "reset_delete", "reset_create", "cast_reset",
           "delete_locked", "erase_cluster", "cast_cluster"}

Request == [pc   : Places,
            sup  : TaskId \cup {NoTask},
            sub  : TaskId \cup {NoTask},
            rows : SUBSET TaskId,
            next : SUBSET TaskId,
            del  : SUBSET Node,
            prov : SUBSET Node,
            dep  : SUBSET Node,
            msgs : SUBSET Message]

Idle == [pc |-> "idle", sup |-> NoTask, sub |-> NoTask, rows |-> {},
         next |-> {}, del |-> {}, prov |-> {}, dep |-> {}, msgs |-> {}]

\* A worker that serves no requests.
Off == [Idle EXCEPT !.pc = "off"]

Busy(w) == req[w].pc \notin {"off", "idle"}

Goto(w, pc) == req' = [req EXCEPT ![w] = [@ EXCEPT !.pc = pc]]

Return(w) == req' = [req EXCEPT ![w] = Idle]

\* The next part of ApplyChangesTaskManager.execute that has nodes to work on.
AfterCheck(r) == IF r.del # {} THEN "delete"
                 ELSE IF r.prov # {} THEN "provision"
                 ELSE IF r.dep # {} THEN "deploy" ELSE "start"
AfterDelete(r) == AfterCheck([r EXCEPT !.del = {}])
AfterProvision(r) == AfterCheck([r EXCEPT !.del = {}, !.prov = {}])

------------------------------------------------------------------------------
(***************************************************************************)
(* Initial states: an environment being set up, of nodes with roles to be  *)
(* given to them (discovered, or failed in the installation of their       *)
(* system, which is what makes a deployment provision them), or one some   *)
(* of whose nodes are deployed.                                            *)
(***************************************************************************)

NewNode == [status |-> "discover", error_type |-> "none",
            pending_addition |-> TRUE, pending_roles |-> TRUE,
            pending_deletion |-> FALSE, assigned |-> TRUE]

FailedNode == [NewNode EXCEPT !.status = "error", !.error_type = "provision"]

DeployedNode == [NewNode EXCEPT !.status = "ready", !.pending_addition = FALSE,
                                !.pending_roles = FALSE]

\* The nodes S of the environment, the workers W there are, and the requests, of
\* the kinds K, and the faults that will come. When there will be an update its
\* release has been chosen.
InitOf(S, W, K, requests, faults) ==
  /\ \E c \in {"new", "operational"} :
       \E rows \in [S -> {NewNode, FailedNode, DeployedNode}] :
         /\ c = "new" => \A n \in S : rows[n] # DeployedNode
         /\ db = [cluster |-> c, release |-> "update" \in K,
                  node |-> [n \in Node |-> IF n \in S THEN rows[n] ELSE NoNodeRow],
                  task |-> [t \in TaskId |-> NoRow], seq |-> 0]
  /\ req = [w \in Worker |-> IF w \in W THEN Idle ELSE Off]
  /\ orch = {}
  /\ queue = <<>>
  /\ budget = [requests |-> requests, faults |-> faults, kinds |-> K]

Init == InitOf(Node, Worker, Requests, MaxRequests, MaxFaults)

------------------------------------------------------------------------------
(***************************************************************************)
(* Requests.                                                               *)
(***************************************************************************)

\* A worker takes a request on a cluster that exists (else 404).
Accept(w, kind) ==
  /\ req[w].pc = "idle"
  /\ kind \in budget.kinds
  /\ db.cluster # "deleted"
  /\ budget.requests > 0
  /\ budget' = [budget EXCEPT !.requests = @ - 1]

Room == db.seq < MaxTask

\* What the next transaction of a request reads first: when it is gone the
\* ORM raises, the transaction is rolled back and the request ends with 500.
Alive(w) ==
  LET r == req[w]
  IN CASE r.pc \in {"locked", "mark_cluster", "reset_delete", "reset_create",
                     "delete_locked"} ->
            db.cluster # "deleted"
       [] r.pc \in {"check", "check_before", "delete"} -> Exists(db, r.sup)
       [] r.pc = "provision" -> Exists(db, r.sup) /\ Known(db, r.prov) = r.prov
       [] r.pc = "deploy" -> Exists(db, r.sup) /\ Known(db, r.dep) = r.dep
       [] r.pc \in {"cast_delete", "provision_message", "provision_kept",
                    "deploy_message", "deploy_kept", "stop_provision",
                    "stop_deployment", "cast_reset", "erase_cluster",
                    "cast_cluster"} ->
            Exists(db, r.sub)
       [] r.pc \in {"select_message", "select_mark"} ->
            Exists(db, r.sub) /\ Known(db, r.prov \cup r.dep) = r.prov \cup r.dep
       [] r.pc = "start" -> db.cluster # "deleted" /\ Known(db, r.prov) = r.prov
       [] OTHER -> TRUE

RequestFails(w) ==
  /\ Busy(w)
  /\ ~ Alive(w)
  /\ Return(w)
  /\ UNCHANGED <<db, orch, queue, budget>>

At(w, pc) == req[w].pc = pc /\ Alive(w)

(***************************************************************************)
(* ApplyChangesTaskManager.execute.                                        *)
(***************************************************************************)

\* Mutant: the rows of deployments are not among the rows locked and checked.
ApplyLockObsolete(w) ==
  /\ Accept(w, "apply")
  /\ req' = [req EXCEPT ![w] =
       [Idle EXCEPT !.pc = "locked",
                    !.rows = Named(db, {"stop_deployment", "reset_environment"})]]
  /\ UNCHANGED <<db, orch, queue>>

\* Mutant: only the rows of deployments are locked, and thus removed.
ApplyLockDeploys(w) ==
  /\ Accept(w, "apply")
  /\ req' = [req EXCEPT ![w] =
       [Idle EXCEPT !.pc = "locked", !.rows = Named(db, {"deploy"})]]
  /\ UNCHANGED <<db, orch, queue>>

\* _lock_required_tasks: the rows the SELECT ... FOR UPDATE sees when it
\* starts; rows inserted while it waits for its locks are not among them.
ApplyLock(w) ==
  /\ Accept(w, "apply")
  /\ req' = [req EXCEPT ![w] =
       [Idle EXCEPT !.pc = "locked",
                    !.rows = Named(db, {"deploy", "stop_deployment",
                                        "reset_environment"})]]
  /\ UNCHANGED <<db, orch, queue>>

LockedRows(w) == {t \in req[w].rows : Exists(db, t)}

DeployStarted(w) == \E t \in LockedRows(w) : /\ db.task[t].name = "deploy"
                                             /\ db.task[t].status = "running"

NothingToDo == NodesToDelete(db) \cup NodesToProvision(db) \cup NodesToDeploy(db) = {}

\* The finished deployments that the loop over the locked rows, in the order of
\* their identifiers, comes by before the first running one.
PassedOver(w) ==
  {t \in LockedRows(w) :
     /\ db.task[t].name = "deploy"
     /\ \A u \in LockedRows(w) : db.task[u].name = "deploy"
                                  /\ db.task[u].status = "running" => t < u}

\* DeploymentAlreadyStarted, which commits the deletions made so far, or
\* WrongNodeStatus("No changes to deploy"), which rolls back.
ApplyRefuse(w) ==
  /\ At(w, "locked")
  /\ \/ DeployStarted(w) /\ db' = DeleteTasks(db, PassedOver(w))
     \/ ~ DeployStarted(w) /\ NothingToDo /\ db' = db
  /\ Return(w)
  /\ UNCHANGED <<orch, queue, budget>>

\* add_required_for_update_nodes: the roles being added may require the nodes
\* that have certain roles (none or all of them here) to be deployed again.
RequiredForUpdate ==
  IF \E n \in NodesToDeploy(db) : db.node[n].pending_roles
    THEN {{}, ClusterNodes(db)} ELSE {{}}

ObsoleteTasks == Named(db, {"stop_deployment", "reset_environment"})

\* filter_by_list takes an empty list for no list at all and then selects from
\* the whole table: the stop and reset tasks there are by then, of any cluster.
Obsolete(w) == IF LockedRows(w) = {} THEN ObsoleteTasks ELSE LockedRows(w)

\* _remove_obsolete_tasks, the supertask and the node lists; first commit.
ApplyCreate(w) ==
  /\ At(w, "locked")
  /\ ~ DeployStarted(w) /\ ~ NothingToDo
  /\ Room
  /\ db' = CreateTask(DeleteTasks(db, Obsolete(w)), "deploy", NoTask)
  /\ \E more \in RequiredForUpdate :
       req' = [req EXCEPT ![w] = [Idle EXCEPT !.pc = "check",
                                              !.sup = db.seq + 1,
                                              !.del = NodesToDelete(db),
                                              !.prov = NodesToProvision(db),
                                              !.dep = NodesToDeploy(db) \cup more]]
  /\ UNCHANGED <<orch, queue, budget>>

\* The next subtask, in whose transaction the checks passed before it go.
NewPart(w, name) == DropChecks(CreateTask(db, name, req[w].sup), req[w].sup)

\* check_before_deployment: one check that commits when it passes and one that
\* does not. What has passed is deleted in the next transaction, what fails
\* stays, fails the supertask and ends the request. Nothing is checked when the
\* user has replaced the deployment information.
ApplyCheck(w) ==
  /\ At(w, "check")
  /\ \/ Goto(w, AfterCheck(req[w])) /\ db' = db
     \/ /\ Room
        /\ db' = CreateTask(db, "check_networks", req[w].sup)
        /\ Goto(w, "check_before")
     \/ /\ Room
        /\ db' = UpdateTask(CreateTask(db, "check_networks", req[w].sup),
                            db.seq + 1, "error")
        /\ Return(w)
  /\ UNCHANGED <<orch, queue, budget>>

ApplyCheckBefore(w) ==
  /\ At(w, "check_before")
  /\ \/ Goto(w, AfterCheck(req[w])) /\ db' = db
     \/ /\ Room
        /\ db' = UpdateTask(NewPart(w, "check_before_deployment"),
                            db.seq + 1, "error")
        /\ Return(w)
  /\ UNCHANGED <<orch, queue, budget>>

\* DeletionTask.execute up to its commit: nodes still in discovery are
\* deleted at once, the others go into the message.
ToErase(d) == {n \in NodesToDelete(d) : d.node[n].status # "discover"}

EraseDiscovered(d) == DeleteNodes(d, NodesToDelete(d) \ ToErase(d))

ApplyDelete(w) ==
  /\ At(w, "delete")
  /\ Room
  /\ db' = EraseDiscovered(NewPart(w, "node_deletion"))
  /\ req' = [req EXCEPT ![w] =
       [@ EXCEPT !.pc = "cast_delete", !.sub = db.seq + 1,
                 !.msgs = {Msg("remove_nodes", db.seq + 1, ToErase(db), NoTask)}]]
  /\ UNCHANGED <<orch, queue, budget>>

ApplyCastDelete(w) ==
  /\ At(w, "cast_delete")
  /\ orch' = orch \cup req[w].msgs
  /\ req' = [req EXCEPT ![w] =
       [@ EXCEPT !.pc = AfterDelete(req[w]), !.msgs = {}]]
  /\ UNCHANGED <<db, queue, budget>>

ApplySubtask(w, pc, name, next) ==
  /\ At(w, pc)
  /\ Room
  /\ db' = NewPart(w, name)
  /\ req' = [req EXCEPT ![w] = [@ EXCEPT !.pc = next, !.sub = db.seq + 1]]
  /\ UNCHANGED <<orch, queue, budget>>

\* _call_silently: the method raised, the task is set to error and the request
\* ends.
MessageFails(w, d) ==
  /\ db' = UpdateTask(d, req[w].sub, "error")
  /\ Return(w)
  /\ UNCHANGED <<orch, queue, budget>>

\* The failure of a sibling aborted the subtask while the request waited to make
\* its message, or after it made it.
Aborted(w) == db.task[req[w].sub].status = "error"

ApplyAborted(w) ==
  /\ \E pc \in {"provision_message", "provision_kept", "deploy_message",
                "deploy_kept"} : At(w, pc)
  /\ Aborted(w)
  /\ Return(w)
  /\ UNCHANGED <<db, orch, queue, budget>>

\* The subtask is read again, under lock, before its message is kept.
ApplyKeepMessage(w) ==
  /\ At(w, "provision_kept") \/ At(w, "deploy_kept")
  /\ ~ Aborted(w)
  /\ Goto(w, IF req[w].pc = "provision_kept" THEN AfterProvision(req[w]) ELSE "start")
  /\ UNCHANGED <<db, orch, queue, budget>>

ApplyProvision(w) == ApplySubtask(w, "provision", "provision", "provision_message")

ApplyProvisionMessage(w) ==
  /\ At(w, "provision_message") /\ ~ Aborted(w)
  /\ \/ MessageFails(w, db)
     \/ /\ Known(db, req[w].prov) = req[w].prov
        /\ req' = [req EXCEPT ![w] =
             [@ EXCEPT !.pc = "provision_kept",
                       !.msgs = {Msg("provision", req[w].sub, req[w].prov, NoTask)}]]
        /\ UNCHANGED <<db, orch, queue, budget>>

ApplyDeploy(w) == ApplySubtask(w, "deploy", "deployment", "deploy_message")

\* DeploymentTask.message: roles are given, nodes stuck in deploying go back
\* to provisioned; pending_addition is cleared once serialization succeeded.
GiveRoles(d, S) ==
  SetNodes(d, [n \in Node |->
      IF n \in S THEN [d.node[n] EXCEPT !.pending_roles = FALSE] ELSE d.node[n]])

ToProvisioned(d, S) ==
  SetNodeStatus(GiveRoles(d, S), S \cap NodesIn(d, {"deploying"}), "provisioned")

ClearAddition(d, S) ==
  SetNodes(d, [n \in Node |->
      IF n \in S THEN [d.node[n] EXCEPT !.pending_addition = FALSE] ELSE d.node[n]])

ApplyDeployMessage(w) ==
  /\ At(w, "deploy_message") /\ ~ Aborted(w)
  /\ LET r == req[w]
         d == IF Known(db, r.dep) = r.dep THEN ToProvisioned(db, r.dep) ELSE db
         joined == {m.task : m \in r.msgs}
     IN \/ MessageFails(w, d)
        \/ /\ Known(db, r.dep) = r.dep
           /\ db' = ClearAddition(d, r.dep)
           /\ req' = [req EXCEPT ![w] =
                [@ EXCEPT !.pc = "deploy_kept",
                          !.msgs = r.msgs \cup {Msg("deploy", r.sub, r.dep,
                             IF joined = {} THEN NoTask ELSE CHOOSE t \in joined : TRUE)}]]
           /\ UNCHANGED <<orch, queue, budget>>

\* The nodes to provision are marked, and then the cluster, whatever became of
\* the tasks in the meantime.
ApplyStart(w) ==
  /\ At(w, "start")
  /\ db' = SetNodeStatus(db, req[w].prov, "provisioning")
  /\ Goto(w, "mark_cluster")
  /\ UNCHANGED <<orch, queue, budget>>

ApplyMarkCluster(w) ==
  /\ At(w, "mark_cluster")
  /\ db' = SetCluster(db, "deployment")
  /\ Goto(w, "cast")
  /\ UNCHANGED <<orch, queue, budget>>

ApplyCast(w) ==
  /\ At(w, "cast")
  /\ orch' = orch \cup req[w].msgs
  /\ Return(w)
  /\ UNCHANGED <<db, queue, budget>>

(***************************************************************************)
(* ProvisioningTaskManager and DeploymentTaskManager, on nodes selected by *)
(* the user, and UpdateEnvironmentTaskManager. Each makes a task without a *)
(* supertask and its message; the nodes are marked in a transaction that   *)
(* follows, or in the same one when making the message failed: then None   *)
(* is cast, to nobody. Of the nodes to work on, the filter of the request, *)
(* its default and the controllers of an HA cluster make any set.          *)
(***************************************************************************)
MarkProvisioning(d, S) == SetNodeStatus(ClearAddition(d, S), S, "provisioning")

SelectToProvision(w) ==
  /\ Accept(w, "provision_nodes")
  /\ Room
  /\ db' = CreateTask(db, "provision", NoTask)
  /\ \E S \in SUBSET ClusterNodes(db) :
       req' = [req EXCEPT ![w] = [Idle EXCEPT !.pc = "select_message",
                                              !.sub = db.seq + 1, !.prov = S]]
  /\ UNCHANGED <<orch, queue>>

SelectMessage(w) ==
  /\ At(w, "select_message")
  /\ LET r == req[w]
     IN \/ /\ db' = MarkProvisioning(UpdateTask(db, r.sub, "error"), r.prov)
           /\ Return(w)
        \/ /\ req' = [req EXCEPT ![w] =
                [@ EXCEPT !.pc = "select_mark",
                          !.msgs = {Msg("provision", r.sub, r.prov, NoTask)}]]
           /\ db' = db
  /\ UNCHANGED <<orch, queue, budget>>

\* The new task of d, on the nodes S: failed, or with its message made.
StartNew(w, d, S) ==
  \/ /\ db' = SetNodeStatus(UpdateTask(d, d.seq, "error"), S, "deploying")
     /\ Return(w)
  \/ /\ db' = ClearAddition(d, S)
     /\ req' = [req EXCEPT ![w] =
          [Idle EXCEPT !.pc = "select_mark", !.sub = d.seq, !.dep = S,
                       !.msgs = {Msg("deploy", d.seq, S, NoTask)}]]

SelectToDeploy(w) ==
  /\ Accept(w, "deploy_nodes")
  /\ Room
  /\ \E S \in SUBSET ClusterNodes(db) :
       StartNew(w, ToProvisioned(CreateTask(db, "deployment", NoTask), S), S)
  /\ UNCHANGED <<orch, queue>>

SelectMark(w) ==
  /\ At(w, "select_mark")
  /\ db' = SetNodeStatus(MarkProvisioning(db, req[w].prov), req[w].dep, "deploying")
  /\ Goto(w, "cast")
  /\ UNCHANGED <<orch, queue, budget>>

\* The pending release is chosen, or given up.
ChooseRelease(w) ==
  /\ Accept(w, "release")
  /\ db' \in {[db EXCEPT !.release = chosen] : chosen \in BOOLEAN}
  /\ UNCHANGED <<req, orch, queue>>

\* What an update waits for: neither another update nor a provisioning.
UpdateBlocked ==
  \E t \in Named(db, {"deploy", "deployment", "reset_environment",
                       "stop_deployment"}) : db.task[t].status = "running"

\* InvalidReleaseId, or TaskAlreadyRunning.
UpdateRefuse(w) ==
  /\ Accept(w, "update")
  /\ ~ db.release \/ UpdateBlocked
  /\ UNCHANGED <<db, req, orch, queue>>

\* The nodes to upgrade and, when a controller is among them, the controllers.
ToUpgrade ==
  IF NodesToUpgrade(db) = {} THEN {{}}
  ELSE {NodesToUpgrade(db) \cup more :
          more \in SUBSET (ClusterNodes(db) \ NodesToDelete(db))}

\* UpdateTask.message: roles are given and the nodes are provisioned.
UpdateCreate(w) ==
  /\ Accept(w, "update")
  /\ db.release /\ ~ UpdateBlocked
  /\ Room
  /\ \E S \in ToUpgrade :
       StartNew(w, SetNodeStatus(GiveRoles(SetCluster(CreateTask(db, "update", NoTask),
                                                      "update"), S),
                                 S, "provisioned"), S)
  /\ UNCHANGED <<orch, queue>>

(***************************************************************************)
(* StopDeploymentTaskManager.execute.                                      *)
(***************************************************************************)

StopTasks == Named(db, {"stop_deployment"})

Stoppable == Named(db, {"deployment", "provision"})

StopRunning == \E t \in StopTasks : db.task[t].status = "running"

\* StopAlreadyRunning, or DeploymentNotRunning: nothing changes.
StopRefuse(w) ==
  /\ Accept(w, "stop")
  /\ StopRunning \/ Stoppable = {}
  /\ UNCHANGED <<db, req, orch, queue>>

FirstOf(S) == {t \in S : \A u \in S : t <= u}

\* A finished stop task is replaced by a new one. The first provisioning
\* and the first deployment there are, finished or not, are to be stopped.
StopCreate(w) ==
  /\ Accept(w, "stop")
  /\ ~ StopRunning /\ Stoppable # {}
  /\ Room
  /\ db' = CreateTask(DeleteTasks(db, FirstOf(StopTasks)), "stop_deployment", NoTask)
  /\ req' = [req EXCEPT ![w] =
       [Idle EXCEPT !.pc = "stop_provision", !.sub = db.seq + 1,
                    !.rows = FirstOf(Named(db, {"provision"})),
                    !.next = FirstOf(Named(db, {"deployment"}))]]
  /\ UNCHANGED <<orch, queue>>

\* StopDeploymentTask.execute: one message per task to stop, both answered
\* on the same stop task. A task to stop that is gone by now makes
\* _call_silently fail the stop.
StopMessage(w, t) ==
  Msg("stop_deploy_task", req[w].sub,
      {n \in ClusterNodes(db) : db.node[n].status # "ready"}, t)

StopGone(w) ==
  /\ At(w, "stop_provision") \/ At(w, "stop_deployment")
  /\ \E t \in req[w].rows : ~ Exists(db, t)
  /\ MessageFails(w, db)

StopCast(w) ==
  /\ At(w, "stop_provision") \/ At(w, "stop_deployment")
  /\ \A t \in req[w].rows : Exists(db, t)
  /\ orch' = orch \cup {StopMessage(w, t) : t \in req[w].rows}
  /\ IF req[w].pc = "stop_provision"
       THEN req' = [req EXCEPT ![w] = [@ EXCEPT !.pc = "stop_deployment",
                                                !.rows = req[w].next, !.next = {}]]
       ELSE Return(w)
  /\ UNCHANGED <<db, queue, budget>>

(***************************************************************************)
(* ResetEnvironmentTaskManager.execute: no row is locked between the check *)
(* for a running deployment and the deletion of the obsolete tasks.        *)
(***************************************************************************)

DeployRunning == \E t \in Named(db, {"deploy"}) : db.task[t].status = "running"

ResetCheck(w) ==
  /\ Accept(w, "reset")
  /\ IF DeployRunning THEN req' = req
     ELSE req' = [req EXCEPT ![w] = [Idle EXCEPT !.pc = "reset_delete"]]
  /\ UNCHANGED <<db, orch, queue>>

ResetDelete(w) ==
  /\ At(w, "reset_delete")
  /\ db' = DeleteTasks(db, Named(db, {"deploy", "deployment", "stop_deployment"}))
  /\ Goto(w, "reset_create")
  /\ UNCHANGED <<orch, queue, budget>>

ResetCreate(w) ==
  /\ At(w, "reset_create")
  /\ Room
  /\ db' = CreateTask(db, "reset_environment", NoTask)
  /\ req' = [req EXCEPT ![w] = [@ EXCEPT !.pc = "cast_reset", !.sub = db.seq + 1]]
  /\ UNCHANGED <<orch, queue, budget>>

ResetCast(w) ==
  /\ At(w, "cast_reset")
  /\ orch' = orch \cup {Msg("reset_environment", req[w].sub, ClusterNodes(db), NoTask)}
  /\ Return(w)
  /\ UNCHANGED <<db, queue, budget>>

(***************************************************************************)
(* ClusterDeletionManager.execute: a running deployment is only logged.    *)
(***************************************************************************)

Deletions == Named(db, {"cluster_deletion"})

DeletionRunning == \E t \in Deletions : db.task[t].status = "running"

MarkForDeletion(d) ==
  SetNodes(d, [n \in Node |->
      IF n \in ClusterNodes(d) THEN [d.node[n] EXCEPT !.pending_deletion = TRUE]
                               ELSE d.node[n]])

\* lock_cluster_tasks: the tasks that the SELECT ... FOR UPDATE sees when it
\* starts; those, then the cluster and the nodes are waited for.
ClusterDeletionLock(w) ==
  /\ Accept(w, "delete")
  /\ req' = [req EXCEPT ![w] =
       [Idle EXCEPT !.pc = "delete_locked",
                    !.rows = Named(db, SubtaskNames \cup TopNames)]]
  /\ UNCHANGED <<db, orch, queue>>

\* filter_by_list takes an empty list for no list at all: with no task locked, the
\* deletions that there are by then, of any cluster, are looked at.
DeletionsSeen(w) ==
  IF LockedRows(w) = {} THEN Deletions ELSE LockedRows(w) \cap Deletions

DeletionStarted(w) == \E t \in DeletionsSeen(w) : db.task[t].status = "running"

\* DeletionAlreadyStarted: by this cluster or by another one.
ClusterDeletionRefuse(w) ==
  /\ At(w, "delete_locked")
  /\ \/ DeletionStarted(w)
     \/ LockedRows(w) = {} /\ "elsewhere" \in budget.kinds
  /\ Return(w)
  /\ UNCHANGED <<db, orch, queue, budget>>

ClusterDeletionCreate(w) ==
  /\ At(w, "delete_locked")
  /\ ~ DeletionStarted(w)
  /\ Room
  /\ db' = CreateTask(SetCluster(MarkForDeletion(DeleteTasks(db, DeletionsSeen(w))),
                                 "remove"),
                      "cluster_deletion", NoTask)
  /\ req' = [req EXCEPT ![w] = [Idle EXCEPT !.pc = "erase_cluster", !.sub = db.seq + 1]]
  /\ UNCHANGED <<orch, queue, budget>>

\* ClusterDeletionTask.execute: an empty cluster is removed without asking
\* the orchestrator.
ClusterDeletionErase(w) ==
  /\ At(w, "erase_cluster")
  /\ IF ClusterNodes(db) = {}
       THEN db' = DeleteCluster(db) /\ Return(w)
       ELSE /\ db' = EraseDiscovered(db)
            /\ req' = [req EXCEPT ![w] =
                 [@ EXCEPT !.pc = "cast_cluster",
                           !.msgs = {Msg("remove_cluster", req[w].sub,
                                         ToErase(db), NoTask)}]]
  /\ UNCHANGED <<orch, queue, budget>>

ClusterDeletionCast(w) ==
  /\ At(w, "cast_cluster")
  /\ orch' = orch \cup req[w].msgs
  /\ Return(w)
  /\ UNCHANGED <<db, queue, budget>>

(***************************************************************************)
(* A request on another cluster, which has no such tasks of its own: its   *)
(* deployment removes the stop and reset tasks of every cluster, and its   *)
(* removal the finished removal tasks, unless one is running.              *)
(***************************************************************************)
Elsewhere ==
  /\ "elsewhere" \in budget.kinds
  /\ budget.requests > 0
  /\ budget' = [budget EXCEPT !.requests = @ - 1]
  /\ \/ db' = DeleteTasks(db, ObsoleteTasks)
     \/ ~ DeletionRunning /\ db' = DeleteTasks(db, Deletions)
  /\ UNCHANGED <<req, orch, queue>>

(***************************************************************************)
(* Node assignment handlers: one transaction, no task.                     *)
(***************************************************************************)

Assign(w, n) ==
  /\ Accept(w, "assign")
  /\ db.node[n].status # "none" /\ ~ db.node[n].assigned
  /\ db' = SetNodes(db, [db.node EXCEPT ![n] =
             [@ EXCEPT !.assigned = TRUE, !.pending_addition = TRUE,
                       !.pending_roles = TRUE]])
  /\ UNCHANGED <<req, orch, queue>>

\* A discovered node leaves the cluster at once, another is marked.
Unassign(w, n) ==
  /\ Accept(w, "unassign")
  /\ db.node[n].assigned /\ ~ db.node[n].pending_deletion
  /\ db' = SetNodes(db, [db.node EXCEPT ![n] =
             IF db.node[n].status = "discover"
               THEN [@ EXCEPT !.assigned = FALSE]
               ELSE [@ EXCEPT !.pending_deletion = TRUE]])
  /\ UNCHANGED <<req, orch, queue>>

------------------------------------------------------------------------------
(***************************************************************************)
(* The orchestrator, as the fake orchestrator of task/fake.py plays it and *)
(* with the failures the receivers provide for.                            *)
(***************************************************************************)

Send(m, st, good, bad) ==
  /\ Len(queue) < MaxQueue
  /\ queue' = Append(queue, [method |-> m.method, task |-> m.task,
                             status |-> st, good |-> good, bad |-> bad])

\* A deployment waits for the provisioning it was cast with.
Joined(m) == m.method = "deploy" /\ \E p \in orch : p.task = m.other

\* One progress report: the nodes are being worked on, some may have failed.
Progress(m) ==
  /\ m \in orch /\ ~ m.told /\ m.nodes # {}
  /\ m.method \in {"provision", "deploy"} /\ ~ Joined(m)
  /\ \E bad \in SUBSET m.nodes : Send(m, "running", m.nodes \ bad, bad)
  /\ orch' = (orch \ {m}) \cup {[m EXCEPT !.told = TRUE]}
  /\ UNCHANGED <<db, req, budget>>

\* What a reply may say of m: done, done but for some nodes, or failed.
Answers(m) ==
  {<<"ready", m.nodes, {}>>}
  \cup (CASE m.method = "deploy" ->
               {<<"ready", m.nodes \ bad, bad>> : bad \in SUBSET m.nodes}
                 \cup {<<"error", {}, bad>> : bad \in SUBSET m.nodes}
          [] m.method = "provision" -> {<<"error", {}, bad>> : bad \in SUBSET m.nodes}
          [] m.method \in {"remove_nodes", "remove_cluster"} ->
               {<<"error", m.nodes \ bad, bad>> : bad \in (SUBSET m.nodes) \ {{}}}
          [] OTHER -> {<<"error", {}, {}>>})

\* The final report. A stop that succeeds ends the work it stops, which then
\* never reports; one that fails leaves it alone.
Finish(m) ==
  /\ m \in orch /\ ~ Joined(m)
  /\ \E a \in Answers(m) :
       /\ Send(m, a[1], a[2], a[3])
       /\ orch' = {o \in orch \ {m} :
                    ~ (m.method = "stop_deploy_task" /\ a[1] = "ready"
                         /\ o.method # "stop_deploy_task" /\ o.task = m.other)}
  /\ UNCHANGED <<db, req, budget>>

(***************************************************************************)
(* RPCConsumer.consume_msg: the reply is handled and acknowledged. When    *)
(* the consumer dies after the commit and before the acknowledgement, the  *)
(* broker delivers the reply again.                                        *)
(***************************************************************************)
Consume ==
  /\ queue # <<>>
  /\ db' \in Outcomes(db, Head(queue))
  /\ queue' = Tail(queue)
  /\ UNCHANGED <<req, orch, budget>>

ConsumeUnacknowledged ==
  /\ queue # <<>>
  /\ budget.faults > 0
  /\ budget' = [budget EXCEPT !.faults = @ - 1]
  /\ db' \in Outcomes(db, Head(queue))
  /\ UNCHANGED <<req, orch, queue>>

\* The broker refuses a cast that _call_silently makes: the task is failed.
\* A deployment goes on after the deletion it failed to start.
CastRefused(w) ==
  /\ \E pc \in {"cast_delete", "stop_provision", "stop_deployment", "cast_reset",
                 "cast_cluster"} : At(w, pc)
  /\ budget.faults > 0
  /\ budget' = [budget EXCEPT !.faults = @ - 1]
  /\ db' = UpdateTask(db, req[w].sub, "error")
  /\ IF req[w].pc = "cast_delete"
       THEN req' = [req EXCEPT ![w] =
              [@ EXCEPT !.pc = AfterDelete(req[w]), !.msgs = {}]]
       ELSE Return(w)
  /\ UNCHANGED <<orch, queue>>

\* A worker dies between two commits, or the broker refuses its last cast.
Crash(w) ==
  /\ Busy(w)
  /\ budget.faults > 0
  /\ budget' = [budget EXCEPT !.faults = @ - 1]
  /\ Return(w)
  /\ UNCHANGED <<db, orch, queue>>

------------------------------------------------------------------------------
NewRequest(w) ==
  \/ ApplyLock(w)
  \/ StopRefuse(w) \/ StopCreate(w)
  \/ SelectToProvision(w) \/ SelectToDeploy(w)
  \/ ChooseRelease(w) \/ UpdateRefuse(w) \/ UpdateCreate(w)
  \/ ResetCheck(w)
  \/ ClusterDeletionLock(w)
  \/ \E n \in Node : Assign(w, n) \/ Unassign(w, n)

\* The steps a worker takes once it has accepted a request.
Continue(w) ==
  \/ ApplyRefuse(w) \/ ApplyCreate(w)
  \/ ApplyCheck(w) \/ ApplyCheckBefore(w)
  \/ ApplyDelete(w) \/ ApplyCastDelete(w)
  \/ ApplyProvision(w) \/ ApplyProvisionMessage(w)
  \/ ApplyDeploy(w) \/ ApplyDeployMessage(w)
  \/ ApplyAborted(w) \/ ApplyKeepMessage(w)
  \/ ApplyStart(w) \/ ApplyMarkCluster(w) \/ ApplyCast(w)
  \/ StopGone(w) \/ StopCast(w)
  \/ SelectMessage(w) \/ SelectMark(w)
  \/ ResetDelete(w) \/ ResetCreate(w) \/ ResetCast(w)
  \/ ClusterDeletionRefuse(w) \/ ClusterDeletionCreate(w)
  \/ ClusterDeletionErase(w) \/ ClusterDeletionCast(w)
  \/ RequestFails(w)

Next ==
  \/ \E w \in Worker : NewRequest(w) \/ Continue(w) \/ CastRefused(w) \/ Crash(w)
  \/ \E m \in orch : Progress(m) \/ Finish(m)
  \/ Consume \/ ConsumeUnacknowledged
  \/ Elsewhere

Spec == Init /\ [][Next]_vars

(***************************************************************************)
(* Fairness: a worker that has accepted a request runs it to its end, the  *)
(* consumer takes what is in the queue, and the orchestrator answers every *)
(* message it was given. Users and faults owe nothing.                     *)
(***************************************************************************)
\* The queue moves on, as only Consume makes it do.
Delivered == queue # <<>> /\ queue' = Tail(queue)

Fairness ==
  /\ \A w \in Worker : WF_vars(Continue(w))
  /\ WF_queue(Delivered)
  /\ \A t \in TaskId : WF_vars(\E m \in orch : m.task = t /\ Finish(m))

FairSpec == Spec /\ Fairness

------------------------------------------------------------------------------
(***************************************************************************)
(* Properties.                                                             *)
(***************************************************************************)

\* Types of all variables. A supertask identifier is older than its
\* subtasks', and only the names of subtasks have a parent.
TypeOK ==
  /\ db \in Database
  /\ req \in [Worker -> Request]
  /\ orch \subseteq Message
  /\ queue \in Seq(Reply)
  /\ budget \in [requests : 0 .. MaxRequests, faults : 0 .. MaxFaults,
                  kinds : SUBSET Requests]

\* A supertask agrees with its subtasks (objects/task.py
\* _update_parent_instance): whenever one of them failed it has failed, and
\* whenever all of them are done it is done. No interleaving of workers,
\* replies, crashes and redeliveries leaves the user looking at a finished
\* deployment whose part failed, or at a running one all of whose parts ended.
SupertaskAgrees ==
  \A p \in TaskId : Subtasks(db, p) # {} =>
    /\ (\E t \in Subtasks(db, p) : db.task[t].status = "error")
         => db.task[p].status = "error"
    /\ (\A t \in Subtasks(db, p) : db.task[t].status = "ready")
         => db.task[p].status = "ready"

\* Every subtask row has its supertask's row: deletions of tasks by new
\* deployments, resets, stops and cluster removal cascade.
NoOrphanSubtask ==
  \A t \in TaskId : db.task[t].parent # NoTask => Exists(db, db.task[t].parent)

\* The rows of the database are a task table: identifiers are never reused, a
\* finished task never runs again and a removed one never comes back, however
\* late, repeated or aborted the replies about it are. A late progress report
\* does set an aborted subtask running again, but the transaction that does so
\* propagates to the failed supertask, which aborts the subtask once more.
Table == INSTANCE TaskTable
           WITH status <- [t \in TaskId |-> db.task[t].status], seq <- db.seq

ImplementsTaskTable == Table!Spec

\* At most one deployment of the cluster runs (DeploymentAlreadyStarted). One
\* worker keeps this; for two it is not so.
OneDeployment ==
  \A t, u \in Named(db, {"deploy"}) :
    db.task[t].status = "running" /\ db.task[u].status = "running" => t = u

\* Every stop or reset task is younger than every deployment, so that the reply
\* to a stop or a reset asked for before a deployment started (which would
\* delete the deployment's tasks and reset its nodes) finds no task any more.
ObsoleteGone ==
  \A t \in Named(db, {"stop_deployment", "reset_environment"}),
     u \in Named(db, {"deploy"}) : u < t

\* A cluster that is gone leaves no task behind, and nothing that was under way
\* when it went (requests between two commits, replies, redeliveries) writes
\* to its rows again.
DeletedLeavesNothing ==
  db.cluster = "deleted" => Named(db, SubtaskNames \cup TopNames) = {}

DeletedIsFinal == [][db.cluster = "deleted" => db' = db]_db

\* A report that something has ended well and that nobody will take: the stop it
\* answers was removed by a deployment or replaced by a second stop, or the
\* release of the update it answers is not pending any more (it was given up, or
\* another update started beside this one has taken it).
Lost(m) ==
  /\ m.status = "ready"
  /\ \/ m.method = "stop_deploy_task" /\ ~ Exists(db, m.task)
     \/ m.method = "deploy" /\ db.task[m.task].name = "update" /\ ~ db.release

\* A request of which a node has been removed by a reply: it ends with 500, and
\* its task stays.
Stranded(w) == req[w].pc \in {"select_message", "select_mark"} /\ ~ Alive(w)

NothingLost ==
  (\A i \in 1 .. Len(queue) : ~ Lost(queue[i])) /\ \A w \in Worker : ~ Stranded(w)

\* Every task ends unless such a report is lost or such a request fails: once the
\* requests have all been made, each is reported ready or failed, or its row is
\* removed.
EveryTaskEnds ==
  []NothingLost => <>[](\A t \in TaskId : db.task[t].status # "running")

\* The pending release becomes the cluster's only by an update that has ended
\* well, with no node of the cluster in error and the cluster operational
\* (_success_action, Task._update_cluster_data), whatever other deployments, their
\* late and repeated reports and further updates do meanwhile. (A repeated report
\* of an update does take a release chosen since.)
ReleaseAppliedWhole ==
  [][db.release /\ ~ db'.release =>
       \/ budget'.requests # budget.requests
       \/ /\ \E t \in Named(db', {"update"}) : db'.task[t].status = "ready"
          /\ NodesIn(db', {"error"}) = {} /\ db'.cluster = "operational"]_vars

------------------------------------------------------------------------------
(***************************************************************************)
(* What comments, messages and tests of the program say of it, and its     *)
(* code does not keep.                                                     *)
(***************************************************************************)

DeployNames == {"deploy", "deployment", "provision"}

\* "Can't reset environment '{0}' when deployment is running" (task/manager.py):
\* whenever a reset removes the deployment's tasks, none of them is running.
ResetOnlyAtRest ==
  [][\A w \in Worker : req[w].pc = "reset_delete" /\ req'[w].pc = "reset_create" =>
       \A t \in Named(db, DeployNames) : db.task[t].status # "running"]_vars

\* "In case if iterable=None filters all object instances" (filter_by_list of
\* objects/base.py), and otherwise those it is given: no task is removed but by a
\* request on its own cluster or a reply.
RemovedByItsOwn ==
  [][\A t \in Named(db, TopNames) : db'.task[t].name = "none" =>
       req' # req \/ queue' # queue \/ budget'.faults # budget.faults]_vars

\* test_update_cluster_to_operational (test/unit/test_objects.py): once its
\* deploy task is ready, and nothing is under way, the cluster is operational.
AtRest == (\A w \in Worker : ~ Busy(w)) /\ orch = {} /\ queue = <<>>

ReadyIsOperational ==
  AtRest /\ (\E t \in Named(db, {"deploy"}) : db.task[t].status = "ready")
    => db.cluster # "deployment"

==============================================================================
