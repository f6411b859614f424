# Nailgun: specification and verification

The repository is a fork of Nailgun, the deployment service of Fuel: a REST API
and a set of task managers that turn an operator's requests on an *environment*
(a cluster of nodes) into messages for an orchestrator (Astute), and a consumer
that applies the orchestrator's replies to a PostgreSQL database. This directory
holds TLA+ modules translated from that code, the TLC configurations that
check them on small instances, and proofs that TLAPS checks for every size.

Paths below are relative to `src/nailgun/nailgun/` unless they begin with
`src/`. `src/release/code/nailgun/` is a second copy of the same code; only the
first is referred to.

## 1. The system

| Component | Code | State it keeps | Operations |
|---|---|---|---|
| Task rows | `objects/task.py`, `db/sqlalchemy/models/task.py`, `task/helpers.py` | one row per task: name, status, parent | create, create subtask, `Task.update` with its propagation to the supertask, its other subtasks, the cluster and the nodes; cascading delete |
| Task managers | `task/manager.py`, `task/task.py` | none between requests; local variables within one | apply changes, stop, reset, cluster deletion, selected nodes, update, verification, dump, capacity, installos |
| RPC receiver | `rpc/receiver.py` | none | one handler per reply of the orchestrator |
| RPC consumer | `rpc/threaded.py`, `rpc/receiverd.py`, `rpc/__init__.py` | the `nailgun` queue | consume, commit or roll back, acknowledge |
| Orchestrator | outside the repository; `task/fake.py` plays it | messages it works on | provision, deploy, remove, stop, reset; progress and final reports |
| Nodes | `objects/node.py`, `api/v1/handlers/assignment.py`, `api/v1/handlers/node.py` | status, error type, pending flags, membership, online, roles | assignment, agent updates, reset to discovery |
| Clusters | `objects/cluster.py` | status, attributes | locking of settings, cascades of deletion |
| REST API | `api/v1/handlers`, `api/v1/validators` | none | starts the managers; CRUD |
| Role start/stop | `api/v1/handlers/cluster.py`, `task/manager.py`, `rpc/receiver.py`, the buttons of the web UI | role statuses, two cookies | start, stop, rollback by the reply |
| Network verification | `task/manager.py`, `rpc/receiver.py`, `network/checker.py` | verification tasks with subtasks | verify, DHCP, multicast |
| Node agent and keep-alive | `api/v1/handlers/node.py`, `objects/node.py`, `common/nailgun-agent`, `assassin/assassind.py` | rows of nodes: MAC, addresses, online flag, timestamp; on each machine its identity file | registration, report, mark offline |
| Tasks without a cluster | `task/manager.py`, `rpc/receiver.py` | task rows with `node_ids` | diagnostic snapshot, capacity log, installation of an operating system |
| Database session, lock order | `db/` | row locks | SELECT FOR UPDATE, deadlock detector |
| Deployment graph, serializers | `orchestrator/` | none | topological order of tasks, formatting of facts |
| Networks, volumes | `network/`, `volumes/` | IP addresses, disk layout | allocation |
| Node side | `src/mcagent/*.rb` | puppet's lock and run files | run, stop, status |
| Physical machines | `api/v1/handlers/physical_machine.py`; `src/threadpool.py` is a vendored library it uses | rows of physical machines | initialization over SSH, power over IPMI, import |
| Others | `plugins/`, `statistics/`, `notifier.py`, `expression/`, `webui/`, `db/migration`, shell scripts | | |

### How the parts interact

* A REST worker runs a task manager. The manager is *not* one transaction: it
  commits several times, so that other workers and the consumer see its tasks,
  and between two commits anything may happen to the rows it goes on with. It
  ends (or goes on, for the deletion of nodes) with a *cast*, a message to the
  orchestrator after which it waits for nothing.
* The orchestrator works on many messages at once and puts its replies on one
  queue. A cast may carry a provisioning and a deployment, the second of which
  waits for the first.
* The consumer takes replies in order, one transaction each, and acknowledges
  after the commit. A handler that raises is rolled back and its reply dropped.
* Workers and the consumer share only the database.

### What is hard about it

Each hazard is listed at its line under `hazards` in `PROJECT.json`, with the
property that watches it. The main ones:

1. A manager's check and the change it protects are in different transactions
   (reset, deletion, second deployment).
2. A reply may arrive for a task that was removed, aborted by its sibling's
   failure, or not yet joined by the siblings still to be created.
3. A reply may be handled twice (death between commit and acknowledgement).
4. A worker may die, or the broker refuse a cast, between any two commits.
5. Rows are removed by requests on *other* clusters, because an empty list of
   tasks is taken for no list by `filter_by_list`.
6. A supertask's verdict must follow from its subtasks' whatever the order in
   which they are created, reported, aborted or removed.
7. Managers, receivers and the API lock rows in SELECT FOR UPDATE and in the
   UPDATEs of a flush; a detector of deadlocks sees the first kind only.
8. A report finds its row in three queries with minutes between them; the
   address it is found by may by then be another machine's.
9. One press of a role's button is four requests that hand over what to do in
   cookies which all tabs of a browser share.
10. Tasks without a cluster take paths through `Task.update` and
    `_call_silently` that were written for tasks with one.

### What makes each component correct

* Task rows: identifiers never reused, finished tasks never run again, a
  supertask agrees with its subtasks, no subtask without its supertask.
* Managers: one deployment at a time when requests are served in turn; replies
  to obsolete requests do not touch what was started since; every task ends.
* Receiver: whatever is late or repeated, the above still holds; a deleted
  cluster stays deleted.
* Verification: the verdict counts the DHCP check whatever the order of the
  answers; a running verification is never removed.
* Roles: at rest, the row of a role says whether it runs; ONEST gets its first
  start once; the environment can be operated on again; every task that was
  cast ends.
* Node agent and keep-alive: a machine that goes on reporting is found, gets
  an identity of its own, is online and stays so; a silent one goes offline.
* Locks: no transactions wait in a circle.
* Tasks without a cluster: no task and no node waits for something nobody has
  in hand; a node shown as provisioned is installed.

## 2. Modules

| Module | Models |
|---|---|
| `NailgunDB` | the rows of one cluster and the ORM operations on them, as operators from database value to database value |
| `NailgunReceiver` | the receiver's handlers as such operators; `Outcomes(d, m)` is the set of databases the consumer may leave after reply `m` |
| `ClusterLifecycle` | the state machine of an environment's life: REST workers, orchestrator, queue, consumer |
| `TaskTable` | abstract specification: what the tasks table promises to those who poll it; implemented by `ClusterLifecycle` and by `NetworkVerification` |
| `NetworkVerification` | check and verification of networks, against each other and against the start of a deployment |
| `LockOrder` | the rows that transactions lock, in their order, and the deadlock detector |
| `NodeInventory` | machines, agents, the rows of nodes, the assassin |
| `RoleStatus` | start and stop of roles, from the button to the rollback |
| `GlobalTasks` | snapshots, capacity logs, installations of machines |
| `MCClusterLifecycle`, `MCNetworkVerification`, `MCLockOrder`, `MCNodeInventory`, `MCRoleStatus`, `MCGlobalTasks` | instances for TLC: a run joins several initial parts (one worker with more requests, several with fewer), so that each question is asked once |
| `NailgunDB_proofs`, `ClusterLifecycle_proofs`, `ClusterTasks_proofs`, `NetworkVerification_proofs`, `RoleStatus_proofs`, `LockOrder_proofs`, `NodeInventory_proofs`, `GlobalTasks_proofs` | lemmas and theorems |

`NailgunDB` and `NailgunReceiver` are composed by `ClusterLifecycle`. The other
five state machines each take one group of rows with everybody who touches
it; they overlap with `ClusterLifecycle` in the rows they need of it (the
deploy task that a verification meets, the status that a receiver writes to a
node's row), which are then modelled by the few transactions on them.

### `ClusterLifecycle`: state

| Variable | Stands for |
|---|---|
| `db` | the *committed* rows: `db.cluster` (status), `db.release` (a release to update to is chosen), `db.node[n]`, `db.task[t]`, and `db.seq`, the sequence of task identifiers |
| `req[w]` | where worker `w` is between two transactions of its request, and the manager's local variables it still needs |
| `orch` | the messages the orchestrator works on |
| `queue` | the replies on the `nailgun` queue |
| `budget` | what is left of the bounds on requests and faults, and the kinds of request this environment gets |

Every action is one transaction (or one cast). The transaction is the
composition of the operators it calls, so that what is atomic in the model is
what the code commits at once. Row locks (`SELECT ... FOR UPDATE`) show only where
a transaction would read rows it then waits for: `ApplyLock` takes the rows the
statement saw when it started and `ApplyCreate` and `ApplyRefuse` run once they
are locked, and so do `ClusterDeletionLock` and what follows it. The other modules follow the same rule.

### `ClusterLifecycle`: actions and code

| Actions | Code |
|---|---|
| `ApplyLock`, `ApplyRefuse`, `ApplyCreate` | `ApplyChangesTaskManager.execute` up to its first commit, with `_lock_required_tasks` and `_remove_obsolete_tasks` |
| `ApplyCheck`, `ApplyCheckBefore` | `check_before_deployment`: a check that commits and one that does not; `DropChecks` is the deletion of what passed, in the next transaction |
| `ApplyDelete`, `ApplyCastDelete` | the node deletion subtask and `DeletionTask.execute` |
| `ApplyProvision`, `ApplyProvisionMessage`, `ApplyDeploy`, `ApplyDeployMessage` | the subtasks and the making of their messages, either of which may raise (`_call_silently`) |
| `ApplyAborted`, `ApplyKeepMessage` | the subtask read again under lock, the request ended when it was aborted |
| `ApplyStart`, `ApplyMarkCluster`, `ApplyCast` | the marking of nodes and that of the cluster, two transactions, and the final cast |
| `SelectToProvision`, `SelectMessage`, `StartNew` | `ProvisioningTaskManager.execute`: nodes marked, a task of its own made, its message, which may not be made |
| `SelectToDeploy`, `SelectMessage`, `SelectMark` | `DeploymentTaskManager.execute` on selected nodes, which are marked after the message |
| `ChooseRelease`, `UpdateRefuse`, `UpdateCreate` | the pending release (`PUT` of the cluster) and `UpdateEnvironmentTaskManager.execute` |
| `StopRefuse`, `StopCreate`, `StopCast`, `StopGone` | `StopDeploymentTaskManager.execute`, `StopDeploymentTask.execute` |
| `ResetCheck`, `ResetDelete`, `ResetCreate`, `ResetCast` | `ResetEnvironmentTaskManager.execute`, `ResetEnvironmentTask.execute` |
| `ClusterDeletion*` | `ClusterDeletionManager.execute`, whose check for another deletion looks at the rows its query returned (`DeletionsSeen`), and `ClusterDeletionTask.execute` |
| `Assign`, `Unassign` | the assignment handlers |
| `Elsewhere` | what a request on another cluster does to this one's rows through `filter_by_list` |
| `Progress`, `Finish` | the orchestrator, as `task/fake.py` plays it and with the failures the receivers provide for (external) |
| `Consume` | one delivery handled by the receiver and acknowledged |
| `RequestFails` | the row a request reads next is gone: ORM error, rollback, HTTP 500 |
| `CastRefused`, `Crash`, `ConsumeUnacknowledged` | the faults: the broker refuses a cast that `_call_silently` makes; a worker dies between two commits (or the final cast, made outside `_call_silently`, is refused); the consumer dies between commit and acknowledgement |

### `ClusterLifecycle`: abstractions

* One cluster of type 1 (OpenStack); another cluster appears only through
  `Elsewhere`.
* Which roles a node has is left out, that it has pending ones is not; volumes,
  interfaces, networks and attributes are data of other components. Which release
  may follow which is left to the validator: one is pending or not.
* Progress percentages, messages, notifications, logs and action logs are left
  out. `status` is the only field of a task a property tells apart.
* The serializers may raise at any time; what they produce is not modelled.
* The order of the loops over removed nodes is not fixed in the code, so where
  a loop ends early (`remove_nodes_resp`) any prefix set is an outcome.
* The orchestrator sends at most one progress report per message. Which nodes
  it fails, and whether it reports `ready` with failed nodes or `error`, is
  nondeterministic.
* An environment starts with nodes that are new, failed in provisioning, or
  deployed.

### `NetworkVerification`

State: `task` and `seq` (the committed rows), `deploying` (the cluster's status
is one that refuses a verification), `req[w]` with the rows a statement saw
when it began to lock, `orch`, `queue`, `budget`.

| Actions | Code |
|---|---|
| `VerifyLock`, `VerifyRefuse`, `VerifyCreate` | `VerifyNetworksTaskManager.execute` and `remove_previous_task`: earlier checks and verifications are locked, the request refused while a verification runs, what is left over is deleted, a check is created |
| `VerifyCheck` | `CheckNetworksTask` in the worker; when it passes the row is renamed to a verification and gets its DHCP subtask |
| `VerifyCast`, `CastRefused` | the message to the orchestrator |
| `CheckLock`, `CheckCreate`, `CheckRun`, `CheckSave` | `CheckNetworksTaskManager.execute`, called when the settings are saved, and the saving |
| `Remove` | the deletion of an ended task (`DELETE /tasks/`) |
| `DeployCreate`, `DeployCheck`, `DeployStart`, `DeployEnds` | what a deployment does to the rows a verification looks at |
| `AnswerDhcp`, `Progress`, `AnswerVerify` | the orchestrator (external) |
| `Consume`, `ConsumeUnacknowledged` | `verify_networks_resp`, `check_dhcp_resp` |
| `RequestFails`, `Crash` | a row is gone; the worker dies |

What `network/checker.py` looks at is a choice: it passes or fails. `DELETE` with
`force` and the multicast subtask (disabled in the code) are left out.

### `LockOrder`

State: per thread the transaction it runs: the sequence of its steps (`prog`),
where it is (`at`), the rows it holds (`held`), and the detector's list of
tables (`ctx`). A transaction is a sequence of steps, each with the rows it locks
or writes, in the order of the primary keys (the `ORDER BY` of the query, the
unit of work of a flush), or that a row it inserts refers to. `held[r]` is the
strength of the lock (`Strength`: FOR KEY SHARE of a foreign key, FOR NO KEY
UPDATE of a write, FOR UPDATE); the first two go together (`Compatible`). There is
one operator per transaction of the task managers and receivers, and one per
transaction in which a method raises and `_call_silently` writes the error
(`...Fails`); `Begin` takes one of `Kinds`, `Acquire` takes the next row when no
other thread has it in a conflicting way, `Advance` goes on to the next step and has the
detector look at it, `End` commits.

The rows there are do not change: a row that one transaction inserts between the
locking query of another and its writes (a subtask, say) is not modelled, nor
are transactions that take a single row, which never wait while they hold one,
and those on tasks without a cluster, of the verification and of the node agent.

### `NodeInventory`

State: `rows` (the table, by id), `mode[m]` (off, bootstrap, installed system),
`lease[m]` (the address DHCP keeps for it), `uid[m]` (the identity file),
`worker[w]` (the request it serves, between which of its queries), and two history
variables, `calm[i]` (how many reports in a row have been applied to row `i`) and
`early` (a lease has ended for a machine that is not installed).

| Actions | Code |
|---|---|
| `AgentRuns`, `AgentGivesUp`, `AnswerId`, ... | `common/nailgun-agent`: POST or PUT by whether there is an identity, the other on 404 or 409; the id of the answer is written down |
| `PostValidates` | the validator of POST |
| `FindsByAddress`, `FindsByMac`, `DeletesConflicts` | the queries of the handlers, with the scp between them; `deleteconfictnode` |
| `Creates`, `Reads`, `Updates` | `Node.create`, `update_by_agent`: the timestamp of every report, the rest only when the checksum differs |
| `UpdateNodesStatus`, `Tick` | the assassin |
| `Provision`, `ProvisionEnds`, `ProvisionFails`, `ResetToDiscover`, `RemoveNode` | what managers and receivers write to the row |
| `Boots`, `PowerOff`, `LeaseEnds` | the machines and the DHCP server (external) |

A deletion or a reset is taken to find the machine settled (`Settled`: its last
request is answered); an agent runs on one thread of cron. The search for a row
by its interfaces is a second lookup of the same machine and left out, as are
disks, meta data and notifications.

### `RoleStatus`

State: `type` and status of the cluster, `node`, `row[r]` (the role's status:
none, stopped, started, stopped after it ran), `job` and `seq` (deploy tasks with
one subtask per role), the shared `cookie`s, `tab[t]`, `orders`, `queue`, and what
really runs: `runs`, `begun`.

| Actions | Code |
|---|---|
| `Press`, `PressDeploy` | a button: writes the cookies (web UI) |
| `Clear`, `Patch`, `Mark` | the requests before the deployment: `DELETE` of ended tasks, `PATCH` of the cluster's status, `ClusterStartRoleHandler` and its siblings, which set the row to what is to be |
| `Look`, `Refuse`, `Create` | `ApplyChangesTaskManager.execute` with the cookies |
| `DeployNodes`, `OperateRole`, `OperateAll`, `AllOperated` and their `...Fails` | one subtask and message per role, or for one; a serializer may raise |
| `Start`, `Cast`, `Abandon`, `Crash` | the end of the request |
| `Answer` | the orchestrator (external): a failed order leaves the role as it was |
| `Consume`, `ConsumeUnacknowledged` | `start_stop_resp`, `deploy_resp`, `Task.update`, `rollback_role_status` |

Left out: progress reports, the stop and the reset of a running operation, type
1 (which has no such buttons) and type 4 (started by a program outside
Nailgun). All roles are in `ebs_rolelist`. Two simplifications:

* The guard of `Cast` has `PATCH` and `DELETE` served before the cast of the `PUT`
  that the page sends after them. This is an assumption: the page
  (`node_list_screen.jsx:556-625`) sends them in this order but does not wait for
  each; that a request which answers at once is overtaken by one that makes
  messages of all roles is not modelled.
* `OperateAll` writes a role's row together with its subtask's. In the code
  `update_cluster_role_status` (`ebsStartall.py:86`) flushes the row after that
  commit, and the next commit of the request commits it: a request that dies
  between the two leaves the row as it was, with a task that nobody casts, which
  `uncast` excepts.

### `GlobalTasks`

State: `node` (status), `os` (whether the machine has a system), `task`, `seq`,
`req`, `orch`, `queue`, and a history variable, `lost`: the tasks that took one of
the paths which leave a row running for ever.

| Actions | Code |
|---|---|
| `Check`, `Create` | `check_running_task`, then, in another transaction, the row (`DumpTaskManager`, `GenerateCapacityLogTaskManager`) |
| `CastDump`, `WriteLog`, `ExecuteFails` | `DumpTask.execute`, `GenerateCapacityLogTask.execute`, either of which may raise |
| `Install`, `InstallStart`, `InstallStartFails`, `InstallCast` | the manager of `installos` |
| `Begin`, `Report`, `Answer`, `AnswerDump` | the orchestrator (external): machines are rebooted into the installer, reported one by one, the task answered |
| `Consume`, `ConsumeUnacknowledged` | `provision_resp`, `dump_environment_resp`, `Task.update` with `_update_nodes_data` |
| `Crash` | a worker dies |

The `DELETE` of ended rows, percentages, and what agents report meanwhile
(`NodeInventory`) are left out.

## 3. Checks

The sets of nodes, workers, machines are sets of model values. `Max...`
constants bound requests, rows, the queue, faults (deaths of a worker, refused
casts, redelivered replies) and events; a bound on rows is large enough that
requests run out first. Deadlock is not checked: a bounded system stops when
its requests are used up, and a system without requests rests.

| Run | Instance | Properties |
|---|---|---|
| `Lifecycle` | eleven kinds of request; one worker, 2 nodes, 2 requests, 1 fault; one worker, 1 node, 3 requests; 2 workers, 1 node, 2 requests, or 3 of provisioning and deletion; the same for updates and selected nodes with the requests they share rows with; `MaxTask` 12, `MaxQueue` 1; symmetry of nodes and workers | `TypeOK`, `SupertaskAgrees`, `NoOrphanSubtask`, `OneDeploymentInTurn`, `ObsoleteGoneInTurn`, `DeletedLeavesNothing`, `ImplementsTaskTable`, `DeletedIsFinal`, `ReleaseAppliedWhole` |
| `LifecycleLive` | 1 node, 1 worker, no faults: 2 of the usual requests, 2 of the others mixed with them, 3 stops and deployments of selected nodes | `EveryTaskEnds` |
| `Verification` | four kinds of request; 2 workers, 2 requests; or 3 requests served in turn; 1 fault; `MaxTask` 6, `MaxQueue` 2 | `TypeOK`, `AskedIsRunning`, `VerdictCountsDhcp`, `OneVerificationInTurn`, `RunningVerificationStays`, `ImplementsTaskTable`, `NetworkTaskEnds` |
| `Locks` | 3 tasks, 2 nodes, the consumer and 2 workers, 13 kinds of transactions | `TypeOK`, `NoDeadlock`, `DetectorIsSilent` |
| `Inventory` | 2 machines, 2 leases, `Timeout` 0, `MaxRow` 4, 3 events; two machines and requests in turn, or one machine and 2 workers; from the start, and from a machine that is being installed | `TypeOK`, `SteadyIsOnline`, `IdentityIsOwn`, `ConflictGoneInTurn`, `MachineIsFound`, `SilentGoesOffline` |
| `Roles` | 2 roles that share a node, types 2, 3 and 5; one tab, 3 presses, 1 fault; or two tabs on EBS, 2 presses | `TypeOK`, `StatusIsTrueInTurn`, `FirstStartInTurn`, `QuietInTurn`, `CastJobEnds` |
| `Global` | 2 machines that start alike; one worker, 3 requests; or two, 2 requests, 1 fault; `MaxTask` 3, `MaxQueue` 2 | `TypeOK`, `RunningIsHandled`, `ProvisioningIsHandled`, `ProvisionedIsInstalled`, `OneAtATimeInTurn`, `InstallationEnds` |

Why the bounds are enough: two nodes are what it takes for a reply to report
some done and others failed, or for a loop to end early; two requests for a
reply to come later than the request that follows it; three for a deployment,
what removes or stops it, and the deployment after it; two workers for a check
to be overtaken between two transactions; one fault because the hazards need one
each. Two leases are what it takes for an address to change hands, four rows for a
vanished machine's row, the row its system makes of itself, and those of the
machine that takes its address. What is proved (section 4) holds of any size.

What they show:

* `SupertaskAgrees`, `NoOrphanSubtask`: the propagation in `objects/task.py`
  keeps supertasks consistent under every interleaving, fault and redelivery.
* `ImplementsTaskTable` (twice): refinement of `TaskTable`. A late progress report
  of an aborted subtask does set it running again, within a transaction whose
  propagation aborts it once more; what is committed never runs twice.
* `OneDeploymentInTurn`, `ObsoleteGoneInTurn`, `OneVerificationInTurn`,
  `OneAtATimeInTurn`, `ConflictGoneInTurn` hold of requests served one after the
  other. They do not of two at once: two workers both find no row to lock, or
  both find nothing running, and both go on.
* `DeletedLeavesNothing`, `DeletedIsFinal`: a cluster that is gone is never
  written to, whatever was under way. Two deletions of one cluster that overlap may
  both go on, since each looks for the other only among the rows its query
  returned (the code would refuse the second, `manager.py:992-996`); what the first
  leaves the second finds.
* `ReleaseAppliedWhole`: the pending release becomes the environment's only with
  an update that left no node in error and the environment operational, although
  reports of deployments and of updates given up since take the same path.
* `EveryTaskEnds` has a hypothesis, `NothingLost`, because two kinds of loss are
  real and not faults: a report nobody takes (`Lost`: the stop it answers was
  removed by a deployment, or the release of the update it answers is not pending any
  more), and a request that finds one of its nodes gone (`Stranded`), whose task stays.
* `VerdictCountsDhcp`: a verification that shows as ready had its DHCP check
  pass, although the two are answered by separate messages.
  `RunningVerificationStays`: although requests delete by name what they take for
  leftovers, none deletes a verification that runs. A *check* is not so safe
  (`FindLostCheck`).
* `NoDeadlock`, `DetectorIsSilent`: thirteen of the kinds of transaction lock in
  one order. Sixteen kinds do not and make a circle with them, each alone added to the
  thirteen:
  `apply_begin`, `selected`, `update`, `reset`, `assign` of the requests;
  `deploy_message`, which flushes its nodes and only then writes the row of its
  subtask, that it never locked (`task.py:127-162`, `manager.py:172`);
  `cast_delete_fails`, `provision_message_fails`, `deploy_message_fails`, `erase_fails`, a
  method that raises; `deploy_ends`, `provision_progress`, `provision_fails`,
  `provision_ends`, `remove_nodes_ends`, `remove_cluster_resp` of the receivers. Two
  more, `apply_nodes` and `apply_delete_fails`, are not in order but lock all the tasks first,
  and TLC finds no circle with either. The detector is silent with any of the
  eighteen, that is, it need not see a circle (`FindDeadlock`).
  `remove_cluster_resp` is one of them although a comment (`rpc/receiver.py:157`)
  says "in remove_nodes_resp method all objects are already locked".
* `SteadyIsOnline`: a row reported twice in a row is online until it is overdue,
  however reports, the assassin and receivers interleave. One report is not
  enough: its handler may have seen the row online, and so not write the flag,
  while the assassin sets it offline before the handler's flush. (`settings.yaml:56`
  would have it "immediately switched to online state".) `IdentityIsOwn` holds until a lease ends for a machine that is
  not installed (`early`): then an address found by one query may be another
  machine's by the next, and the agent takes its id.
* `StatusIsTrueInTurn`: in one tab, at rest, a role's row says whether it runs.
  It has two exceptions, each recorded by a history variable without which
  TLC refutes it. `uncast`: a request that made a task but no message (the
  serializer raised and the error set for it was rolled back, `manager.py:323-333`;
  the worker died; "all" on an environment that is not EBS, `manager.py:406-407`)
  leaves the row as it was marked. `partial`: of several messages of one task one
  failed, and the success of the others is judged by every node of the
  environment (`receiver.py:708-711`). With two tabs the request of one casts what
  the other's cookies say (`manager.py:310`); that every cast task ends
  (`CastJobEnds`) holds all the same.
* `RunningIsHandled`, `ProvisioningIsHandled`: the only tasks without a cluster
  that are left running, or leave nodes in provisioning, are those in `lost`: a
  worker died; a dump failed, on which `Task.update` raises since it has no
  `node_ids`; the message of an installation could not be made, and the manager
  marks the nodes as provisioning after they were set to error and casts null.
  `ProvisionedIsInstalled`: installations of one machine may overlap, since
  nothing looks at the status of its node, and error replies mark every node of the row;
  still, what shows as provisioned is installed or is about to be reinstalled.

### Fairness

`FairSpec` of `ClusterLifecycle` assumes

* `WF_vars(Continue(w))`: a worker that accepted a request runs it to its end.
  It is a thread of the web server; it blocks on row locks only, which are released
  at commit.
* `WF_queue(Delivered)`: the consumer takes what is in the queue
  (`ConsumerMixin.run` loops for ever).
* `WF_vars(... m.task = t /\ Finish(m))` for every task: the orchestrator answers
  every message it was given. This is an assumption on a program outside the
  repository; `task/fake.py` meets it. Nailgun has no timeout for deployments, so
  without it no task need end.

New requests, progress reports and faults have no fairness. `LifecycleLive` has
no faults and no requests on other clusters on purpose: a worker that dies between
its last commit and its cast leaves a supertask running that nothing ends (a
hazard of the list, with no recovery in the code), and the same holds of a task
whose message is answered after a request elsewhere removed it. With a stop
among three requests a second cast of the first stop may end the work of another
deployment without a report; three requests are therefore stops and deployments of
selected nodes only.

The others assume the same of workers, consumer and orchestrator.
`NetworkVerification` takes SF of the answers, because in the model the queue is
bounded and an answer waits for a place in it again and again; its
`NetworkTaskEnds` is conditional on no fault having happened. `RoleStatus` assumes
that a request goes on or its serializer fails, and that some order is
answered while there is any; `GlobalTasks` that some message is worked on.
`NodeInventory` assumes that cron runs the agent of every machine that can reach
the server again and again (SF: it does so only between two requests of the
machine), that workers serve, that the assassin's loop runs and that time goes on.

### Findings

Runs that TLC refutes; each checks one statement the repository makes of
itself (quoted in `PROJECT.json`).

| Run | What happens |
|---|---|
| `FindReset` | a reset is accepted, and removes tasks, while a deployment runs: the check and the deletion are two transactions, and a deploy task shows as ready when its node deletion is answered before its next subtask exists |
| `FindOperational` | a finished deployment leaves the cluster in `deployment`, because its status is set after the answer that made it operational |
| `FindElsewhere` | a request on another cluster removes this one's tasks |
| `FindLostCheck` | a verification deletes the check that a deployment is running; the deployment's request dies and its task runs for ever |
| `FindDeadlock` | a report of provisioning and the deletion of the cluster wait for each other, unseen by the detector |

## 4. Proofs

The theorems hold for any values of the constants that satisfy the named
assumptions of the modules (bounds are naturals, request kinds are known ones,
physical addresses differ, and so on).

| Module | Theorems |
|---|---|
| `ClusterLifecycle_proofs` | `AlwaysIInv`, `TypeCorrect`, `SupertaskAlwaysAgrees`, `NeverOrphanSubtask`, `DeletedAlwaysLeavesNothing`, `DeletedStaysFinal` |
| `ClusterTasks_proofs` | `AlwaysAccounted`, `RowsImplementTable`, `CheckedRowsImplementTable`, `OneDeploymentAlways`, `ObsoleteGoneAlways`, `ReleaseAppliedAlways`, `CheckedReleaseApplied` |
| `NetworkVerification_proofs` | `AlwaysIInv`, `TypeCorrect`, `AskedAlwaysRuns`, `VerdictAlwaysCounts`, `RunningAlwaysStays`, `RowsImplementTable`, `OneVerificationAlways` |
| `RoleStatus_proofs` | `TypeCorrect`, `StatusAlwaysTrue`, `FirstStartAlways`, `QuietAlways` |
| `LockOrder_proofs` | `AlwaysLockInv`, `NeverDeadlock`, `DetectorStaysSilent`, `TypeCorrect` |
| `NodeInventory_proofs` | `TypeCorrect`, `SteadyStaysOnline`, `IdentityStaysOwn`, `ConflictAlwaysGone` |
| `GlobalTasks_proofs` | `TypeCorrect`, `RunningAlwaysHandled`, `ProvisioningAlwaysHandled`, `ProvisionedAlwaysInstalled`, `OneAtATimeAlways` |

**Environment.** The inductive invariant is `IInv == TypeOK /\ Good(db) /\ Refs`:

* `Good(db)` (`NailgunDB_proofs`) is what every committed database satisfies:
  types, rows exactly for used identifiers, only deploy tasks have subtasks,
  supertasks older than their subtasks and agreeing with them, no task when the
  cluster is gone.
* `Refs` says that every task a request, a message or a reply refers to is, or
  was, of the kind the reference is for. It is needed because agreement is not
  preserved by an arbitrary reply: one that named a *deploy* task would set it
  against its subtasks, and a stop reply that named a task which the stop itself
  deletes would give a row that does not exist a status. That no such reply
  exists depends on where its task was created, several steps and
  actors earlier.
* `Follows(d, e)` is the relation of a database to every later one: a row may
  be removed and never changes its name or comes back. It is reflexive and
  transitive and preserves every reference; each operator of `NailgunDB` and each
  handler of `NailgunReceiver` has one lemma that it leads from a `Good` database
  to a `Good` one that follows it.

`ClusterLifecycle_proofs` then has one lemma per action (`...Keeps`), which cites the
lemmas of the operators the action composes; `NextKeeps` collects them.

**Task rows of an environment.** `ImplementsTaskTable` says that no finished task
runs again. A late progress report does set one running: a subtask of a failed
supertask, which the same transaction fails again *if* one of its siblings is still
in error. `Accounts`, the invariant of `ClusterTasks_proofs`, is what makes it so:

* `Sources`: the message or the reports of a task are in one place at a time (with
  one request, with the orchestrator, in the queue), those of a provisioning
  before those of the deployment that waits for it, and a deploy task has one deployment;
* `Families`: when a part of a deploy task has failed and something may still be
  reported of it or added to it, then a part has failed *for good*: nothing but
  a failure is to come of it;
* `Running`: what may still be reported of runs, unless a sibling's failure aborted it.

`AlwaysAccounted` is proved from any rows an environment may start with
(`AnySpec`), so that it serves `Spec` and the instances of `MCSpec` alike; one lemma
per action gives `Accounts'` and that the step is one of `TaskTable` or a stutter.
`OneDeploymentAlways` and `ObsoleteGoneAlways` add `InTurn`: the only worker, between
locking and creating, has locked all the rows there are, since nobody else adds any.
`ReleaseAppliedAlways` needs no invariant beyond `IInv`: each operator of the database
either leaves the release alone or is the end of an update (`KeepsRelease`).

**Verification.** `IInv` says what each request knows of the rows it goes on with
(`Serving`, `Apart`), what the orchestrator has been asked and the queue still says of
a verification and its DHCP check, and in which order (`Asked`, `Queued`, `Rows`).
`VerdictAlwaysCounts` follows from that order: when the end of a verification is
consumed, the answer for its DHCP check has been consumed before it, or the
check is gone, and a redelivered answer for the check finds its verification running.
`RunningAlwaysStays` holds because what a request deletes it has locked and
found not to run, and a row becomes a running verification only in the request that
works on it, which the invariant knows to be the only one. `OneVerificationAlways` adds
`Lone`: the request served has locked the only verification there is.

**Locks.** `NeverDeadlock` is about every set of threads, tasks and nodes, when
`Kinds` holds only kinds that lock in order (the assumption of the theorem;
those of the run `Locks` do). The invariant says that no transaction asks for a
row below one it holds, unless it holds that row already at least as strongly
(`InPlace`); a row that is only referred to and then written would break it. In a
set of transactions each of which waits for a row that another of the set holds,
take the one that holds the greatest row that is waited for: it waits for a
greater one. `DetectorStaysSilent` needs that the
detector's list ends with the table of the current step.

**Inventory.** `TypeCorrect` needs that a bootstrap system has a lease and that a
request at a late stage has read a row. `SteadyStaysOnline` follows a row through
the reports that make it calm and the requests that hold an older copy of it.
`IdentityStaysOwn` needs, as long as no lease has ended early, that leases
belong to one machine, and that the rows, the addresses a request carries, what it has
found, and what it has read are all of the machine that sent it (`OwnInv`).
`ConflictAlwaysGone` needs `Names`: only what the table of physical machines lists is
ever installed, and all rows of such a machine are at its address there, so that an
installed system finds its machine's row before it makes one, and
`deleteconfictnode` finds the row of the system; and `Alone`: what the request
that is served has found to be gone, nobody makes meanwhile.

**Tasks without a cluster.** The type invariant carries who owns which task: a
request between two transactions, a message, a reply, each with the nodes the row
lists. `RunningAlwaysHandled` and `ProvisioningAlwaysHandled` follow each hand-over
(request to message, message to reply, reply to row). `ProvisionedAlwaysInstalled`
strengthens the property by what the queue holds: at every place of it, what a
reply says is installed is so, or a later answer of an installation of the same
machine is under way. `OneAtATimeAlways`, of requests served one after the other,
adds that no other request is between its check and its row.

**Starting and stopping of roles.** `IInv` holds whatever tabs are open: a request that
has made a task works on one of its own that runs, of which nothing is under way
yet, and has an order for each subtask. With one tab, only the last task matters
(`OneJob`): while it runs it is being made, or for each part that runs an order or
a reply is under way, or it was forgotten; that none was forgotten
(`Mindful`) unless `uncast` gives `QuietAlways`.

`StatusAlwaysTrue` is not inductive by far: a row is set before the order is sent
(`ClusterStartRoleHandler`), and rolled back by a reply that may come twice. `CleanInv`
says that, unless a part of several failed, either the last task was forgotten
while it runs, and then refuses every request that follows (`Stuck`), or

* `Flight`: what is under way is about a running part of the last task, each part
  once; a failure is of its only part; a reply that was handled before changes
  nothing the second time (`Handled`);
* `Broken`, `Desk`: which buttons an error leaves, and that roles are asked for only
  when no node is in error;
* `Rows`: a row that nobody has in hand says whether the role runs, and that of a role
  with an order under way will do so whether it succeeds or fails (`Due`).

`FirstStartAlways` needs the same and which orders are "started": those of ONEST,
whose row is then the one that records whether it ever ran.

**Assumptions.** The named ones of the modules: bounds are naturals; requests, kinds
of transaction and types are known ones; addresses of physical machines differ and
are none of the DHCP server's (`MachineAssumption`); a role has nodes
(`RolesAssumption`: the buttons are shown for roles of an environment's nodes); there
is a worker (`WorkerAssumption`); and the instances are possible: some request is
allowed (`RequestAllowed`), their kinds are among the requests (`KindsAllowed`), the one
tab is a tab (`TabAssumption`), the machine that is being installed is listed
(`InstancesAssumption`). TLC evaluates each in the runs. Theorems whose property is
named `...InTurn` are about `MCSpec`, which says which instance serves requests in turn;
its parts differ from `Spec` only in how they start and what they leave out.

**Only model-checked.** Every invariant and action property of the passing runs is
stated by a theorem. What is left to TLC is liveness, which with the `ENABLED`
of its fairness is out of the prover's reach: `EveryTaskEnds`, `NetworkTaskEnds`,
`MachineIsFound`, `SilentGoesOffline`, `CastJobEnds`, `InstallationEnds`; and the five
refutations of section 3. No definition is recursive: the recursion of `Task.update`
through `_update_parent_instance` ends after one level, since a supertask has no
parent, and the loops over nodes are sets or functions.

## 5. Not modelled

* The deployment graph, an adapter of networkx, and the serializers: data
  transformation within one request.
* Network managers and the allocation of addresses: arithmetic of netaddr on
  ranges, within one transaction. The volume manager: sequential arithmetic on
  the disks of one node.
* The MCollective agents: they run on the nodes, behind the orchestrator.
* Physical machines: rows set by background threads around shell commands over
  SSH, sharing no state with tasks and nodes.
* Plugins, statistics, notifications, the expression language, migrations, the
  shell scripts, and of the web UI all but the buttons of roles and of deployment:
  they format data, are vendored, or share no state with the life of an
  environment.

Most lines of the repository are third-party JavaScript libraries and a second
copy of the code under `src/release/`. What is modelled is a few thousand lines of
Python (and some hundred of Ruby and JavaScript), so the share of the whole
is small however much of Nailgun is covered.
