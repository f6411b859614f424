----------------------------- MODULE LockOrder ------------------------------
(***************************************************************************)
(* The row locks that the transactions of task managers and receivers take *)
(* on one cluster, and the deadlock detector of db/deadlock_detector.py    *)
(* that watches them.  PostgreSQL keeps a row lock until the transaction   *)
(* ends; SELECT FOR UPDATE takes the rows one by one in the order of its   *)
(* ORDER BY, a flush takes those it writes in the order of their keys, and *)
(* an INSERT takes the rows that its foreign keys name.                    *)
(*                                                                         *)
(* A transaction is the sequence of its steps, each with the rows it needs;*)
(* what it reads, writes and decides is in the other modules.  One that    *)
(* takes a single row is left out: it never waits while it holds one.      *)
(***************************************************************************)
EXTENDS Integers, Sequences

CONSTANTS
  NTask,     \* tasks of the cluster: a deploy task, its subtasks, a request
  NNode,     \* nodes of the cluster
  Thread,    \* threads of the web server, and the consumer's
  Consumer,  \* the one that runs the receivers
  Kinds      \* kinds of transactions that are run

ASSUME SizeAssumption ==
  /\ NTask \in Nat /\ NTask >= 3
  /\ NNode \in Nat /\ NNode >= 1

VARIABLE txn   \* txn[p]: the transaction of thread p

vars == <<txn>>

(***************************************************************************)
(* Rows are numbered in the order in which tables, and then rows of a      *)
(* table, are to be locked.                                                *)
(***************************************************************************)
Deploy   == 1                       \* the deploy task
Subtasks == 2 .. NTask - 1          \* its subtasks: provision, deployment, ...
Asked    == NTask                   \* a stop, reset or deletion asked for later
Tasks    == 1 .. NTask
Cluster  == NTask + 1
Nodes    == NTask + 2 .. NTask + 1 + NNode
Row      == 1 .. NTask + 1 + NNode

\* The table of a set of rows: those of no row at all are nodes (a reply that
\* names none).
Table(R) ==
  IF R \subseteq Nodes THEN "nodes" ELSE IF R = {Cluster} THEN "clusters" ELSE "tasks"

(***************************************************************************)
(* Steps: rows locked by SELECT FOR UPDATE, which the detector sees, in    *)
(* the order of their keys; rows written by one flush in that order, or by *)
(* flushes of their own in the order of the request; and rows that a       *)
(* flushed INSERT refers to.  A row that the transaction inserts itself is *)
(* seen by no other and is not among them.                                 *)
(***************************************************************************)
Lock(R)      == [op |-> "lock", rows |-> R]
Write(R)     == [op |-> "write", rows |-> R]
WriteEach(R) == [op |-> "each", rows |-> R]
Insert(R)    == [op |-> "insert", rows |-> R]

(***************************************************************************)
(* The strength of the row lock of a step: FOR KEY SHARE, FOR NO KEY       *)
(* UPDATE, FOR UPDATE.  Two transactions have a row together when one of   *)
(* them refers to it and the other does no more than write it.             *)
(***************************************************************************)
Strength(op) == CASE op = "insert" -> 1 [] op = "lock" -> 3 [] OTHER -> 2

Compatible(h, k) == h + k <= 3

(***************************************************************************)
(* Transactions of the task managers.  S stands for the nodes the request  *)
(* names or selects, x for the subtask it is about.                        *)
(***************************************************************************)
ApplyBegin ==
  <<Lock({Deploy, Asked}), Write(Subtasks), Write({Asked}), Insert({Cluster})>>

\* Mutant: the nodes are locked before the tasks.
ApplyDeleteNodesFirst(S) == <<Lock(S), Lock(Tasks), Insert({Cluster}), Write(S)>>

\* The subtask is inserted under the lock of the tasks.
ApplyDelete(S) == <<Lock(Tasks), Insert({Cluster}), Lock(S), Write(S)>>

\* The subtask is inserted when the nodes are locked.
ApplyNodes(S) == <<Lock(Tasks), Lock(S), Write(S), Insert({Cluster})>>

\* Mutant: the task is read under lock when the nodes already are.
ProvisionMessageLate(x, S) == <<Lock(S), Write(S), Lock({x})>>

\* The message is kept in the task's row (make_astute_message); of the same form
\* is the transaction in which selected nodes are marked (manager.py:530-545).
ProvisionMessage(x, S) == <<Lock({x}), Lock(S), Write({x} \cup S)>>

\* The nodes are flushed before the message is kept in the row of the subtask,
\* which was committed before and is not locked.
DeployMessage(x, S) == <<Write(S), Write({x})>>

ApplyKeepMessage(x) == <<Lock({x}), Write({x})>>

ApplyStart(S) == <<Lock(S), Write(S)>>

ApplyCluster == <<Lock({Cluster}), Write({Cluster})>>

SelectedNodes(S) == <<Lock(S), Write(S), Insert({Cluster})>>

UpdateEnvironment(S) == <<Write(S), Write({Cluster}), Write(S)>>

Stop == <<Lock(Subtasks \cup {Asked}), Write({Asked}), Insert({Cluster})>>

\* The rows of a deleted deploy task's subtasks go before its own.
Reset == <<Write(Subtasks), Write({Deploy, Asked})>>

ClusterDeletion ==
  <<Lock(Tasks), Lock({Cluster}), Lock(Nodes),
    Write(Tasks), Write(Nodes), Write({Cluster})>>

\* DeletionTask.execute for the deletion of the cluster, up to its commit.
Erase(S) == <<Lock(S), Write(S)>>

Assignment(S) == <<WriteEach(S)>>

(***************************************************************************)
(* A method that raises: _call_silently sets the task to error in the same *)
(* transaction.  For a subtask of provisioning or deployment Task.update   *)
(* then writes the cluster, nodes in progress and, by the verdict, the     *)
(* deploy task and the other subtasks.                                     *)
(***************************************************************************)
DeployFails == <<Write(Subtasks \cup {Deploy}), Write({Cluster})>>

SubtaskFails(x) ==
  <<Write({x}), Write({Cluster}), Write(Nodes), Write(Subtasks \cup {Deploy})>>

ApplyDeleteFails(S) == ApplyDelete(S) \o DeployFails

CastDeleteFails(x) == <<Write({x})>> \o DeployFails

ProvisionMessageFails(x, S) == <<Lock({x}), Lock(S)>> \o SubtaskFails(x)

DeployMessageFails(x, S) == <<Write(S)>> \o SubtaskFails(x)

StopFails == <<Write({Asked}), Write({Cluster})>>

EraseFails(S) == Erase(S) \o <<Write({Asked})>>

(***************************************************************************)
(* Transactions of the receivers.  Task.update writes the task the reply is *)
(* about, then by its verdict the cluster, nodes that are not named in the *)
(* reply, the deploy task and the other subtasks.                          *)
(***************************************************************************)
DeployResp(S) ==
  <<Lock(Tasks), Lock({Cluster}), Lock(S),
    Write(S), Write(Tasks), Write({Cluster})>>

DeployEnds(S) == DeployResp(S) \o <<Write(Nodes)>>

ProvisionProgress(x, S) ==
  <<Lock({x}), Lock(S), Write(S), Write({x}), Write({Deploy})>>

\* The report that makes the deploy task ready.
ProvisionEnds(x, S) ==
  ProvisionProgress(x, S) \o <<Write({Cluster}), Write(Nodes)>>

ProvisionFails(x, S) == <<Lock({x}), Lock(S), Write(S)>> \o SubtaskFails(x)

RemoveNodesResp(x, S) ==
  <<Lock(Tasks), Lock({x}), Lock({Cluster}), Lock(S), Write(S), Write(Tasks),
    Write({Cluster})>>

RemoveNodesEnds(x, S) == RemoveNodesResp(x, S) \o <<Write(Nodes)>>

\* "in remove_nodes_resp method all objects are already locked", but for nodes
\* of the cluster that the reply does not name.
RemoveClusterResp(S) ==
  RemoveNodesResp(Asked, S) \o <<Write(Tasks), Write(Nodes), Write({Cluster})>>

StopResp(S) ==
  <<Lock(Tasks), Lock({Deploy} \cup Subtasks), Lock({Cluster}), Lock(S),
    Write(S \cup Tasks \cup {Cluster})>>

ResetResp(S) ==
  <<Lock({Asked}), Lock({Cluster}), Write({Cluster}), Lock(S), Write(S),
    Write({Asked})>>

NodeSets == SUBSET Nodes

\* The kinds of transactions, by who runs them, with all their choices.
Managers(k) ==
  CASE k = "apply_begin"   -> {ApplyBegin}
    [] k = "apply_delete"  -> {ApplyDelete(S) : S \in NodeSets}
    [] k = "apply_nodes"   -> {ApplyNodes(S) : S \in NodeSets}
    [] k = "provision_message" ->
         {ProvisionMessage(x, S) : x \in Subtasks, S \in NodeSets}
    [] k = "deploy_message" ->
         {DeployMessage(x, S) : x \in Subtasks, S \in NodeSets}
    [] k = "apply_keep"    -> {ApplyKeepMessage(x) : x \in Subtasks}
    [] k = "apply_start"   -> {ApplyStart(S) : S \in NodeSets}
    [] k = "apply_cluster" -> {ApplyCluster}
    [] k = "selected"      -> {SelectedNodes(S) : S \in NodeSets}
    [] k = "update"        -> {UpdateEnvironment(S) : S \in NodeSets}
    [] k = "stop"          -> {Stop}
    [] k = "reset"         -> {Reset}
    [] k = "delete"        -> {ClusterDeletion}
    [] k = "erase"         -> {Erase(S) : S \in NodeSets}
    [] k = "assign"        -> {Assignment(S) : S \in NodeSets}
    [] OTHER               -> {}

\* Those of task managers when a method raises.
Failures(k) ==
  CASE k = "apply_delete_fails" -> {ApplyDeleteFails(S) : S \in NodeSets}
    [] k = "cast_delete_fails"  -> {CastDeleteFails(x) : x \in Subtasks}
    [] k = "provision_message_fails" ->
         {ProvisionMessageFails(x, S) : x \in Subtasks, S \in NodeSets}
    [] k = "deploy_message_fails" ->
         {DeployMessageFails(x, S) : x \in Subtasks, S \in NodeSets}
    [] k = "stop_fails"  -> {StopFails}
    [] k = "erase_fails" -> {EraseFails(S) : S \in NodeSets}
    [] OTHER             -> {}

Receivers(k) ==
  CASE k = "deploy_resp" -> {DeployResp(S) : S \in NodeSets}
    [] k = "deploy_ends" -> {DeployEnds(S) : S \in NodeSets}
    [] k = "provision_progress" ->
         {ProvisionProgress(x, S) : x \in Subtasks, S \in NodeSets}
    [] k = "provision_ends" ->
         {ProvisionEnds(x, S) : x \in Subtasks, S \in NodeSets}
    [] k = "provision_fails" ->
         {ProvisionFails(x, S) : x \in Subtasks, S \in NodeSets}
    [] k = "remove_nodes_resp" ->
         {RemoveNodesResp(x, S) : x \in Subtasks, S \in NodeSets}
    [] k = "remove_nodes_ends" ->
         {RemoveNodesEnds(x, S) : x \in Subtasks, S \in NodeSets}
    [] k = "remove_cluster_resp" -> {RemoveClusterResp(S) : S \in NodeSets}
    [] k = "stop_resp"   -> {StopResp(S) : S \in NodeSets}
    [] k = "reset_resp"  -> {ResetResp(S) : S \in NodeSets}
    [] OTHER             -> {}

Programs(p) ==
  UNION {IF p = Consumer THEN Receivers(k) ELSE Managers(k) \cup Failures(k) :
           k \in Kinds}

------------------------------------------------------------------------------
(***************************************************************************)
(* The detector: each thread has the list of tables it has locked.  A lock *)
(* is told to it when its query is made, before its rows are waited for.   *)
(***************************************************************************)
Allowed == {<<"clusters", "nodes">>, <<"tasks", "clusters">>, <<"tasks", "nodes">>}

\* Mutant: the table is listed again for every query.
HandleEveryLock(ctx, t) == Append(ctx, t)

HandleLock(ctx, t) ==
  IF ctx # <<>> /\ ctx[Len(ctx)] = t THEN ctx ELSE Append(ctx, t)

\* What the detector's list becomes when step s is begun: every flush cleans it.
Context(ctx, s) ==
  IF s.op = "lock" THEN HandleLock(ctx, Table(s.rows)) ELSE <<>>

------------------------------------------------------------------------------
\* held[r]: the strength with which a transaction has row r, 0 for not at all.
NoRows == [r \in Row |-> 0]

NoTxn == [prog |-> <<>>, at |-> 0, held |-> NoRows, ctx |-> <<>>]

Active(p) == txn[p].at > 0

\* The step that thread p is at, and the rows it has yet to get for it.
Step(p)   == txn[p].prog[txn[p].at]
Needed(p) == Strength(Step(p).op)
Wanted(p) ==
  IF Active(p) THEN {r \in Step(p).rows : txn[p].held[r] < Needed(p)} ELSE {}

\* The rows of which p asks for one next.
NextRows(p) ==
  IF Wanted(p) # {} /\ Step(p).op # "each"
  THEN {r \in Wanted(p) : \A s \in Wanted(p) : r <= s}
  ELSE Wanted(p)

Free(p, r) == \A q \in Thread \ {p} : Compatible(txn[q].held[r], Needed(p))

\* What p asks for next, q has in a way that keeps p from it.
WaitsFor(p, q) ==
  /\ q # p
  /\ NextRows(p) # {}
  /\ \A r \in NextRows(p) : ~ Compatible(txn[q].held[r], Needed(p))

Init == txn = [p \in Thread |-> NoTxn]

Begin(p) ==
  /\ ~ Active(p)
  /\ \E prog \in Programs(p) :
       txn' = [txn EXCEPT ![p] = [prog |-> prog, at |-> 1, held |-> NoRows,
                                  ctx |-> Context(<<>>, prog[1])]]

Acquire(p) ==
  \E r \in NextRows(p) :
    /\ Free(p, r)
    /\ txn' = [txn EXCEPT ![p].held[r] = Needed(p)]

Advance(p) ==
  /\ Active(p)
  /\ Wanted(p) = {}
  /\ txn[p].at < Len(txn[p].prog)
  /\ txn' = [txn EXCEPT ![p].at = @ + 1,
                        ![p].ctx = Context(@, txn[p].prog[txn[p].at + 1])]

\* The transaction is committed after its last step, or ends before it: a
\* refusal, an early return, or an exception and a rollback.
End(p) ==
  /\ Active(p)
  /\ Wanted(p) = {}
  /\ txn' = [txn EXCEPT ![p] = NoTxn]

Next == \E p \in Thread : Begin(p) \/ Acquire(p) \/ Advance(p) \/ End(p)

Spec == Init /\ [][Next]_vars

------------------------------------------------------------------------------
\* A thread runs one of its transactions and holds rows of the cluster, and the
\* detector's list for it names each of the three tables at most once.
TypeOK ==
  /\ txn \in [Thread -> [prog : {<<>>} \cup UNION {Programs(p) : p \in Thread},
                         at : Nat, held : [Row -> 0 .. 3],
                         ctx : Seq({"tasks", "clusters", "nodes"})]]
  /\ \A p \in Thread : Len(txn[p].ctx) <= 3

\* No set of transactions waits in a circle for each other's rows, which is what
\* the orders of SELECT FOR UPDATE in managers and receivers are for.
NoDeadlock ==
  \A P \in (SUBSET Thread) \ {{}} : \E p \in P : \A q \in P : ~ WaitsFor(p, q)

\* No query of the managers and receivers raises LockTransitionNotAllowedError:
\* whatever a thread locked since its last flush, in an allowed order.
DetectorIsSilent ==
  \A p \in Thread : \A i \in 1 .. Len(txn[p].ctx) - 1 :
    <<txn[p].ctx[i], txn[p].ctx[i + 1]>> \in Allowed

(***************************************************************************)
(* "Possible deadlock found while attempting to lock table"                *)
(* (db/deadlock_detector.py): transactions in a deadlock include one that  *)
(* the detector stops at a transition that is not allowed.                 *)
(***************************************************************************)
DeadlockIsForeseen == DetectorIsSilent => NoDeadlock

==============================================================================
