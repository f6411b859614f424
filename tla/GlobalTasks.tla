----------------------------- MODULE GlobalTasks ------------------------------
(***************************************************************************)
(* Tasks that belong to no environment: diagnostic snapshots (dump), the   *)
(* capacity log, and the installation of an operating system on machines  *)
(* that no environment has taken.                                          *)
(*                                                                         *)
(* Their rows have no supertask.  A task of an installation keeps the      *)
(* nodes it is about in node_ids, from which Task.update marks them when   *)
(* it fails; those of the other kinds have none, and Task.update raises.   *)
(***************************************************************************)
EXTENDS Integers, FiniteSets, Sequences

CONSTANTS
  Node,         \* machines without an environment
  Worker,       \* threads of the web server
  MaxTask,      \* bound: rows created
  MaxRequests,  \* bound: requests
  MaxQueue,     \* bound: replies in the queue
  MaxFaults     \* bound: requests that fail on the way, redelivered replies

ASSUME BoundsAssumption ==
  MaxTask \in Nat /\ MaxRequests \in Nat /\ MaxQueue \in Nat /\ MaxFaults \in Nat

VARIABLES
  node,    \* the status of the nodes
  os,      \* what is on the machines: a system, none (wiped)
  task,    \* the rows of tasks without a cluster
  seq,     \* the last of their identifiers
  req,     \* per worker: where its request is
  orch,    \* the messages the orchestrator works on
  queue,   \* its replies
  lost,    \* history: the tasks that failed in a way that leaves their row
  budget   \* what is left of the bounds on requests and faults

vars == <<node, os, task, seq, req, orch, queue, lost, budget>>

TaskId == 1 .. MaxTask
NoTaskId == 0

\* The kinds that check_running_task allows one of at a time.
Single == {"dump", "capacity_log"}
Kinds == Single \cup {"provision"}

NoTask == [name |-> "none", nodes |-> {}, status |-> "none"]
Row == [name : Kinds, nodes : SUBSET Node, status : {"running", "ready", "error"}]

Idle == [pc |-> "idle", kind |-> "dump", task |-> NoTaskId]
Off == [Idle EXCEPT !.pc = "off"]

\* begun: the orchestrator has rebooted the machines for it.
Message == [task : TaskId, kind : {"dump", "provision"}, nodes : SUBSET Node,
            begun : BOOLEAN]

\* What a reply says of the task, "none" in a report of progress, and of nodes.
Reply == [task : TaskId, status : {"none", "ready", "error"},
          installed : SUBSET Node, failed : SUBSET Node]

\* The workers W serve requests.
InitOf(W, requests, faults) ==
  /\ os = [n \in Node |-> "system"]
  /\ node \in [Node -> {"discover", "provisioned"}]
  /\ task = [t \in TaskId |-> NoTask]
  /\ seq = 0
  /\ req = [w \in Worker |-> IF w \in W THEN Idle ELSE Off]
  /\ orch = {}
  /\ queue = <<>>
  /\ lost = {}
  /\ budget = [requests |-> requests, faults |-> faults]

Init == InitOf(Worker, MaxRequests, MaxFaults)

Ask == budget.requests > 0 /\ budget' = [budget EXCEPT !.requests = @ - 1]
Fault == budget.faults > 0 /\ budget' = [budget EXCEPT !.faults = @ - 1]

Goto(w, pc) == req' = [req EXCEPT ![w] = [@ EXCEPT !.pc = pc]]
Ends(w) == req' = [req EXCEPT ![w] = Idle]

Named(k, st) == {t \in TaskId : task[t].name = k /\ task[t].status \in st}

\* Mutant: a row takes the identifier of the next one.
CreatesUncounted(w, k, nodes, pc) ==
  /\ seq < MaxTask
  /\ seq' = seq
  /\ task' = [task EXCEPT ![seq + 1] =
                [name |-> k, nodes |-> nodes, status |-> "running"]]
  /\ req' = [req EXCEPT ![w] = [pc |-> pc, kind |-> k, task |-> seq + 1]]

\* A row in a transaction of its own, and the request that goes on with it.
Creates(w, k, nodes, pc) ==
  /\ seq < MaxTask
  /\ seq' = seq + 1
  /\ task' = [task EXCEPT ![seq + 1] =
                [name |-> k, nodes |-> nodes, status |-> "running"]]
  /\ req' = [req EXCEPT ![w] = [pc |-> pc, kind |-> k, task |-> seq + 1]]

------------------------------------------------------------------------------
(***************************************************************************)
(* DumpTaskManager and GenerateCapacityLogTaskManager.                     *)
(***************************************************************************)

\* Mutant: check_running_task no longer raises.
RunningUnchecked(k) == {}

\* The rows that make check_running_task raise.
Running(k) == Named(k, {"running"})

\* check_running_task: it raises, having removed any rows it met before, or it
\* removes all.
Check(w, k) ==
  /\ req[w].pc = "idle"
  /\ Ask
  /\ \/ /\ Running(k) = {}
        /\ task' = [t \in TaskId |-> IF t \in Named(k, {"ready", "error"})
                                     THEN NoTask ELSE task[t]]
        /\ req' = [req EXCEPT ![w] =
                      [pc |-> "create", kind |-> k, task |-> NoTaskId]]
     \/ /\ Running(k) # {}
        /\ \E gone \in SUBSET Named(k, {"ready", "error"}) :
             task' = [t \in TaskId |-> IF t \in gone THEN NoTask ELSE task[t]]
        /\ UNCHANGED req
  /\ UNCHANGED <<node, os, seq, orch, queue, lost>>

Create(w) ==
  /\ req[w].pc = "create"
  /\ Creates(w, req[w].kind, {}, "execute")
  /\ UNCHANGED <<node, os, orch, queue, lost, budget>>

\* DumpTask.execute casts and is done.
CastDump(w) ==
  /\ req[w].pc = "execute" /\ req[w].kind = "dump"
  /\ orch' = orch \cup {[task |-> req[w].task, kind |-> "dump", nodes |-> {},
                         begun |-> FALSE]}
  /\ Ends(w)
  /\ UNCHANGED <<node, os, task, seq, queue, lost, budget>>

\* GenerateCapacityLogTask.execute does all there is to do.
WriteLog(w) ==
  /\ req[w].pc = "execute" /\ req[w].kind = "capacity_log"
  /\ task' = [task EXCEPT ![req[w].task].status = "ready"]
  /\ Ends(w)
  /\ UNCHANGED <<node, os, seq, orch, queue, lost, budget>>

\* execute raises; _call_silently would set the task to error, but Task.update
\* raises for want of node_ids, and the request is rolled back.
ExecuteFails(w) ==
  /\ req[w].pc = "execute"
  /\ Fault
  /\ lost' = lost \cup {req[w].task}
  /\ Ends(w)
  /\ UNCHANGED <<node, os, task, seq, orch, queue>>

------------------------------------------------------------------------------
(***************************************************************************)
(* InstallosTaskManager.                                                   *)
(***************************************************************************)

\* The handler takes the nodes it is given, whatever their status.
Install(w, nodes) ==
  /\ req[w].pc = "idle"
  /\ Ask
  /\ Creates(w, "provision", nodes, "start")
  /\ UNCHANGED <<node, os, orch, queue, lost>>

\* The nodes of the task are read again, and marked.
Mark(t) == [n \in Node |-> IF n \in task[t].nodes THEN "provisioning" ELSE node[n]]

\* The message is made, kept in the row, and the nodes are marked.
InstallStart(w) ==
  /\ req[w].pc = "start"
  /\ node' = Mark(req[w].task)
  /\ Goto(w, "cast")
  /\ UNCHANGED <<os, task, seq, orch, queue, lost, budget>>

\* The message cannot be made: _call_silently sets the task and its nodes to
\* error, and the manager goes on: it reads the nodes again, marks them all the
\* same, and casts no message.
InstallStartFails(w) ==
  /\ req[w].pc = "start"
  /\ Fault
  /\ node' = Mark(req[w].task)
  /\ task' = [task EXCEPT ![req[w].task].status = "error"]
  /\ lost' = lost \cup {req[w].task}
  /\ Ends(w)
  /\ UNCHANGED <<os, seq, orch, queue>>

InstallCast(w) ==
  /\ req[w].pc = "cast"
  /\ orch' = orch \cup {[task |-> req[w].task, kind |-> "provision",
                         nodes |-> task[req[w].task].nodes, begun |-> FALSE]}
  /\ Ends(w)
  /\ UNCHANGED <<node, os, task, seq, queue, lost, budget>>

\* The worker dies, or the broker refuses the cast of an installation.
Crash(w) ==
  /\ req[w].pc \in {"start", "cast"}
  /\ Fault
  /\ lost' = lost \cup {req[w].task}
  /\ Ends(w)
  /\ UNCHANGED <<node, os, task, seq, orch, queue>>

------------------------------------------------------------------------------
(***************************************************************************)
(* The orchestrator.                                                       *)
(***************************************************************************)

Send(m, status, installed, failed) ==
  /\ Len(queue) < MaxQueue
  /\ queue' = Append(queue, [task |-> m.task, status |-> status,
                             installed |-> installed, failed |-> failed])

\* The machines are rebooted into the installer.
Begin(m) ==
  /\ m.kind = "provision" /\ ~ m.begun
  /\ orch' = (orch \ {m}) \cup {[m EXCEPT !.begun = TRUE]}
  /\ os' = [n \in Node |-> IF n \in m.nodes THEN "none" ELSE os[n]]
  /\ UNCHANGED <<node, task, seq, req, queue, lost, budget>>

\* One of them is done before the others are.  Reports of machines still being
\* installed, which write percentages, are left out.
Report(m, n) ==
  /\ m.begun /\ n \in m.nodes /\ os[n] = "none"
  /\ Send(m, "none", {n}, {})
  /\ os' = [os EXCEPT ![n] = "system"]
  /\ UNCHANGED <<node, task, seq, req, orch, lost, budget>>

\* The end: with the nodes that failed, or with an error that names none.
Answer(m) ==
  /\ m.begun
  /\ orch' = orch \ {m}
  /\ \E failed \in SUBSET m.nodes :
       /\ os' = [n \in Node |-> IF n \in failed THEN "none"
                                ELSE IF n \in m.nodes THEN "system" ELSE os[n]]
       /\ \/ Send(m, "ready", m.nodes \ failed, failed)
          \/ Send(m, "error", {}, {})
  /\ UNCHANGED <<node, task, seq, req, lost, budget>>

AnswerDump(m) ==
  /\ m.kind = "dump"
  /\ orch' = orch \ {m}
  /\ \E status \in {"ready", "error"} : Send(m, status, {}, {})
  /\ UNCHANGED <<node, os, task, seq, req, lost, budget>>

------------------------------------------------------------------------------
(***************************************************************************)
(* The receiver: provision_resp and dump_environment_resp.                 *)
(***************************************************************************)

\* The status of m's task after Task.update; reports of progress have none.
StatusAfter(m) == IF m.status = "none" THEN task[m.task].status ELSE m.status

\* Mutant: Task.update leaves the nodes of a failed installation alone.
ReportedOnly(m) ==
  [n \in Node |-> IF n \in m.failed THEN "error"
                  ELSE IF n \in m.installed THEN "provisioned" ELSE node[n]]

\* The nodes after reply m about an installation: those it names, and all the
\* task is about when it has failed.
Reported(m) ==
  [n \in Node |->
     IF (StatusAfter(m) = "error" /\ n \in task[m.task].nodes) \/ n \in m.failed
     THEN "error"
     ELSE IF n \in m.installed THEN "provisioned" ELSE node[n]]

\* Mutant: node_ids is not kept for installations either.
ReceiveWithoutIds(m) ==
  IF task[m.task].name = "none" \/ m.status = "error"
  THEN UNCHANGED <<node, task, lost>>
  ELSE /\ node' = Reported(m)
       /\ task' = [task EXCEPT ![m.task].status = StatusAfter(m)]
       /\ UNCHANGED lost

\* A reply to a task that is gone changes nothing.  So does a dump's error, which
\* is rolled back since Task.update raises for want of node_ids.
Receive(m) ==
  IF task[m.task].name = "none" THEN UNCHANGED <<node, task, lost>>
  ELSE IF task[m.task].name = "dump" /\ m.status = "error"
  THEN lost' = lost \cup {m.task} /\ UNCHANGED <<node, task>>
  ELSE /\ node' = Reported(m)
       /\ task' = [task EXCEPT ![m.task].status = StatusAfter(m)]
       /\ UNCHANGED lost

Consume ==
  /\ queue # <<>>
  /\ Receive(Head(queue))
  /\ queue' = Tail(queue)
  /\ UNCHANGED <<os, seq, req, orch, budget>>

\* The consumer dies after the commit: the reply will be delivered again.
ConsumeUnacknowledged ==
  /\ queue # <<>>
  /\ Fault
  /\ Receive(Head(queue))
  /\ UNCHANGED <<os, seq, req, orch, queue>>

------------------------------------------------------------------------------
Continue(w) ==
  Create(w) \/ CastDump(w) \/ WriteLog(w) \/ InstallStart(w) \/ InstallCast(w)

Work(m) == Begin(m) \/ Answer(m) \/ AnswerDump(m)

Next ==
  \/ \E w \in Worker :
       \/ \E k \in Single : Check(w, k)
       \/ \E nodes \in SUBSET Node \ {{}} : Install(w, nodes)
       \/ Continue(w)
       \/ ExecuteFails(w) \/ InstallStartFails(w) \/ Crash(w)
  \/ \E m \in orch : Work(m) \/ \E n \in m.nodes : Report(m, n)
  \/ Consume \/ ConsumeUnacknowledged

Spec == Init /\ [][Next]_vars

\* Workers serve requests to their end, the consumer takes what is in the queue,
\* the orchestrator begins and ends what it was sent.
Fairness ==
  /\ \A w \in Worker : WF_vars(Continue(w))
  /\ WF_vars(Consume)
  /\ WF_vars(\E m \in orch : Work(m))

FairSpec == Spec /\ Fairness

------------------------------------------------------------------------------
(***************************************************************************)
(* Properties.                                                             *)
(***************************************************************************)

\* Types of all variables; rows are those of used identifiers, and only those of
\* installations have nodes.
TypeOK ==
  /\ node \in [Node -> {"discover", "provisioning", "provisioned", "error"}]
  /\ os \in [Node -> {"system", "none"}]
  /\ seq \in 0 .. MaxTask
  /\ task \in [TaskId -> Row \cup {NoTask}]
  /\ \A t \in TaskId : /\ t > seq => task[t] = NoTask
                       /\ task[t].name # "provision" => task[t].nodes = {}
  /\ req \in [Worker -> [pc : {"off", "idle", "create", "execute", "start",
                               "cast"},
                         kind : Kinds, task : 0 .. MaxTask]]
  /\ orch \subseteq Message
  /\ queue \in Seq(Reply)
  /\ lost \subseteq TaskId

\* Some worker, the orchestrator or the queue has task t in hand.
Handled(t) ==
  \/ \E w \in Worker : req[w].task = t
  \/ \E m \in orch : m.task = t
  \/ \E i \in DOMAIN queue : queue[i].task = t /\ queue[i].status # "none"

\* "Dump already running" (errors.DumpRunning) is true when it is said, and every
\* other task that runs will end too, unless it has failed in a way that is known
\* to leave its row: a row that runs is in somebody's hands.
RunningIsHandled ==
  \A t \in TaskId : task[t].status = "running" => t \in lost \/ Handled(t)

\* A node in provisioning, which the operator cannot choose again, is being
\* installed, or the task that marked it is lost (the comment on node_ids in
\* InstallosTaskManager.execute: they are needed when an installation fails).
ProvisioningIsHandled ==
  \A n \in Node : node[n] = "provisioning" =>
    \E t \in TaskId : n \in task[t].nodes /\ (t \in lost \/ Handled(t))

\* A node shown as provisioned has a system on it, unless an installation that
\* names it is still under way: also when installations of the same machine
\* overlap, one of them fails and says of no node that it did (the comment at the
\* head of provision_resp), and replies are handled twice.
ProvisionedIsInstalled ==
  \A n \in Node : node[n] = "provisioned" =>
    \/ os[n] = "system"
    \/ \E t \in TaskId : n \in task[t].nodes /\ Handled(t)

\* At most one snapshot and one capacity log is being made (check_running_task).
OneAtATime == \A k \in Single : Cardinality(Named(k, {"running"})) <= 1

\* A machine whose installation was cast leaves provisioning, one way or the
\* other, whoever else installs it meanwhile.
InstallationEnds ==
  \A n \in Node :
    (\E m \in orch : n \in m.nodes) ~> node[n] # "provisioning"

==============================================================================
