------------------------- MODULE NetworkVerification --------------------------
(***************************************************************************)
(* The check and the verification of an environment's networks.            *)
(*                                                                         *)
(* A verification runs in a worker (CheckNetworksTask), then on the nodes: *)
(* the row its request made as check_networks is renamed verify_networks,  *)
(* gets a check_dhcp subtask, and both are sent to the orchestrator in one *)
(* message. Saving the network settings makes a check_networks row of its  *)
(* own, and so does a deployment before it starts. All of them share the   *)
(* tasks table and tidy up what they take for leftovers of one another.    *)
(***************************************************************************)
EXTENDS Integers, FiniteSets, Sequences

CONSTANTS
  Worker,        \* the REST workers that serve requests concurrently
  Requests,      \* the kinds of requests users make
  MaxTask,       \* bound: task rows created
  MaxRequests,   \* bound: requests served
  MaxQueue,      \* bound: replies in the queue
  MaxFaults      \* bound: workers that die, refused casts, redelivered replies

ASSUME WorkerAssumption == Worker # {}
ASSUME RequestsAssumption ==
  Requests \subseteq {"verify", "check", "remove", "deploy"}
ASSUME BoundsAssumption ==
  MaxTask \in Nat /\ MaxRequests \in Nat /\ MaxQueue \in Nat /\ MaxFaults \in Nat

VARIABLES
  task,      \* the rows of the tasks table, as committed
  seq,       \* the last identifier the tasks sequence gave out
  deploying, \* the environment has the status deployment (or update)
  req,       \* per worker: the request it is serving
  orch,      \* the verifications the orchestrator is working on
  queue,     \* its replies, on the nailgun queue
  budget     \* what is left of the bounds on requests and faults

vars == <<task, seq, deploying, req, orch, queue, budget>>

TaskId == 1 .. MaxTask
NoTask == 0

TaskNames == {"check_networks", "verify_networks", "check_dhcp", "deploy"}
TaskStatuses == {"running", "ready", "error"}

\* "none" is the name and the status of an identifier without a row.
TaskRow == [name   : TaskNames \cup {"none"},
            status : TaskStatuses \cup {"none"},
            parent : TaskId \cup {NoTask}]

NoRow == [name |-> "none", status |-> "none", parent |-> NoTask]

\* What VerifyNetworksTask casts: the task and its DHCP subtask, and whether
\* the orchestrator has answered for the subtask yet.
Message == [task : TaskId, dhcp : TaskId, answered : BOOLEAN]

\* lost: some node or VLAN the verification was about is not in the reply.
Reply == [method : {"verify_networks_resp", "check_dhcp_resp"},
          task   : TaskId, status : TaskStatuses, lost : BOOLEAN]

Places == {"idle", "verify_create", "verify_check", "verify_cast",
           "check_create", "check_run", "check_save",
           "deploy_check", "deploy_start"}

\* rows: what a SELECT ... FOR UPDATE saw; task, sub: the rows the request made;
\* blocked: the status the environment had when the request read it.
Request == [pc : Places, rows : SUBSET TaskId, task : TaskId \cup {NoTask},
            sub : TaskId \cup {NoTask}, blocked : BOOLEAN]

Idle == [pc |-> "idle", rows |-> {}, task |-> NoTask, sub |-> NoTask,
         blocked |-> FALSE]

------------------------------------------------------------------------------
(***************************************************************************)
(* Rows.                                                                   *)
(***************************************************************************)

Exists(t) == t \in TaskId /\ task[t].name # "none"

Named(names) == {t \in TaskId : task[t].name \in names}

Running(names) == {t \in Named(names) : task[t].status = "running"}

Subtasks(p) == {t \in TaskId : task[t].name # "none" /\ task[t].parent = p}

\* What is gone with the rows S: the subtasks relationship cascades.
WithSubtasks(S) == S \cup UNION {Subtasks(p) : p \in S}

Without(S) == [t \in TaskId |-> IF t \in WithSubtasks(S) THEN NoRow ELSE task[t]]

Row(name, status, parent) == [name |-> name, status |-> status, parent |-> parent]

WithStatus(t, st) == [task EXCEPT ![t] = [@ EXCEPT !.status = st]]

\* The first of the rows S in the order of their identifiers.
First(S) == CHOOSE t \in S : \A u \in S : t <= u

FirstOf(S) == IF S = {} THEN {} ELSE {First(S)}

Room == seq < MaxTask

Goto(w, pc) == req' = [req EXCEPT ![w] = [@ EXCEPT !.pc = pc]]

Return(w) == req' = [req EXCEPT ![w] = Idle]

------------------------------------------------------------------------------
InitOf(requests) ==
  /\ task = [t \in TaskId |-> NoRow]
  /\ seq = 0
  /\ deploying \in BOOLEAN
  /\ req = [w \in Worker |-> Idle]
  /\ orch = {}
  /\ queue = <<>>
  /\ budget = [requests |-> requests, faults |-> MaxFaults]

Init == InitOf(MaxRequests)

Accept(w, kind) ==
  /\ req[w].pc = "idle"
  /\ kind \in Requests
  /\ budget.requests > 0
  /\ budget' = [budget EXCEPT !.requests = @ - 1]

(***************************************************************************)
(* VerifyNetworksTaskManager: PUT .../network_configuration/.../verify.    *)
(***************************************************************************)

NetworkNames == {"check_networks", "verify_networks"}

\* Mutant: only the rows of checks are locked and tidied up.
VerifyLockChecks(w) ==
  /\ Accept(w, "verify")
  /\ req' = [req EXCEPT ![w] =
       [Idle EXCEPT !.pc = "verify_create", !.rows = Named({"check_networks"}),
                    !.blocked = deploying]]
  /\ UNCHANGED <<task, seq, deploying, orch, queue>>

\* The environment is read when the request comes in; then the rows of earlier
\* checks are locked, as the statement sees them when it starts.
VerifyLock(w) ==
  /\ Accept(w, "verify")
  /\ req' = [req EXCEPT ![w] =
       [Idle EXCEPT !.pc = "verify_create", !.rows = Named(NetworkNames),
                    !.blocked = deploying]]
  /\ UNCHANGED <<task, seq, deploying, orch, queue>>

\* Those of the rows that are still there once they are locked.
Locked(w, name) == req[w].rows \cap Named({name})

\* Mutant: the verification to be removed is not asked whether it runs.
OldVerificationAny(w) == {}

OldVerificationRuns(w) ==
  FirstOf(Locked(w, "verify_networks")) \cap Running({"verify_networks"})

Leftovers(w) ==
  FirstOf(Locked(w, "check_networks")) \cup FirstOf(Locked(w, "verify_networks"))

\* CantRemoveOldVerificationTask: HTTP 400, on which load_db_driver rolls back:
\* the check row deleted just before comes back.
VerifyRefuse(w) ==
  /\ req[w].pc = "verify_create"
  /\ OldVerificationRuns(w) # {}
  /\ Return(w)
  /\ UNCHANGED <<task, seq, deploying, orch, queue, budget>>

\* remove_previous_task and the new row: in error at once when the environment
\* is blocked or has too few nodes or too many node groups.
VerifyCreate(w) ==
  /\ req[w].pc = "verify_create"
  /\ OldVerificationRuns(w) = {}
  /\ Room
  /\ seq' = seq + 1
  /\ \/ /\ task' = [Without(Leftovers(w)) EXCEPT
                      ![seq'] = Row("check_networks", "error", NoTask)]
        /\ Return(w)
     \/ /\ ~ req[w].blocked
        /\ task' = [Without(Leftovers(w)) EXCEPT
                      ![seq'] = Row("check_networks", "running", NoTask)]
        /\ req' = [req EXCEPT ![w] =
             [Idle EXCEPT !.pc = "verify_check", !.task = seq']]
  /\ UNCHANGED <<deploying, orch, queue, budget>>

\* CheckNetworksTask, and when it passes the new name and the DHCP subtask.
VerifyCheck(w) ==
  /\ req[w].pc = "verify_check"
  /\ Exists(req[w].task)
  /\ \/ /\ task' = WithStatus(req[w].task, "error")
        /\ seq' = seq
        /\ Return(w)
     \/ /\ Room
        /\ seq' = seq + 1
        /\ task' = [task EXCEPT
             ![req[w].task] = [@ EXCEPT !.name = "verify_networks"],
             ![seq'] = Row("check_dhcp", "running", req[w].task)]
        /\ req' = [req EXCEPT ![w] =
             [@ EXCEPT !.pc = "verify_cast", !.sub = seq']]
  /\ UNCHANGED <<deploying, orch, queue, budget>>

\* VerifyNetworksTask.execute: one message for the task and its subtask.
VerifyCast(w) ==
  /\ req[w].pc = "verify_cast"
  /\ Exists(req[w].task)
  /\ orch' = orch \cup {[task |-> req[w].task, dhcp |-> req[w].sub,
                         answered |-> FALSE]}
  /\ Return(w)
  /\ UNCHANGED <<task, seq, deploying, queue, budget>>

\* The broker refuses the cast: _call_silently fails the task, not its subtask.
CastRefused(w) ==
  /\ req[w].pc = "verify_cast"
  /\ Exists(req[w].task)
  /\ budget.faults > 0
  /\ budget' = [budget EXCEPT !.faults = @ - 1]
  /\ task' = WithStatus(req[w].task, "error")
  /\ Return(w)
  /\ UNCHANGED <<seq, deploying, orch, queue>>

(***************************************************************************)
(* CheckNetworksTaskManager: PUT .../network_configuration, refused with   *)
(* 403 when the environment is locked, as one being deployed is.           *)
(***************************************************************************)
CheckLock(w) ==
  /\ Accept(w, "check")
  /\ ~ deploying
  /\ req' = [req EXCEPT ![w] =
       [Idle EXCEPT !.pc = "check_create", !.rows = Named({"check_networks"})]]
  /\ UNCHANGED <<task, seq, deploying, orch, queue>>

CheckCreate(w) ==
  /\ req[w].pc = "check_create"
  /\ Room
  /\ seq' = seq + 1
  /\ task' = [Without(FirstOf(Locked(w, "check_networks"))) EXCEPT
                ![seq'] = Row("check_networks", "running", NoTask)]
  /\ req' = [req EXCEPT ![w] =
       [Idle EXCEPT !.pc = "check_run", !.task = seq']]
  /\ UNCHANGED <<deploying, orch, queue, budget>>

\* Mutant: a check that passes leaves its task as it is.
CheckRunQuietly(w) ==
  /\ req[w].pc = "check_run"
  /\ Exists(req[w].task)
  /\ \/ task' = WithStatus(req[w].task, "error") /\ Return(w)
     \/ task' = task /\ Goto(w, "check_save")
  /\ UNCHANGED <<seq, deploying, orch, queue, budget>>

CheckRun(w) ==
  /\ req[w].pc = "check_run"
  /\ Exists(req[w].task)
  /\ \/ task' = WithStatus(req[w].task, "error") /\ Return(w)
     \/ task' = WithStatus(req[w].task, "ready") /\ Goto(w, "check_save")
  /\ UNCHANGED <<seq, deploying, orch, queue, budget>>

\* The settings are saved after the check; when that fails so does the task.
CheckSave(w) ==
  /\ req[w].pc = "check_save"
  /\ Exists(req[w].task)
  /\ task' \in {task, WithStatus(req[w].task, "error")}
  /\ Return(w)
  /\ UNCHANGED <<seq, deploying, orch, queue, budget>>

(***************************************************************************)
(* DELETE .../tasks/<id>: without force, only ended tasks go.              *)
(***************************************************************************)
Remove(w, t) ==
  /\ Accept(w, "remove")
  /\ Exists(t) /\ task[t].status \in {"ready", "error"}
  /\ task' = Without({t})
  /\ UNCHANGED <<seq, deploying, req, orch, queue>>

(***************************************************************************)
(* A deployment (ClusterLifecycle), as far as it meets a verification: it  *)
(* checks the networks in a subtask that it then removes.                  *)
(***************************************************************************)
DeployCreate(w) ==
  /\ Accept(w, "deploy")
  /\ Running({"deploy"}) = {}
  /\ Room
  /\ seq' = seq + 1
  /\ task' = [Without(Named({"deploy"})) EXCEPT
                ![seq'] = Row("deploy", "running", NoTask)]
  /\ req' = [req EXCEPT ![w] =
       [Idle EXCEPT !.pc = "deploy_check", !.task = seq']]
  /\ UNCHANGED <<deploying, orch, queue>>

DeployCheck(w) ==
  /\ req[w].pc = "deploy_check"
  /\ Exists(req[w].task)
  /\ Room
  /\ seq' = seq + 1
  /\ \/ /\ task' = [WithStatus(req[w].task, "error") EXCEPT
                      ![seq'] = Row("check_networks", "error", req[w].task)]
        /\ Return(w)
     \/ /\ task' = [task EXCEPT
                      ![seq'] = Row("check_networks", "running", req[w].task)]
        /\ req' = [req EXCEPT ![w] =
             [@ EXCEPT !.pc = "deploy_start", !.sub = seq']]
  /\ UNCHANGED <<deploying, orch, queue, budget>>

\* The check row is marked and deleted: it must still be there.
DeployStart(w) ==
  /\ req[w].pc = "deploy_start"
  /\ Exists(req[w].task) /\ Exists(req[w].sub)
  /\ task' = Without({req[w].sub})
  /\ deploying' = TRUE
  /\ Return(w)
  /\ UNCHANGED <<seq, orch, queue, budget>>

\* The deployment's last reply.
DeployEnds ==
  /\ deploying
  /\ \A w \in Worker : req[w].pc \notin {"deploy_check", "deploy_start"}
  /\ deploying' = FALSE
  /\ \E st \in {"ready", "error"} :
       task' = [t \in TaskId |-> IF t \in Running({"deploy"})
                                   THEN [task[t] EXCEPT !.status = st]
                                   ELSE task[t]]
  /\ UNCHANGED <<seq, req, orch, queue, budget>>

(***************************************************************************)
(* A request whose row is gone raises and ends with 500; one that dies, or *)
(* raises on its data (get_message_body), leaves what it has committed.    *)
(***************************************************************************)
Gone(w) ==
  CASE req[w].pc \in {"verify_check", "verify_cast", "check_run", "check_save",
                      "deploy_check"} -> ~ Exists(req[w].task)
    [] req[w].pc = "deploy_start" -> ~ (Exists(req[w].task) /\ Exists(req[w].sub))
    [] OTHER -> FALSE

RequestFails(w) ==
  /\ Gone(w)
  /\ Return(w)
  /\ UNCHANGED <<task, seq, deploying, orch, queue, budget>>

Crash(w) ==
  /\ req[w].pc # "idle"
  /\ budget.faults > 0
  /\ budget' = [budget EXCEPT !.faults = @ - 1]
  /\ Return(w)
  /\ UNCHANGED <<task, seq, deploying, orch, queue>>

------------------------------------------------------------------------------
(***************************************************************************)
(* The orchestrator. It works on the subtask of a message before the task  *)
(* itself, and reports progress of the task any number of times.           *)
(***************************************************************************)
Send(method, t, st, lost) ==
  /\ Len(queue) < MaxQueue
  /\ queue' = Append(queue, [method |-> method, task |-> t, status |-> st,
                             lost |-> lost])

AnswerDhcp(m) ==
  /\ ~ m.answered
  /\ \E st \in {"ready", "error"} : Send("check_dhcp_resp", m.dhcp, st, FALSE)
  /\ orch' = (orch \ {m}) \cup {[m EXCEPT !.answered = TRUE]}
  /\ UNCHANGED <<task, seq, deploying, req, budget>>

Progress(m) ==
  /\ Send("verify_networks_resp", m.task, "running", FALSE)
  /\ UNCHANGED <<task, seq, deploying, req, orch, budget>>

AnswerVerify(m) ==
  /\ m.answered
  /\ \E st \in {"ready", "error"}, lost \in BOOLEAN :
       Send("verify_networks_resp", m.task, st, lost)
  /\ orch' = orch \ {m}
  /\ UNCHANGED <<task, seq, deploying, req, budget>>

(***************************************************************************)
(* The receiver.                                                           *)
(***************************************************************************)

\* Mutant: the answer for a task does not count what its subtasks came to.
VerdictAlone(m) == IF m.lost THEN "error" ELSE m.status

\* verify_networks_resp and update_verify_networks: an end counts the statuses
\* of the subtasks, a progress report is stored as it is.
Verdict(m) ==
  IF m.status = "running" THEN "running"
  ELSE IF m.lost \/ \E t \in Subtasks(m.task) : task[t].status = "error"
    THEN "error" ELSE m.status

\* Mutant: the task is looked up without fail_if_not_found.
ReceivedUnchecked(m) == WithStatus(m.task, Verdict(m))

\* What the receiver makes of a reply; one whose task is gone is dropped.
Received(m) == IF Exists(m.task) THEN WithStatus(m.task, Verdict(m)) ELSE task

Consume ==
  /\ queue # <<>>
  /\ task' = Received(Head(queue))
  /\ queue' = Tail(queue)
  /\ UNCHANGED <<seq, deploying, req, orch, budget>>

\* The consumer dies after the commit: the reply will be delivered again.
ConsumeUnacknowledged ==
  /\ queue # <<>>
  /\ budget.faults > 0
  /\ budget' = [budget EXCEPT !.faults = @ - 1]
  /\ task' = Received(Head(queue))
  /\ UNCHANGED <<seq, deploying, req, orch, queue>>

------------------------------------------------------------------------------
NewRequest(w) ==
  VerifyLock(w) \/ CheckLock(w) \/ DeployCreate(w) \/ \E t \in TaskId : Remove(w, t)

Continue(w) ==
  \/ VerifyRefuse(w) \/ VerifyCreate(w) \/ VerifyCheck(w) \/ VerifyCast(w)
  \/ CheckCreate(w) \/ CheckRun(w) \/ CheckSave(w)
  \/ DeployCheck(w) \/ DeployStart(w)
  \/ RequestFails(w)

Next ==
  \/ \E w \in Worker : NewRequest(w) \/ Continue(w) \/ CastRefused(w) \/ Crash(w)
  \/ DeployEnds
  \/ \E m \in orch : AnswerDhcp(m) \/ Progress(m) \/ AnswerVerify(m)
  \/ Consume \/ ConsumeUnacknowledged

Spec == Init /\ [][Next]_vars

\* A worker runs its request to the end, the consumer takes what is in the queue
\* and the orchestrator answers what it was sent. It may report progress as
\* often as it likes, which is why its answers need strong fairness: they are
\* disabled whenever the bounded queue is full.
Delivered == queue # <<>> /\ queue' = Tail(queue)

Fairness ==
  /\ \A w \in Worker : WF_vars(Continue(w))
  /\ WF_queue(Delivered)
  /\ \A t \in TaskId :
       SF_vars(\E m \in orch : m.task = t /\ (AnswerDhcp(m) \/ AnswerVerify(m)))

FairSpec == Spec /\ Fairness

------------------------------------------------------------------------------
(***************************************************************************)
(* Properties.                                                             *)
(***************************************************************************)

\* Types of all variables; only identifiers given out have rows, and a row has
\* all of its columns.
TypeOK ==
  /\ task \in [TaskId -> TaskRow]
  /\ \A t \in TaskId : task[t].name = "none" \/ t > seq => task[t] = NoRow
  /\ seq \in 0 .. MaxTask
  /\ deploying \in BOOLEAN
  /\ req \in [Worker -> Request]
  /\ orch \subseteq Message
  /\ queue \in Seq(Reply)
  /\ budget \in [requests : 0 .. MaxRequests, faults : 0 .. MaxFaults]

\* A verification the user sees as passed has had its DHCP check answered, and
\* that passed too, although the two are answered by separate messages
\* (update_verify_networks counts the subtasks only when the task itself ends).
VerdictCountsDhcp ==
  \A p \in Named({"verify_networks"}) : task[p].status = "ready" =>
    \A t \in Subtasks(p) : task[t].status = "ready"

\* At most one verification runs: its rows are what the orchestrator answers.
\* One worker keeps this (CantRemoveOldVerificationTask); two do not.
OneVerification ==
  \A t, u \in Running({"verify_networks"}) : t = u

\* No request removes a verification that runs, whatever it had read of the
\* table before it got its locks (a check row may be renamed meanwhile).
RunningVerificationStays ==
  [][\A t \in Running({"verify_networks"}) : task'[t].name = "verify_networks"]_task

\* What the orchestrator was asked and has not answered is a verification that
\* still shows as running: no request and no other reply ends it early.
AskedIsRunning ==
  \A m \in orch : task[m.task].name = "verify_networks"
                  /\ task[m.task].status = "running"

\* The rows keep what the tasks table promises (TaskTable), with checks that
\* become verifications, progress reports and redelivered replies.
Table == INSTANCE TaskTable
           WITH status <- [t \in TaskId |-> task[t].status]

ImplementsTaskTable == Table!Spec

\* As long as no worker dies and no cast is refused, every check and every
\* verification ends or is removed, its request having lost its row or not.
NoFaults == budget.faults = MaxFaults

NetworkTaskEnds ==
  \A t \in TaskId :
    t \in Running(NetworkNames) ~> t \notin Running(NetworkNames) \/ ~ NoFaults

------------------------------------------------------------------------------
(***************************************************************************)
(* What messages and tests of the program say of it and its code does not  *)
(* keep.                                                                   *)
(***************************************************************************)

\* "You cannot delete running task manually" (the answer to a request that
\* comes upon a running task): a request removes no running row but its own.
RunningTaskStays ==
  [][\A t \in Running(TaskNames) :
       task'[t].name = "none" =>
         \E w \in Worker : t \in {req[w].task, req[w].sub} /\ req'[w] # req[w]]_vars

==============================================================================
