----------------------------- MODULE RoleStatus ------------------------------
(***************************************************************************)
(* Starting and stopping the roles of an environment that is deployed.     *)
(*                                                                         *)
(* A press of a button in the browser is several requests: the finished    *)
(* tasks are deleted, the environment is marked as in deployment, the row  *)
(* of the role is set to what is to be, and only then PUT .../changes      *)
(* finds in two cookies what to send to the orchestrator. When the answer  *)
(* is a failure the receiver rolls the row back.                           *)
(***************************************************************************)
EXTENDS Integers, FiniteSets, Sequences

CONSTANTS
  Node,         \* the environment's nodes
  Role,         \* its roles that can be started and stopped
  NodesOf,      \* the nodes that have a role: it is shown with them
  Onest,        \* the role that stands for the whole of an ONEST environment
  All,          \* "all": the button for all roles
  NoRole,       \* in the place of a role: none
  Types,        \* the cluster types looked at
  Tab,          \* the tabs of one browser: they share its cookies
  MaxPresses,   \* bound: buttons pressed
  MaxJob,       \* bound: deploy tasks created
  MaxQueue,     \* bound: replies in the queue
  MaxFaults     \* bound: requests that die, redelivered replies

CloudMaster == 2
Ebs == 3
OnestType == 5

ASSUME RolesAssumption ==
  /\ Onest \in Role /\ All \notin Role /\ NoRole \notin Role /\ All # NoRole
  /\ NodesOf \in [Role -> (SUBSET Node) \ {{}}]
  /\ Types \subseteq {CloudMaster, Ebs, OnestType}
ASSUME BoundsAssumption ==
  MaxPresses \in Nat /\ MaxJob \in Nat /\ MaxQueue \in Nat /\ MaxFaults \in Nat

VARIABLES
  type,     \* the cluster_type of the environment, which never changes
  cluster,  \* its status
  node,     \* the status of its nodes
  row,      \* cluster_role_status: 0 no row, 1 stopped, 2 started, 3 stopped
            \* after having been started (ONEST)
  job,      \* the deploy tasks with their deployment subtasks
  seq,      \* the last of them
  cookie,   \* oprolename and opaction
  tab,      \* per tab: where its requests are
  orders,   \* the messages the orchestrator works on
  queue,    \* its replies
  runs,     \* the roles that run
  begun,    \* history: the roles a first start of which was carried out
  budget    \* what is left of the bounds on presses and faults

vars == <<type, cluster, node, row, job, seq, cookie, tab, orders, queue,
          runs, begun, budget>>

JobId == 1 .. MaxJob
NoJobId == 0

\* A subtask is known by the role it is about; that of NoRole deploys nodes.
Part == Role \cup {NoRole}
Actions == {"start", "started", "stop"}

NoParts == [p \in Part |-> "none"]
NoJob == [status |-> "none", sub |-> NoParts]

Order == [job : JobId, part : Part, act : Actions, nodes : SUBSET Node]

\* The nodes a reply reports as failed and as ready.
Reply == [order : Order, status : {"ready", "error"},
          failed : SUBSET Node, ready : SUBSET Node]

\* want, act: the button; clear, patch: its requests still to be served besides
\* the one at pc; cookie: as sent with PUT; seen: the deploy tasks PUT found;
\* nodes: nodes_to_deploy; orders: task_messages.
Idle == [pc |-> "idle", want |-> NoRole, act |-> "stop", clear |-> {},
         patch |-> FALSE, cookie |-> [role |-> NoRole, act |-> "stop"],
         seen |-> {}, job |-> NoJobId, nodes |-> {}, orders |-> {}]

Closed == [Idle EXCEPT !.pc = "closed"]

RolesHere == IF type = OnestType THEN {Onest} ELSE Role

InError == {n \in Node : node[n] = "error"}
Ready == Node \ InError

Jobs(st) == {k \in JobId : job[k].status \in st}
Finished == Jobs({"ready", "error"})

\* The tabs W that are open, the presses and the faults that will come.
InitOf(W, presses, faults) ==
  /\ type \in Types
  /\ cluster = "operational"
  /\ node = [n \in Node |-> "ready"]
  /\ \E st \in {0, 1} : row = [r \in Role |-> st]
  /\ job = [k \in JobId |-> NoJob]
  /\ seq = 0
  /\ \E r \in RolesHere : cookie = [role |-> r, act |-> "stop"]
  /\ tab = [w \in Tab |-> IF w \in W THEN Idle ELSE Closed]
  /\ orders = {}
  /\ queue = <<>>
  /\ runs = {}
  /\ begun = {}
  /\ budget = [presses |-> presses, faults |-> faults]

Init == InitOf(Tab, MaxPresses, MaxFaults)

Goto(w, pc) == tab' = [tab EXCEPT ![w] = [@ EXCEPT !.pc = pc]]

\* What is left of a press when its PUT is answered early.
Left(w) == [Idle EXCEPT !.clear = tab[w].clear, !.patch = tab[w].patch]

------------------------------------------------------------------------------
(***************************************************************************)
(* The browser.                                                            *)
(***************************************************************************)

Asks(w, request) ==
  /\ tab[w].pc = "idle"
  /\ budget.presses > 0
  /\ budget' = [budget EXCEPT !.presses = @ - 1]
  /\ tab' = [tab EXCEPT ![w] = request]
  /\ UNCHANGED <<type, cluster, node, row, job, seq, cookie, orders, queue,
                 runs, begun>>

\* The button of a role says what its row does not; the buttons for all roles
\* want rows that agree, and a stop wants some row.
Offered(r, act) ==
  LET rows == {row[s] : s \in RolesHere} IN
  \/ r \in RolesHere /\ act = (IF row[r] = 2 THEN "stop" ELSE "start")
  \/ r = All /\ act = "start" /\ 2 \notin rows
  \/ r = All /\ act = "stop" /\ 2 \in rows /\ rows \subseteq {0, 2}

Press(w, r, act) ==
  /\ cluster = "operational"
  /\ Offered(r, act)
  /\ Asks(w, [Idle EXCEPT !.pc = "mark", !.want = r, !.act = act,
                          !.clear = Finished, !.patch = TRUE])

\* "Deploy changes" takes up the nodes that failed.
PressDeploy(w) ==
  /\ Jobs({"running"}) = {}
  /\ InError # {}
  /\ Asks(w, [Idle EXCEPT !.pc = "changes", !.clear = Finished])

\* DELETE of the tasks that were finished when the button was pressed.
Clear(w) ==
  /\ tab[w].clear # {}
  /\ job' = [k \in JobId |-> IF k \in tab[w].clear THEN NoJob ELSE job[k]]
  /\ tab' = [tab EXCEPT ![w] = [@ EXCEPT !.clear = {}]]
  /\ UNCHANGED <<type, cluster, node, row, seq, cookie, orders, queue, runs,
                 begun, budget>>

Patch(w) ==
  /\ tab[w].patch
  /\ cluster' = "deployment"
  /\ tab' = [tab EXCEPT ![w] = [@ EXCEPT !.patch = FALSE]]
  /\ UNCHANGED <<type, node, row, job, seq, cookie, orders, queue, runs, begun,
                 budget>>

------------------------------------------------------------------------------
(***************************************************************************)
(* POST /api/cluster/startrole and stoprole.                               *)
(***************************************************************************)

\* An ONEST environment has one role, whichever button was pressed.
RoleNamed(r) == IF type = OnestType THEN Onest ELSE r

\* Mutant: every start of ONEST is taken for the first.
StartActionFirst(r) == "start"

\* What a start is called: ONEST tells the first from the later ones.
StartAction(r) ==
  IF type = OnestType /\ r # All /\ row[r] = 3 THEN "started" ELSE "start"

\* Mutant: a stop of any type leaves what only ONEST distinguishes.
StoppedOnce == 3

Stopped == IF type = OnestType THEN 3 ELSE 1

\* A row that does not exist yet is made with 1 by a stop of any type.
Marked(r, act) ==
  CASE r = All       -> row
    [] act = "start" -> [row EXCEPT ![r] = 2]
    [] OTHER         -> [row EXCEPT ![r] = IF @ = 0 THEN 1 ELSE Stopped]

Mark(w) ==
  /\ tab[w].pc = "mark"
  /\ LET r == RoleNamed(tab[w].want)
         act == IF tab[w].act = "start" THEN StartAction(r) ELSE "stop" IN
     /\ row' = Marked(r, tab[w].act)
     /\ cookie' = [role |-> r, act |-> act]
  /\ Goto(w, "changes")
  /\ UNCHANGED <<type, cluster, node, job, seq, orders, queue, runs, begun,
                 budget>>

------------------------------------------------------------------------------
(***************************************************************************)
(* PUT /api/clusters/N/changes: ApplyChangesTaskManager.execute.           *)
(***************************************************************************)

\* The rows that the SELECT ... FOR UPDATE of the deploy tasks finds.
Look(w) ==
  /\ tab[w].pc = "changes"
  /\ tab' = [tab EXCEPT ![w] = [@ EXCEPT !.pc = "create", !.cookie = cookie,
               !.seen = Jobs({"running", "ready", "error"})]]
  /\ UNCHANGED <<type, cluster, node, row, job, seq, cookie, orders, queue,
                 runs, begun, budget>>

\* DeploymentAlreadyStarted.
Refuse(w) ==
  /\ tab[w].pc = "create"
  /\ tab[w].seen \cap Jobs({"running"}) # {}
  /\ tab' = [tab EXCEPT ![w] = Left(w)]
  /\ UNCHANGED <<type, cluster, node, row, job, seq, cookie, orders, queue,
                 runs, begun, budget>>

Create(w) ==
  /\ tab[w].pc = "create"
  /\ tab[w].seen \cap Jobs({"running"}) = {}
  /\ seq < MaxJob
  /\ seq' = seq + 1
  /\ job' = [k \in JobId |->
               IF k = seq' THEN [NoJob EXCEPT !.status = "running"]
               ELSE IF k \in tab[w].seen THEN NoJob ELSE job[k]]
  /\ tab' = [tab EXCEPT ![w] = [@ EXCEPT !.job = seq', !.nodes = InError,
               !.pc = IF InError # {} THEN "deploy"
                      ELSE IF tab[w].cookie.role # All THEN "role"
                      ELSE IF type = Ebs THEN "all" ELSE "start"]]
  /\ UNCHANGED <<type, cluster, node, row, cookie, orders, queue, runs, begun,
                 budget>>

\* Mutant: the parent waits for all of its subtasks to be ready.
UpdatedWhenReady(j, p, st) ==
  LET sub == [j.sub EXCEPT ![p] = st] IN
  [status |-> IF \A q \in Part : sub[q] \in {"none", "ready"} THEN "ready"
              ELSE j.status,
   sub |-> sub]

\* Task.update of a subtask: an error aborts the siblings that still run, the
\* parent ends when all are ready or one is in error.
Updated(j, p, st) ==
  LET sub == [j.sub EXCEPT ![p] = st]
      failed == \E q \in Part : sub[q] = "error" IN
  [status |-> IF failed THEN "error"
              ELSE IF \A q \in Part : sub[q] \in {"none", "ready"} THEN "ready"
              ELSE j.status,
   sub |-> [q \in Part |->
              IF failed /\ sub[q] = "running" THEN "error" ELSE sub[q]]]

\* A subtask for part p and its message, kept in the row as its cache.
Subtask(w, p, act, nodes, pc) ==
  LET k == tab[w].job IN
  /\ job' = [job EXCEPT ![k].sub[p] = "running"]
  /\ tab' = [tab EXCEPT ![w].pc = pc, ![w].orders = @ \cup
               {[job |-> k, part |-> p, act |-> act, nodes |-> nodes]}]

\* Nodes that failed are deployed again, and the cookies not looked at.
DeployNodes(w) ==
  /\ tab[w].pc = "deploy"
  /\ Subtask(w, NoRole, "start", tab[w].nodes, "start")
  /\ UNCHANGED <<type, cluster, node, row, seq, cookie, orders, queue, runs,
                 begun, budget>>

\* The message cannot be made: _call_silently sets the subtask to error, and the
\* request ends with that.
DeployNodesFails(w) ==
  /\ tab[w].pc = "deploy"
  /\ budget.faults > 0
  /\ budget' = [budget EXCEPT !.faults = @ - 1]
  /\ job' = [job EXCEPT ![tab[w].job] = Updated(@, NoRole, "error")]
  /\ cluster' = "error"
  /\ tab' = [tab EXCEPT ![w] = Left(w)]
  /\ UNCHANGED <<type, node, row, seq, cookie, orders, queue, runs, begun>>

\* One role: the message goes to every node that is ready.
OperateRole(w) ==
  /\ tab[w].pc = "role"
  /\ Ready # {}
  /\ Subtask(w, tab[w].cookie.role, tab[w].cookie.act, Ready, "start")
  /\ UNCHANGED <<type, cluster, node, row, seq, cookie, orders, queue, runs,
                 begun, budget>>

\* The roles of ready nodes that have no subtask yet.
ToOperate(w) == {r \in Role : NodesOf[r] \cap Ready # {}
                              /\ job[tab[w].job].sub[r] = "none"}

AllAction(w) == IF tab[w].cookie.act = "stop" THEN "stop" ELSE "start"

\* All roles of an EBS environment, one after the other, with their rows.
OperateAll(w) ==
  /\ tab[w].pc = "all"
  /\ \E r \in ToOperate(w) :
       /\ Subtask(w, r, AllAction(w), NodesOf[r] \cap Ready, "all")
       /\ row' = [row EXCEPT ![r] = IF AllAction(w) = "stop" THEN 1 ELSE 2]
  /\ UNCHANGED <<type, cluster, node, seq, cookie, orders, queue, runs, begun,
                 budget>>

AllOperated(w) ==
  /\ tab[w].pc = "all"
  /\ ToOperate(w) = {}
  /\ Goto(w, "start")
  /\ UNCHANGED <<type, cluster, node, row, job, seq, cookie, orders, queue,
                 runs, begun, budget>>

Start(w) ==
  /\ tab[w].pc = "start"
  /\ cluster' = "deployment"
  /\ Goto(w, "cast")
  /\ UNCHANGED <<type, node, row, job, seq, cookie, orders, queue, runs, begun,
                 budget>>

\* The cast. The requests sent before PUT have been served by then.
Cast(w) ==
  /\ tab[w].pc = "cast"
  /\ tab[w].clear = {} /\ ~ tab[w].patch
  /\ orders' = orders \cup tab[w].orders
  /\ tab' = [tab EXCEPT ![w] = Idle]
  /\ UNCHANGED <<type, cluster, node, row, job, seq, cookie, queue, runs, begun,
                 budget>>

\* The request is answered with 500 and its task stays as it was committed.
Abandon(w) ==
  /\ tab' = [tab EXCEPT ![w] = Left(w)]
  /\ UNCHANGED <<type, cluster, node, row, seq, cookie, orders, queue, runs,
                 begun>>

\* The message for a role cannot be made, for want of nodes that are ready or
\* because a serializer raises: _call_silently sets the subtask to error and
\* returns nothing, the next line raises, and the error is rolled back.
OperateRoleFails(w) ==
  /\ tab[w].pc = "role"
  /\ IF Ready = {} THEN UNCHANGED budget
     ELSE budget.faults > 0 /\ budget' = [budget EXCEPT !.faults = @ - 1]
  /\ job' = [job EXCEPT ![tab[w].job].sub[tab[w].cookie.role] = "running"]
  /\ Abandon(w)

\* The worker dies, or the final cast is refused.
Crash(w) ==
  /\ tab[w].pc \in {"deploy", "role", "all", "start", "cast"}
  /\ budget.faults > 0
  /\ budget' = [budget EXCEPT !.faults = @ - 1]
  /\ job' = job
  /\ Abandon(w)

------------------------------------------------------------------------------
(***************************************************************************)
(* The orchestrator.                                                       *)
(***************************************************************************)

Succeeds(m) == m.status = "ready" /\ m.failed = {}

CarriedOut(o) ==
  /\ runs' = IF o.act = "stop" THEN runs \ {o.part} ELSE runs \cup {o.part}
  /\ begun' = IF o.act = "start" THEN begun \cup {o.part} ELSE begun

\* An order is carried out or it fails, with or without nodes to blame; what
\* fails leaves the role as it was.
Answer(o) ==
  /\ Len(queue) < MaxQueue
  /\ orders' = orders \ {o}
  /\ \E st \in {"ready", "error"}, failed \in SUBSET o.nodes :
       \E ready \in {{}, o.nodes \ failed} :
         LET m == [order |-> o, status |-> st, failed |-> failed,
                   ready |-> ready] IN
         /\ st = "ready" => ready = o.nodes \ failed
         /\ queue' = Append(queue, m)
         /\ IF Succeeds(m) /\ o.part # NoRole
            THEN CarriedOut(o) ELSE UNCHANGED <<runs, begun>>
  /\ UNCHANGED <<type, cluster, node, row, job, seq, cookie, tab, budget>>

------------------------------------------------------------------------------
(***************************************************************************)
(* The receiver: start_stop_resp, and deploy_resp for nodes deployed.      *)
(***************************************************************************)

\* The nodes with what reply m says of them.
Reported(m) == [n \in Node |-> IF n \in m.failed THEN "error"
                               ELSE IF n \in m.ready THEN "ready" ELSE node[n]]

\* Mutant: a success is believed whatever the nodes.
VerdictAsSent(m) == m.status

\* A success counts as an error while any node of the environment is in error.
Verdict(m) ==
  IF m.status = "ready" /\ \A n \in Node : Reported(m)[n] # "error"
  THEN "ready" ELSE "error"

\* Mutant: a stop that fails is rolled back like a start.
RolledBackToStop(act) == IF act = "started" THEN 3 ELSE 1

\* What a failed operation rolls a row back to.
RolledBack(act) == CASE act = "started" -> 3 [] act = "stop" -> 2 [] OTHER -> 1

\* Handling of a reply; when its task is gone nothing of it is kept.
Receive(m) ==
  LET o == m.order
      j == Updated(job[o.job], o.part, Verdict(m)) IN
  IF job[o.job].sub[o.part] = "none" THEN UNCHANGED <<cluster, node, row, job>>
  ELSE /\ node' = Reported(m)
       /\ job' = [job EXCEPT ![o.job] = j]
       /\ cluster' = CASE j.status = "error" -> "error"
                       [] j.status = "ready" -> "operational"
                       [] OTHER -> cluster
       /\ row' = IF Verdict(m) = "error" /\ o.part # NoRole
                 THEN [row EXCEPT ![o.part] = RolledBack(o.act)] ELSE row

Consume ==
  /\ queue # <<>>
  /\ Receive(Head(queue))
  /\ queue' = Tail(queue)
  /\ UNCHANGED <<type, seq, cookie, tab, orders, runs, begun, budget>>

\* The consumer dies after the commit: the reply will be delivered again.
ConsumeUnacknowledged ==
  /\ queue # <<>>
  /\ budget.faults > 0
  /\ budget' = [budget EXCEPT !.faults = @ - 1]
  /\ Receive(Head(queue))
  /\ UNCHANGED <<type, seq, cookie, tab, orders, queue, runs, begun>>

------------------------------------------------------------------------------
Continue(w) ==
  \/ Clear(w) \/ Patch(w) \/ Mark(w) \/ Look(w) \/ Refuse(w) \/ Create(w)
  \/ DeployNodes(w) \/ OperateRole(w) \/ OperateAll(w) \/ AllOperated(w)
  \/ Start(w) \/ Cast(w)

Next ==
  \/ \E w \in Tab :
       \/ \E r \in Role \cup {All}, act \in {"start", "stop"} : Press(w, r, act)
       \/ PressDeploy(w) \/ Continue(w)
       \/ DeployNodesFails(w) \/ OperateRoleFails(w) \/ Crash(w)
  \/ \E o \in orders : Answer(o)
  \/ Consume \/ ConsumeUnacknowledged

Spec == Init /\ [][Next]_vars

\* Workers serve requests to their end, the consumer takes what is in the queue,
\* the orchestrator answers.
Fairness ==
  /\ \A w \in Tab : WF_vars(Continue(w) \/ OperateRoleFails(w))
  /\ WF_vars(Consume)
  /\ WF_vars(\E o \in orders : Answer(o))

FairSpec == Spec /\ Fairness

------------------------------------------------------------------------------
(***************************************************************************)
(* Properties.                                                             *)
(***************************************************************************)

\* Types of all variables, subtasks only of tasks that exist, and replies that
\* call no node failed and ready.
TypeOK ==
  /\ type \in Types
  /\ cluster \in {"operational", "deployment", "error"}
  /\ node \in [Node -> {"ready", "error"}]
  /\ row \in [Role -> 0 .. 3]
  /\ \A r \in Role : row[r] = 3 => type = OnestType
  /\ seq \in 0 .. MaxJob
  /\ DOMAIN job = JobId
  /\ \A k \in JobId :
       /\ job[k].status \in {"none", "running", "ready", "error"}
       /\ job[k].sub \in [Part -> {"none", "running", "ready", "error"}]
       /\ job[k].status = "none" \/ k > seq => job[k] = NoJob
  /\ cookie.role \in Role \cup {All} /\ cookie.act \in Actions
  /\ orders \subseteq Order
  /\ \A i \in DOMAIN queue :
       queue[i] \in Reply /\ queue[i].failed \cap queue[i].ready = {}
  /\ runs \subseteq begun /\ begun \subseteq RolesHere

\* Nothing of what was asked for is under way.
Rest ==
  /\ \A w \in Tab : tab[w] \in {Idle, Closed}
  /\ orders = {} /\ queue = <<>>

\* The rows say which roles run, after failures and the rollbacks of
\* start_stop_resp too.
StatusIsTrue == Rest => \A r \in RolesHere : row[r] = 2 <=> r \in runs

\* ONEST is sent "start" until one was carried out, and "started" after that
\* (the comments in ClusterStartRoleHandler), however many of either failed.
FirstStartIsFirst ==
  \A o \in orders :
    /\ o.act = "start" /\ type = OnestType => o.part \notin begun
    /\ o.act = "started" => o.part \in begun

\* At rest no task runs and the environment is not in deployment, so that it can
\* be operated on; an environment that is operational has no node in error.
QuietAtRest ==
  Rest => /\ Jobs({"running"}) = {}
          /\ cluster # "deployment"
          /\ cluster = "operational" => InError = {}

\* A task whose messages were cast ends, whatever part of them fails and
\* whatever else is asked for meanwhile.
CastJobEnds ==
  \A k \in JobId :
    (\E o \in orders : o.job = k) ~> job[k].status # "running"

==============================================================================
