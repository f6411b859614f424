----------------------- MODULE ClusterLifecycle_proofs ------------------------
(***************************************************************************)
(* Theorems about ClusterLifecycle, for any number of nodes, workers,      *)
(* requests, replies and faults.                                           *)
(*                                                                         *)
(* None of the invariants below is inductive alone. That a supertask       *)
(* agrees with its subtasks depends on no reply ever naming a deploy task  *)
(* itself, nor a stop reply naming a task that the stop deletes; hence the *)
(* strengthening IInv relates every reference to a task held by a request, *)
(* a message or a reply to the name the row has or had.                    *)
(***************************************************************************)
EXTENDS ClusterLifecycle, NailgunDB_proofs

\* The message or reply m answers for a task of the kind its method answers.
Ref(d, m) == Is(d, m.task, Answered[m.method])

\* Where a request goes on to create subtasks of its supertask.
SupPlaces == {"check", "check_before", "delete", "cast_delete", "provision",
              "provision_message", "provision_kept", "deploy"}

SubPlaces == {"cast_delete", "provision_message", "provision_kept",
              "deploy_message", "deploy_kept", "stop_provision",
              "stop_deployment", "select_message", "cast_reset",
              "erase_cluster", "cast_cluster"}

\* The name of the task a request created last.
SubName ==
  [pc \in SubPlaces |->
     CASE pc = "cast_delete" -> "node_deletion"
       [] pc \in {"provision_message", "provision_kept",
                   "select_message"} -> "provision"
       [] pc \in {"deploy_message", "deploy_kept"} -> "deployment"
       [] pc \in {"stop_provision", "stop_deployment"} -> "stop_deployment"
       [] pc = "cast_reset" -> "reset_environment"
       [] pc \in {"erase_cluster", "cast_cluster"} -> "cluster_deletion"]

RequestOK(d, r) ==
  /\ \A m \in r.msgs : Ref(d, m)
  /\ r.pc \in SupPlaces => r.sup \in TaskId /\ Is(d, r.sup, {"deploy"})
  /\ r.pc \in SubPlaces => r.sub \in TaskId /\ Is(d, r.sub, {SubName[r.pc]})
  /\ r.pc = "locked" => \A t \in r.rows : Is(d, t, TopNames)

Refs ==
  /\ \A m \in orch : Ref(db, m)
  /\ \A i \in 1 .. Len(queue) : Ref(db, queue[i])
  /\ \A w \in Worker : RequestOK(db, req[w])

\* The inductive invariant.
IInv == TypeOK /\ Good(db) /\ Refs

Budget == [requests : 0 .. MaxRequests, faults : 0 .. MaxFaults,
           kinds : SUBSET Requests]

------------------------------------------------------------------------------
LEMMA RefPreserved ==
  ASSUME NEW d \in Database, NEW e \in Database, Follows(d, e),
         NEW m, m.task \in TaskId, Ref(d, m)
  PROVE  Ref(e, m)
BY IsPreserved DEF Ref

LEMMA RequestOKPreserved ==
  ASSUME NEW d \in Database, NEW e \in Database, Follows(d, e),
         NEW r \in Request, RequestOK(d, r)
  PROVE  RequestOK(e, r)
<1>1. \A m \in r.msgs : m.task \in TaskId
  BY DEF Request, Message
<1>2. \A m \in r.msgs : Ref(e, m)
  BY <1>1, RefPreserved DEF RequestOK
<1>3. r.rows \subseteq TaskId
  BY DEF Request
<1>4. r.pc = "locked" => \A t \in r.rows : Is(e, t, TopNames)
  BY <1>3, IsPreserved DEF RequestOK
<1> QED BY <1>2, <1>4, IsPreserved DEF RequestOK

(***************************************************************************)
(* A step of worker w that changes its request to r and the rows to db',   *)
(* and may give the orchestrator messages.                                 *)
(***************************************************************************)
LEMMA WorkerStep ==
  ASSUME IInv, NEW w \in Worker, NEW r \in Request,
         req' = [req EXCEPT ![w] = r],
         Good(db'), Follows(db, db'), RequestOK(db', r),
         orch' \subseteq Message,
         \A m \in orch' : m \in orch \/ Ref(db', m),
         queue' = queue, budget' \in Budget
  PROVE  IInv'
<1>0. db \in Database /\ db' \in Database
  BY DEF Good, IInv
<1>1. TypeOK'
  BY <1>0 DEF IInv, TypeOK, Budget
<1>2. \A m \in orch' : Ref(db', m)
  <2>1. \A m \in orch : m.task \in TaskId
    BY DEF IInv, TypeOK, Message
  <2> QED BY <1>0, <2>1, RefPreserved DEF IInv, Refs
<1>3. \A i \in 1 .. Len(queue') : Ref(db', queue'[i])
  <2>1. \A i \in 1 .. Len(queue) : queue[i] \in Reply
    BY DEF IInv, TypeOK
  <2>2. \A i \in 1 .. Len(queue) : queue[i].task \in TaskId
    BY <2>1 DEF Reply
  <2> QED BY <1>0, <2>2, RefPreserved DEF IInv, Refs
<1>4. \A v \in Worker : RequestOK(db', req'[v])
  <2> SUFFICES ASSUME NEW v \in Worker PROVE RequestOK(db', req'[v])
    OBVIOUS
  <2>1. req \in [Worker -> Request]
    BY DEF IInv, TypeOK
  <2>2. CASE v = w
    BY <2>1, <2>2
  <2>3. CASE v # w
    <3>1. req'[v] = req[v] /\ req[v] \in Request
      BY <2>1, <2>3
    <3> QED BY <1>0, <3>1, RequestOKPreserved DEF IInv, Refs
  <2> QED BY <2>2, <2>3
<1> QED BY <1>1, <1>2, <1>3, <1>4 DEF IInv, Refs

\* As above, when the request, the messages and the queue stay as they are.
LEMMA RowsStep ==
  ASSUME IInv, Good(db'), Follows(db, db'),
         req' = req, orch' = orch, queue' = queue, budget' \in Budget
  PROVE  IInv'
<1>0. db \in Database /\ db' \in Database
  BY DEF Good, IInv
<1>1. TypeOK'
  BY <1>0 DEF IInv, TypeOK, Budget
<1>2. \A m \in orch' : Ref(db', m)
  <2>1. \A m \in orch : m.task \in TaskId
    BY DEF IInv, TypeOK, Message
  <2> QED BY <1>0, <2>1, RefPreserved DEF IInv, Refs
<1>3. \A i \in 1 .. Len(queue') : Ref(db', queue'[i])
  <2>1. \A i \in 1 .. Len(queue) : queue[i] \in Reply
    BY DEF IInv, TypeOK
  <2>2. \A i \in 1 .. Len(queue) : queue[i].task \in TaskId
    BY <2>1 DEF Reply
  <2> QED BY <1>0, <2>2, RefPreserved DEF IInv, Refs
<1>4. \A v \in Worker : RequestOK(db', req'[v])
  <2>1. \A v \in Worker : req[v] \in Request
    BY DEF IInv, TypeOK
  <2> QED BY <1>0, <2>1, RequestOKPreserved DEF IInv, Refs
<1> QED BY <1>1, <1>2, <1>3, <1>4 DEF IInv, Refs

\* What IInv says of one worker's request.
LEMMA RequestFacts ==
  ASSUME IInv, NEW w \in Worker
  PROVE  /\ req[w] \in Request /\ RequestOK(db, req[w])
         /\ db \in Database /\ Good(db) /\ orch \subseteq Message
         /\ budget \in Budget /\ Follows(db, db)
         /\ req \in [Worker -> Request]
BY FollowsReflexive DEF IInv, TypeOK, Refs, Budget

LEMMA IdleOK ==
  ASSUME NEW d
  PROVE  Idle \in Request /\ RequestOK(d, Idle)
BY DEF Idle, Request, RequestOK, Places, SupPlaces, SubPlaces, NoTask

LEMMA OffOK ==
  ASSUME NEW d
  PROVE  Off \in Request /\ RequestOK(d, Off)
BY DEF Off, Idle, Request, RequestOK, Places, SupPlaces, SubPlaces, NoTask

\* A request that stands at a place of its task, alive, has that task's row.
LEMMA SubExists ==
  ASSUME IInv, NEW w \in Worker, NEW pc \in SubPlaces, At(w, pc)
  PROVE  /\ req[w].pc = pc /\ req[w].sub \in TaskId
         /\ Exists(db, req[w].sub)
         /\ db.task[req[w].sub].name = SubName[pc]
         /\ SubName[pc] # "deploy"
<1>1. req[w].pc = pc /\ Alive(w)
  BY DEF At
<1>2. Exists(db, req[w].sub)
  BY <1>1 DEF Alive, SubPlaces
<1>3. Is(db, req[w].sub, {SubName[pc]}) /\ req[w].sub \in TaskId
  BY <1>1, RequestFacts DEF RequestOK
<1>4. SubName[pc] # "deploy"
  BY DEF SubName, SubPlaces
<1> QED BY <1>1, <1>2, <1>3, <1>4 DEF Is, Exists

\* A request that is about to create a subtask, alive, has its supertask.
LEMMA SupExists ==
  ASSUME IInv, NEW w \in Worker,
         NEW pc \in {"check", "check_before", "delete", "provision", "deploy"},
         At(w, pc)
  PROVE  /\ req[w].pc = pc /\ req[w].sup \in TaskId
         /\ Exists(db, req[w].sup)
         /\ db.task[req[w].sup].name = "deploy"
         /\ db.cluster # "deleted"
<1>1. req[w].pc = pc /\ Alive(w)
  BY DEF At
<1>2. Exists(db, req[w].sup)
  BY <1>1 DEF Alive
<1>3. Is(db, req[w].sup, {"deploy"}) /\ req[w].sup \in TaskId
  BY <1>1, RequestFacts DEF RequestOK, SupPlaces
<1>4. db.cluster # "deleted"
  BY <1>2, <1>3 DEF IInv, Good, Gone, Exists
<1> QED BY <1>1, <1>2, <1>3, <1>4 DEF Is, Exists

LEMMA MsgType ==
  ASSUME NEW method \in Methods, NEW t \in TaskId, NEW nodes \in SUBSET Node,
         NEW other \in TaskId \cup {NoTask}
  PROVE  /\ Msg(method, t, nodes, other) \in Message
         /\ Msg(method, t, nodes, other).task = t
         /\ Msg(method, t, nodes, other).method = method
BY DEF Msg, Message

------------------------------------------------------------------------------
(***************************************************************************)
(* Every action keeps IInv, and none writes to a deleted cluster.          *)
(***************************************************************************)

\* The rows of a deleted cluster are left alone.
Final == db.cluster = "deleted" => db' = db

\* What accepting a request says of the bounds and of the cluster.
LEMMA Accepted ==
  ASSUME IInv, NEW w \in Worker, NEW kind, Accept(w, kind)
  PROVE  /\ budget' \in Budget /\ req[w].pc = "idle"
         /\ db.cluster # "deleted"
<1>1. budget \in Budget
  BY RequestFacts
<1> QED BY <1>1, BoundsAssumption DEF Accept, Budget

LEMMA FaultSpent ==
  ASSUME budget \in Budget, budget.faults > 0,
         budget' = [budget EXCEPT !.faults = @ - 1]
  PROVE  budget' \in Budget
BY BoundsAssumption DEF Budget

\* A worker that returns without touching the rows.
LEMMA ReturnStep ==
  ASSUME IInv, NEW w \in Worker, Return(w), db' = db, queue' = queue,
         budget' \in Budget, orch' \subseteq Message,
         \A m \in orch' : m \in orch \/ Ref(db, m)
  PROVE  IInv' /\ Final
<1> DEFINE r == Idle
<1>1. req' = [req EXCEPT ![w] = r]
  BY DEF Return
<1>2. r \in Request /\ RequestOK(db', r)
  BY IdleOK
<1>3. Good(db') /\ Follows(db, db')
  BY RequestFacts
<1> HIDE DEF r
<1> QED BY <1>1, <1>2, <1>3, WorkerStep DEF Final

\* A worker that returns after changing rows.
LEMMA ReturnRowsStep ==
  ASSUME IInv, NEW w \in Worker, Return(w), Good(db'), Follows(db, db'),
         budget' \in Budget, orch' = orch, queue' = queue
  PROVE  IInv'
<1> DEFINE r == Idle
<1>1. req' = [req EXCEPT ![w] = r]
  BY DEF Return
<1>2. r \in Request /\ RequestOK(db', r)
  BY IdleOK
<1> HIDE DEF r
<1> QED BY <1>1, <1>2, RequestFacts, WorkerStep

\* A step that touches nothing but the bounds.
LEMMA QuietStep ==
  ASSUME IInv, budget' \in Budget,
         db' = db, req' = req, orch' = orch, queue' = queue
  PROVE  IInv' /\ Final
<1>1. Good(db') /\ Follows(db, db')
  BY FollowsReflexive DEF IInv, Good
<1> QED BY <1>1, RowsStep DEF Final

LEMMA RequestFailsKeeps ==
  ASSUME IInv, NEW w \in Worker, RequestFails(w)
  PROVE  IInv' /\ Final
BY RequestFacts, ReturnStep DEF RequestFails

LEMMA ApplyLockKeeps ==
  ASSUME IInv, NEW w \in Worker, ApplyLock(w)
  PROVE  IInv' /\ Final
<1> DEFINE names == {"deploy", "stop_deployment", "reset_environment"}
           r == [Idle EXCEPT !.pc = "locked", !.rows = Named(db, names)]
<1>1. /\ req' = [req EXCEPT ![w] = r] /\ db' = db /\ orch' = orch
      /\ queue' = queue /\ budget' \in Budget
  BY Accepted DEF ApplyLock
<1>2. Named(db, names) \in SUBSET TaskId
  BY DEF Named
<1>3. \A t \in Named(db, names) : Is(db, t, TopNames)
  BY RequestFacts DEF Named, Is, TopNames, Good, Shape
<1>4. r \in Request /\ r.pc = "locked" /\ r.msgs = {} /\ r.rows = Named(db, names)
  BY <1>2 DEF Request, Idle, Places
<1>5. RequestOK(db', r)
  BY <1>1, <1>3, <1>4 DEF RequestOK, SupPlaces, SubPlaces
<1> HIDE DEF r
<1> QED BY <1>1, <1>4, <1>5, RequestFacts, WorkerStep DEF Final

\* Rows of tasks that have no supertask may be deleted by themselves.
LEMMA DeleteTopTasks ==
  ASSUME NEW d, Good(d), NEW names \in SUBSET TopNames,
         NEW S \in SUBSET Named(d, names)
  PROVE  LET e == DeleteTasks(d, S)
         IN Good(e) /\ Follows(d, e) /\ e.seq = d.seq /\ e.cluster = d.cluster
<1>1. S \in SUBSET TaskId
  BY DEF Named
<1>2. \A t \in S : d.task[t].parent = NoTask
  BY <1>1 DEF Good, Shape, Named, TopNames, SubtaskNames, Checks
<1> QED BY <1>1, <1>2, DeleteTasksGood

LEMMA ApplyRefuseKeeps ==
  ASSUME IInv, NEW w \in Worker, ApplyRefuse(w)
  PROVE  IInv' /\ Final
<1>1. /\ Return(w) /\ UNCHANGED <<orch, queue, budget>>
      /\ db.cluster # "deleted"
  BY DEF ApplyRefuse, At, Alive
<1>2. CASE db' = db
  BY <1>1, <1>2, RequestFacts, ReturnStep
<1>3. CASE db' = DeleteTasks(db, PassedOver(w))
  <2>1. PassedOver(w) \in SUBSET Named(db, {"deploy"})
    BY DEF PassedOver, LockedRows, Exists, Named
  <2>2. {"deploy"} \in SUBSET TopNames
    BY DEF TopNames
  <2>3. Good(db') /\ Follows(db, db')
    BY <1>3, <2>1, <2>2, RequestFacts, DeleteTopTasks
  <2> QED BY <1>1, <2>3, RequestFacts, ReturnRowsStep DEF Final
<1> QED BY <1>2, <1>3 DEF ApplyRefuse

LEMMA ObsoleteTop ==
  ObsoleteTasks \in SUBSET Named(db, TopNames)
BY DEF ObsoleteTasks, Named, TopNames

LEMMA ApplyCreateKeeps ==
  ASSUME IInv, NEW w \in Worker, ApplyCreate(w)
  PROVE  IInv' /\ Final
<1> DEFINE d1 == DeleteTasks(db, Obsolete(w))
<1>1. /\ db' = CreateTask(d1, "deploy", NoTask) /\ db.seq < MaxTask
      /\ orch' = orch /\ queue' = queue /\ budget' = budget
      /\ req[w].pc = "locked" /\ db.cluster # "deleted"
  BY DEF ApplyCreate, At, Alive, Room
<1>2. PICK more \in RequiredForUpdate :
        req' = [req EXCEPT ![w] = [Idle EXCEPT !.pc = "check",
                                              !.sup = db.seq + 1,
                                              !.del = NodesToDelete(db),
                                              !.prov = NodesToProvision(db),
                                              !.dep = NodesToDeploy(db) \cup more]]
  BY DEF ApplyCreate
<1> DEFINE r == [Idle EXCEPT !.pc = "check",
                             !.sup = db.seq + 1,
                             !.del = NodesToDelete(db),
                             !.prov = NodesToProvision(db),
                             !.dep = NodesToDeploy(db) \cup more]
<1>3. LockedRows(w) \in SUBSET Named(db, TopNames)
  BY <1>1, RequestFacts DEF LockedRows, RequestOK, Is, Exists, Named
<1>4. Obsolete(w) \in SUBSET Named(db, TopNames)
  BY <1>3, ObsoleteTop DEF Obsolete
<1>5. Good(d1) /\ Follows(db, d1) /\ d1.seq = db.seq /\ d1.cluster = db.cluster
  BY <1>4, RequestFacts, DeleteTopTasks
<1> HIDE DEF d1
<1>6. /\ Good(db') /\ Follows(d1, db') /\ db.seq + 1 \in TaskId
      /\ Is(db', db.seq + 1, {"deploy"})
  <2>1. "deploy" \in TopNames
    BY DEF TopNames
  <2> QED BY <1>1, <1>5, <2>1, NewTopTask
<1>7. Follows(db, db')
  BY <1>5, <1>6, RequestFacts, FollowsTransitive DEF Good
<1>8. /\ NodesToDelete(db) \in SUBSET Node /\ NodesToProvision(db) \in SUBSET Node
      /\ NodesToDeploy(db) \cup more \in SUBSET Node
  BY DEF NodesToDelete, NodesToProvision, NodesToDeploy, RequiredForUpdate,
         ClusterNodes
<1>9. r \in Request /\ r.pc = "check" /\ r.msgs = {} /\ r.sup = db.seq + 1
  BY <1>6, <1>8 DEF Request, Idle, Places
<1>10. RequestOK(db', r)
  BY <1>6, <1>9 DEF RequestOK, SubPlaces
<1>11. req' = [req EXCEPT ![w] = r]
  BY <1>2
<1> HIDE DEF r
<1> QED BY <1>1, <1>6, <1>7, <1>9, <1>10, <1>11, RequestFacts, WorkerStep DEF Final

\* Where a request goes on that needs its supertask at most.
Parts == {"check_before", "delete", "provision", "deploy"}

Rest == {"start", "mark_cluster", "cast", "reset_create"}

LEMMA PartPlaces ==
  /\ Parts \cup Rest \subseteq Places /\ Parts \subseteq SupPlaces
  /\ (Parts \cup Rest) \cap SubPlaces = {} /\ Rest \cap SupPlaces = {}
  /\ "locked" \notin Parts \cup Rest
BY DEF Parts, Rest, Places, SupPlaces, SubPlaces

\* A request goes on to such a place, and keeps its messages.
LEMMA MoveOK ==
  ASSUME NEW d, NEW q \in Request, RequestOK(d, q), NEW pc \in Parts \cup Rest,
         pc \in Parts => q.pc \in SupPlaces
  PROVE  [q EXCEPT !.pc = pc] \in Request /\ RequestOK(d, [q EXCEPT !.pc = pc])
<1> DEFINE r == [q EXCEPT !.pc = pc]
<1>1. pc \in Places
  BY PartPlaces
<1>2. r \in Request
  BY <1>1 DEF Request
<1>3. r.pc = pc /\ r.sup = q.sup /\ r.msgs = q.msgs
  BY DEF Request
<1> HIDE DEF r
<1>4. RequestOK(d, r)
  BY <1>3, PartPlaces DEF RequestOK
<1> QED BY <1>2, <1>4 DEF r

\* As above, when the messages were cast.
LEMMA MoveSentOK ==
  ASSUME NEW d, NEW q \in Request, RequestOK(d, q), NEW pc \in Parts \cup Rest,
         pc \in Parts => q.pc \in SupPlaces
  PROVE  /\ [q EXCEPT !.pc = pc, !.msgs = {}] \in Request
         /\ RequestOK(d, [q EXCEPT !.pc = pc, !.msgs = {}])
<1> DEFINE r == [q EXCEPT !.pc = pc, !.msgs = {}]
<1>1. pc \in Places
  BY PartPlaces
<1>2. r \in Request
  BY <1>1 DEF Request
<1>3. r.pc = pc /\ r.sup = q.sup /\ r.msgs = {}
  BY DEF Request
<1> HIDE DEF r
<1>4. RequestOK(d, r)
  BY <1>3, PartPlaces DEF RequestOK
<1> QED BY <1>2, <1>4 DEF r

LEMMA AfterPlaces ==
  ASSUME NEW r
  PROVE  /\ AfterCheck(r) \in Parts \cup Rest
         /\ AfterDelete(r) \in Parts \cup Rest
         /\ AfterProvision(r) \in Parts \cup Rest
BY DEF AfterCheck, AfterDelete, AfterProvision, Parts, Rest

\* The next subtask of a request's supertask.
LEMMA NewPartGood ==
  ASSUME IInv, NEW w \in Worker, req[w].sup \in TaskId,
         db.task[req[w].sup].name = "deploy", db.cluster # "deleted",
         db.seq < MaxTask, NEW name \in SubtaskNames \ {"check_networks"}
  PROVE  /\ Good(NewPart(w, name)) /\ Follows(db, NewPart(w, name))
         /\ db.seq + 1 \in TaskId
         /\ Is(NewPart(w, name), db.seq + 1, {name})
         /\ NewPart(w, name).task[db.seq + 1].name = name
<1>1. db \in Database /\ Good(db)
  BY RequestFacts
<1> DEFINE p == req[w].sup
<1>2. p \in TaskId /\ db.task[p].name = "deploy"
  OBVIOUS
<1>3. NewPart(w, name) = DropChecks(CreateTask(db, name, p), p)
  BY DEF NewPart
<1> HIDE DEF p
<1> QED BY <1>1, <1>2, <1>3, NextSubtask

LEMMA ChecksPassed ==
  ASSUME IInv, NEW w \in Worker, req[w].pc \in {"check", "check_before"},
         Goto(w, AfterCheck(req[w])),
         db' = db, orch' = orch, queue' = queue, budget' = budget
  PROVE  IInv' /\ Final
<1> DEFINE r == [req[w] EXCEPT !.pc = AfterCheck(req[w])]
<1>1. req' = [req EXCEPT ![w] = r]
  BY DEF Goto
<1>2. AfterCheck(req[w]) \in Parts \cup Rest
  BY AfterPlaces
<1>3. r \in Request /\ RequestOK(db', r)
  <2>1. req[w].pc \in SupPlaces
    BY DEF SupPlaces
  <2> QED BY <1>2, <2>1, RequestFacts, MoveOK
<1> HIDE DEF r
<1> QED BY <1>1, <1>3, RequestFacts, WorkerStep DEF Final

LEMMA ApplyCheckKeeps ==
  ASSUME IInv, NEW w \in Worker, ApplyCheck(w)
  PROVE  IInv' /\ Final
<1>0. /\ req[w].pc = "check" /\ req[w].sup \in TaskId
      /\ db.task[req[w].sup].name = "deploy" /\ db.cluster # "deleted"
  BY SupExists DEF ApplyCheck
<1>1. orch' = orch /\ queue' = queue /\ budget' = budget
  BY DEF ApplyCheck
<1>2. CASE Goto(w, AfterCheck(req[w])) /\ db' = db
  BY <1>0, <1>1, <1>2, ChecksPassed
<1>4. CASE /\ Room /\ Goto(w, "check_before")
           /\ db' = CreateTask(db, "check_networks", req[w].sup)
  <2> DEFINE r == [req[w] EXCEPT !.pc = "check_before"]
  <2>1. "check_networks" \in SubtaskNames /\ db.seq < MaxTask
    BY <1>4 DEF SubtaskNames, Checks, Room
  <2>2. Good(db') /\ Follows(db, db')
    BY <1>0, <1>4, <2>1, RequestFacts, NewSubtask
  <2>3. req' = [req EXCEPT ![w] = r]
    BY <1>4 DEF Goto
  <2>4. r \in Request /\ RequestOK(db, r)
    <3>1. "check_before" \in Parts /\ req[w].pc \in SupPlaces
      BY <1>0 DEF Parts, SupPlaces
    <3> QED BY <3>1, RequestFacts, MoveOK
  <2> HIDE DEF r
  <2>5. RequestOK(db', r)
    BY <2>2, <2>4, RequestFacts, RequestOKPreserved DEF Good
  <2> QED BY <1>0, <1>1, <2>2, <2>3, <2>4, <2>5, RequestFacts, WorkerStep DEF Final
<1>3. CASE /\ Room /\ Return(w)
           /\ db' = UpdateTask(CreateTask(db, "check_networks", req[w].sup),
                               db.seq + 1, "error")
  <2> DEFINE d1 == CreateTask(db, "check_networks", req[w].sup)
  <2>1. "check_networks" \in SubtaskNames /\ db.seq < MaxTask
    BY <1>3 DEF SubtaskNames, Checks, Room
  <2>2. /\ Good(d1) /\ Follows(db, d1) /\ db.seq + 1 \in TaskId
        /\ d1.task[db.seq + 1].name = "check_networks"
    <3>1. /\ "check_networks" \in SubtaskNames /\ db.seq < MaxTask
          /\ db \in Database /\ Good(db)
      BY <2>1, RequestFacts
    <3> DEFINE p == req[w].sup
    <3>2. p \in TaskId /\ db.task[p].name = "deploy" /\ db.cluster # "deleted"
      BY <1>0
    <3>3. d1 = CreateTask(db, "check_networks", p)
      OBVIOUS
    <3> HIDE DEF p, d1
    <3> QED BY <3>1, <3>2, <3>3, NewSubtask
  <2> HIDE DEF d1
  <2>3. Good(db') /\ Follows(d1, db')
    <3>1. Exists(d1, db.seq + 1) /\ "error" \in TaskStatuses
      BY <2>2 DEF Exists, TaskStatuses
    <3>2. db' = UpdateTask(d1, db.seq + 1, "error")
      BY <1>3 DEF d1
    <3> QED BY <2>2, <3>1, <3>2, UpdateTaskGood
  <2>4. Follows(db, db')
    BY <2>2, <2>3, RequestFacts, FollowsTransitive DEF Good
  <2> QED BY <1>0, <1>1, <1>3, <2>3, <2>4, RequestFacts, ReturnRowsStep DEF Final
<1> QED BY <1>2, <1>3, <1>4 DEF ApplyCheck

LEMMA ApplyCheckBeforeKeeps ==
  ASSUME IInv, NEW w \in Worker, ApplyCheckBefore(w)
  PROVE  IInv' /\ Final
<1>0. /\ req[w].pc = "check_before" /\ req[w].sup \in TaskId
      /\ db.task[req[w].sup].name = "deploy" /\ db.cluster # "deleted"
  BY SupExists DEF ApplyCheckBefore
<1>1. orch' = orch /\ queue' = queue /\ budget' = budget
  BY DEF ApplyCheckBefore
<1>2. CASE Goto(w, AfterCheck(req[w])) /\ db' = db
  BY <1>0, <1>1, <1>2, ChecksPassed
<1>3. CASE /\ Room /\ Return(w)
           /\ db' = UpdateTask(NewPart(w, "check_before_deployment"),
                               db.seq + 1, "error")
  <2> DEFINE d1 == NewPart(w, "check_before_deployment")
  <2>1. /\ "check_before_deployment" \in SubtaskNames \ {"check_networks"}
        /\ db.seq < MaxTask
    BY <1>3 DEF SubtaskNames, Checks, Room
  <2>2. /\ Good(d1) /\ Follows(db, d1) /\ db.seq + 1 \in TaskId
        /\ d1.task[db.seq + 1].name = "check_before_deployment"
    BY <1>0, <2>1, NewPartGood
  <2> HIDE DEF d1
  <2>3. Good(db') /\ Follows(d1, db')
    <3>1. Exists(d1, db.seq + 1) /\ "error" \in TaskStatuses
      BY <2>2 DEF Exists, TaskStatuses
    <3>2. db' = UpdateTask(d1, db.seq + 1, "error")
      BY <1>3 DEF d1
    <3> QED BY <2>2, <3>1, <3>2, UpdateTaskGood
  <2>4. Follows(db, db')
    BY <2>2, <2>3, RequestFacts, FollowsTransitive DEF Good
  <2> QED BY <1>0, <1>1, <1>3, <2>3, <2>4, RequestFacts, ReturnRowsStep DEF Final
<1> QED BY <1>2, <1>3 DEF ApplyCheckBefore

LEMMA EraseDiscoveredSame ==
  ASSUME NEW d \in Database
  PROVE  SameTasks(d, EraseDiscovered(d))
BY DeleteNodesSame DEF EraseDiscovered

LEMMA ToEraseType ==
  ASSUME NEW d
  PROVE  ToErase(d) \in SUBSET Node
BY DEF ToErase, NodesToDelete, ClusterNodes

LEMMA ApplyDeleteKeeps ==
  ASSUME IInv, NEW w \in Worker, ApplyDelete(w)
  PROVE  IInv' /\ Final
<1> DEFINE d1 == NewPart(w, "node_deletion")
           m  == Msg("remove_nodes", db.seq + 1, ToErase(db), NoTask)
           r  == [req[w] EXCEPT !.pc = "cast_delete", !.sub = db.seq + 1,
                                !.msgs = {m}]
<1>0. /\ req[w].pc = "delete" /\ req[w].sup \in TaskId
      /\ db.task[req[w].sup].name = "deploy" /\ db.cluster # "deleted"
  BY SupExists DEF ApplyDelete
<1>1. /\ orch' = orch /\ queue' = queue /\ budget' = budget
      /\ db' = EraseDiscovered(d1) /\ req' = [req EXCEPT ![w] = r]
      /\ db.seq < MaxTask
  BY DEF ApplyDelete, Room
<1>2. /\ Good(d1) /\ Follows(db, d1) /\ db.seq + 1 \in TaskId
      /\ Is(d1, db.seq + 1, {"node_deletion"})
  <2>1. "node_deletion" \in SubtaskNames \ {"check_networks"}
    BY DEF SubtaskNames
  <2> QED BY <1>0, <1>1, <2>1, NewPartGood
<1>3. Is(d1, req[w].sup, {"deploy"})
  <2>1. Is(db, req[w].sup, {"deploy"})
    BY <1>0, RequestFacts DEF RequestOK, SupPlaces
  <2> QED BY <1>0, <1>2, <2>1, RequestFacts, IsPreserved DEF Good
<1> HIDE DEF d1
<1>4. SameTasks(d1, db')
  BY <1>1, <1>2, EraseDiscoveredSame DEF Good
<1>5. Good(db') /\ Follows(db, db')
  BY <1>2, <1>4, RequestFacts, SameTasksGood, FollowsTransitive DEF Good
<1>6. /\ Is(db', db.seq + 1, {"node_deletion"})
      /\ Is(db', req[w].sup, {"deploy"})
  BY <1>2, <1>3, <1>4 DEF SameTasks, Is
<1>7. m \in Message /\ m.task = db.seq + 1 /\ m.method = "remove_nodes"
  BY <1>2, ToEraseType, MsgType DEF Methods
<1> HIDE DEF m
<1>8. Ref(db', m)
  BY <1>6, <1>7 DEF Ref, Answered, Methods
<1>9. /\ r \in Request /\ r.pc = "cast_delete" /\ r.msgs = {m}
      /\ r.sub = db.seq + 1 /\ r.sup = req[w].sup
  <2>1. "cast_delete" \in Places /\ {m} \in SUBSET Message
    BY <1>7 DEF Places
  <2>2. r \in Request
    BY <1>2, <2>1, RequestFacts DEF Request
  <2> QED BY <2>2, RequestFacts DEF Request
<1>10. RequestOK(db', r)
  BY <1>0, <1>2, <1>6, <1>8, <1>9 DEF RequestOK, SubPlaces, SubName
<1> HIDE DEF r
<1> QED BY <1>0, <1>1, <1>5, <1>9, <1>10, RequestFacts, WorkerStep DEF Final

\* A worker gives the orchestrator the messages it has prepared.
LEMMA CastStep ==
  ASSUME IInv, NEW w \in Worker, NEW r \in Request,
         req' = [req EXCEPT ![w] = r], RequestOK(db, r),
         orch' = orch \cup req[w].msgs,
         db' = db, queue' = queue, budget' \in Budget
  PROVE  IInv' /\ Final
<1>1. /\ req[w].msgs \subseteq Message
      /\ \A m \in req[w].msgs : Ref(db, m)
  BY RequestFacts DEF Request, RequestOK
<1> QED BY <1>1, RequestFacts, WorkerStep DEF Final

LEMMA ApplyCastDeleteKeeps ==
  ASSUME IInv, NEW w \in Worker, ApplyCastDelete(w)
  PROVE  IInv' /\ Final
<1> DEFINE r == [req[w] EXCEPT !.pc = AfterDelete(req[w]), !.msgs = {}]
<1>1. /\ req[w].pc = "cast_delete" /\ orch' = orch \cup req[w].msgs
      /\ db' = db /\ queue' = queue /\ budget' = budget
      /\ req' = [req EXCEPT ![w] = r]
  BY DEF ApplyCastDelete, At
<1>2. AfterDelete(req[w]) \in Parts \cup Rest
  BY AfterPlaces
<1>3. r \in Request /\ RequestOK(db, r)
  <2>1. req[w].pc \in SupPlaces
    BY <1>1 DEF SupPlaces
  <2> QED BY <1>2, <2>1, RequestFacts, MoveSentOK
<1> HIDE DEF r
<1> QED BY <1>1, <1>3, RequestFacts, CastStep

LEMMA ApplyCastKeeps ==
  ASSUME IInv, NEW w \in Worker, ApplyCast(w)
  PROVE  IInv' /\ Final
<1> DEFINE r == Idle
<1>1. req' = [req EXCEPT ![w] = r]
  BY DEF ApplyCast, Return
<1>2. r \in Request /\ RequestOK(db, r)
  BY IdleOK
<1> HIDE DEF r
<1> QED BY <1>1, <1>2, RequestFacts, CastStep DEF ApplyCast

LEMMA ApplySubtaskKeeps ==
  ASSUME IInv, NEW w \in Worker, NEW pc \in {"provision", "deploy"},
         NEW name \in SubtaskNames \ {"check_networks"}, NEW next \in SubPlaces,
         SubName[next] = name, ApplySubtask(w, pc, name, next)
  PROVE  IInv' /\ Final
<1> DEFINE r == [req[w] EXCEPT !.pc = next, !.sub = db.seq + 1]
<1>0. /\ req[w].pc = pc /\ req[w].sup \in TaskId
      /\ db.task[req[w].sup].name = "deploy" /\ db.cluster # "deleted"
  BY SupExists DEF ApplySubtask
<1>1. /\ orch' = orch /\ queue' = queue /\ budget' = budget
      /\ req' = [req EXCEPT ![w] = r]
      /\ db' = NewPart(w, name) /\ db.seq < MaxTask
  BY DEF ApplySubtask, Room
<1>2. /\ Good(db') /\ Follows(db, db') /\ db.seq + 1 \in TaskId
      /\ Is(db', db.seq + 1, {name})
  BY <1>0, <1>1, NewPartGood
<1>3. RequestOK(db', req[w])
  BY <1>2, RequestFacts, RequestOKPreserved DEF Good
<1>4. next \in Places
  BY DEF SubPlaces, Places
<1>5. r \in Request
  BY <1>2, <1>4, RequestFacts DEF Request
<1>6. r.pc = next /\ r.sub = db.seq + 1 /\ r.sup = req[w].sup /\ r.msgs = req[w].msgs
  BY RequestFacts DEF Request
<1>7. RequestOK(db', r)
  <2>1. pc \in SupPlaces /\ next # "locked"
    BY DEF SupPlaces, SubPlaces
  <2>2. Is(db', req[w].sup, {"deploy"})
    BY <1>0, <1>3, <2>1 DEF RequestOK
  <2> QED BY <1>0, <1>2, <1>3, <1>6, <2>1, <2>2 DEF RequestOK
<1> HIDE DEF r
<1> QED BY <1>0, <1>1, <1>2, <1>5, <1>7, RequestFacts, WorkerStep DEF Final

LEMMA ApplyProvisionKeeps ==
  ASSUME IInv, NEW w \in Worker, ApplyProvision(w)
  PROVE  IInv' /\ Final
<1>1. /\ "provision_message" \in SubPlaces
      /\ "provision" \in SubtaskNames \ {"check_networks"}
      /\ SubName["provision_message"] = "provision"
  BY DEF SubPlaces, SubName, SubtaskNames, Checks
<1> QED BY <1>1, ApplySubtaskKeeps DEF ApplyProvision

LEMMA ApplyDeployKeeps ==
  ASSUME IInv, NEW w \in Worker, ApplyDeploy(w)
  PROVE  IInv' /\ Final
<1>1. /\ "deploy_message" \in SubPlaces
      /\ "deployment" \in SubtaskNames \ {"check_networks"}
      /\ SubName["deploy_message"] = "deployment"
  BY DEF SubPlaces, SubName, SubtaskNames, Checks
<1> QED BY <1>1, ApplySubtaskKeeps DEF ApplyDeploy

\* The last subtask of a request fails, after d changed no task.
LEMMA SubFails ==
  ASSUME IInv, NEW w \in Worker, NEW pc \in SubPlaces, At(w, pc),
         NEW d, SameTasks(db, d), db' = UpdateTask(d, req[w].sub, "error")
  PROVE  Good(db') /\ Follows(db, db') /\ db.cluster # "deleted"
<1>1. /\ req[w].sub \in TaskId /\ Exists(db, req[w].sub)
      /\ db.task[req[w].sub].name # "deploy" /\ "error" \in TaskStatuses
  BY SubExists DEF TaskStatuses
<1>2. db.cluster # "deleted"
  BY <1>1, RequestFacts DEF Good, Gone, Exists
<1> QED BY <1>1, <1>2, RequestFacts, NodesThenUpdate

LEMMA MessageFailsKeeps ==
  ASSUME IInv, NEW w \in Worker, NEW pc \in SubPlaces, At(w, pc),
         NEW d, SameTasks(db, d), MessageFails(w, d)
  PROVE  IInv' /\ Final
<1>1. Good(db') /\ Follows(db, db') /\ db.cluster # "deleted"
  BY SubFails DEF MessageFails
<1> QED BY <1>1, RequestFacts, ReturnRowsStep DEF MessageFails, Final

LEMMA ApplyAbortedKeeps ==
  ASSUME IInv, NEW w \in Worker, ApplyAborted(w)
  PROVE  IInv' /\ Final
BY RequestFacts, ReturnStep DEF ApplyAborted

LEMMA ApplyKeepMessageKeeps ==
  ASSUME IInv, NEW w \in Worker, ApplyKeepMessage(w)
  PROVE  IInv' /\ Final
<1> DEFINE pc == IF req[w].pc = "provision_kept" THEN AfterProvision(req[w]) ELSE "start"
           r == [req[w] EXCEPT !.pc = pc]
<1>1. /\ req[w].pc \in {"provision_kept", "deploy_kept"}
      /\ req' = [req EXCEPT ![w] = r] /\ UNCHANGED <<db, orch, queue, budget>>
  BY DEF ApplyKeepMessage, At, Goto
<1>2. pc \in Parts \cup Rest
  BY AfterPlaces, PartPlaces DEF Rest
<1>3. pc \in SupPlaces => req[w].pc \in SupPlaces
  BY <1>1 DEF SupPlaces
<1> HIDE DEF pc
<1>4. r \in Request /\ RequestOK(db, r)
  BY <1>2, <1>3, PartPlaces, RequestFacts, MoveOK
<1> HIDE DEF r
<1> QED BY <1>1, <1>4, RequestFacts, WorkerStep DEF Final

LEMMA ApplyProvisionMessageKeeps ==
  ASSUME IInv, NEW w \in Worker, ApplyProvisionMessage(w)
  PROVE  IInv' /\ Final
<1> DEFINE m == Msg("provision", req[w].sub, req[w].prov, NoTask)
           r == [req[w] EXCEPT !.pc = "provision_kept", !.msgs = {m}]
<1>0. At(w, "provision_message") /\ "provision_message" \in SubPlaces
  BY DEF ApplyProvisionMessage, SubPlaces
<1>1. CASE MessageFails(w, db)
  <2>1. SameTasks(db, db)
    BY RequestFacts DEF SameTasks
  <2> QED BY <1>0, <1>1, <2>1, MessageFailsKeeps
<1>2. CASE req' = [req EXCEPT ![w] = r] /\ UNCHANGED <<db, orch, queue, budget>>
  <2>1. /\ req[w].sub \in TaskId /\ req[w].pc = "provision_message"
        /\ Is(db, req[w].sub, {"provision"}) /\ req[w].prov \in SUBSET Node
        /\ req[w].sup \in TaskId /\ Is(db, req[w].sup, {"deploy"})
    BY <1>0, RequestFacts DEF At, RequestOK, SubPlaces, SupPlaces, SubName, Request
  <2>2. m \in Message /\ m.task = req[w].sub /\ m.method = "provision"
    BY <2>1, MsgType DEF Methods
  <2> HIDE DEF m
  <2>3. Ref(db, m)
    BY <2>1, <2>2 DEF Ref, Answered, Methods
  <2>5. r \in Request /\ RequestOK(db, r)
    <3>1. /\ "provision_kept" \in Places /\ {m} \in SUBSET Message
          /\ "provision_kept" \in SubPlaces
      BY <2>2 DEF Places, SubPlaces
    <3>2. r \in Request
      BY <3>1, RequestFacts DEF Request
    <3>3. /\ r.pc = "provision_kept" /\ r.sub = req[w].sub
          /\ r.sup = req[w].sup /\ r.msgs = {m}
      BY RequestFacts DEF Request
    <3>4. SubName["provision_kept"] = "provision"
      BY DEF SubName, SubPlaces
    <3> HIDE DEF r
    <3> QED BY <2>1, <2>3, <3>1, <3>2, <3>3, <3>4 DEF RequestOK
  <2> HIDE DEF r
  <2> QED BY <1>2, <2>5, RequestFacts, WorkerStep DEF Final
<1> QED BY <1>1, <1>2 DEF ApplyProvisionMessage

LEMMA GiveRolesSame ==
  ASSUME NEW d \in Database, NEW S
  PROVE  SameTasks(d, GiveRoles(d, S))
<1>1. \A n \in Node : [d.node[n] EXCEPT !.pending_roles = FALSE] \in NodeRow
  BY RowTypes DEF NodeRow
<1>2. [n \in Node |->
        IF n \in S THEN [d.node[n] EXCEPT !.pending_roles = FALSE]
                   ELSE d.node[n]] \in [Node -> NodeRow]
  BY <1>1, RowTypes
<1> QED BY <1>2, SetNodesSame DEF GiveRoles

LEMMA ToProvisionedSame ==
  ASSUME NEW d \in Database, NEW S
  PROVE  SameTasks(d, ToProvisioned(d, S))
<1> DEFINE e == GiveRoles(d, S)
<1>1. SameTasks(d, e)
  BY GiveRolesSame
<1>2. ToProvisioned(d, S) = SetNodeStatus(e, S \cap NodesIn(d, {"deploying"}),
                                          "provisioned")
  BY DEF ToProvisioned
<1> HIDE DEF e
<1>3. SameTasks(e, ToProvisioned(d, S))
  BY <1>1, <1>2, SetNodeStatusSame DEF SameTasks, NodeStatuses
<1> QED BY <1>1, <1>3, SameTasksTransitive

LEMMA ClearAdditionSame ==
  ASSUME NEW d \in Database, NEW S
  PROVE  SameTasks(d, ClearAddition(d, S))
<1>1. \A n \in Node : [d.node[n] EXCEPT !.pending_addition = FALSE] \in NodeRow
  BY RowTypes DEF NodeRow
<1>2. [n \in Node |->
        IF n \in S THEN [d.node[n] EXCEPT !.pending_addition = FALSE]
                   ELSE d.node[n]] \in [Node -> NodeRow]
  BY <1>1, RowTypes
<1> QED BY <1>2, SetNodesSame DEF ClearAddition

LEMMA ApplyDeployMessageKeeps ==
  ASSUME IInv, NEW w \in Worker, ApplyDeployMessage(w)
  PROVE  IInv' /\ Final
<1> DEFINE S == req[w].dep
           d == IF Known(db, S) = S THEN ToProvisioned(db, S) ELSE db
           joined == {m.task : m \in req[w].msgs}
           other == IF joined = {} THEN NoTask ELSE CHOOSE t \in joined : TRUE
           msg == Msg("deploy", req[w].sub, S, other)
           r == [req[w] EXCEPT !.pc = "deploy_kept", !.msgs = req[w].msgs \cup {msg}]
<1>0. At(w, "deploy_message") /\ "deploy_message" \in SubPlaces
  BY DEF ApplyDeployMessage, SubPlaces
<1>1. SameTasks(db, d)
  <2>1. SameTasks(db, ToProvisioned(db, S))
    BY RequestFacts, ToProvisionedSame
  <2>2. SameTasks(db, db)
    BY RequestFacts DEF SameTasks
  <2> QED BY <2>1, <2>2
<1>2. \/ MessageFails(w, d)
      \/ /\ db' = ClearAddition(d, S) /\ req' = [req EXCEPT ![w] = r]
         /\ UNCHANGED <<orch, queue, budget>>
  BY DEF ApplyDeployMessage
<1>3. CASE MessageFails(w, d)
  <2> HIDE DEF d
  <2> QED BY <1>0, <1>1, <1>3, MessageFailsKeeps
<1>4. CASE /\ db' = ClearAddition(d, S) /\ req' = [req EXCEPT ![w] = r]
           /\ UNCHANGED <<orch, queue, budget>>
  <2>1. SameTasks(db, db')
    <3> HIDE DEF d
    <3>1. SameTasks(d, db')
      BY <1>1, <1>4, ClearAdditionSame DEF SameTasks
    <3> QED BY <1>1, <3>1, SameTasksTransitive
  <2>2. Good(db') /\ Follows(db, db')
    BY <2>1, RequestFacts, SameTasksGood
  <2>3. /\ req[w].sub \in TaskId /\ req[w].pc = "deploy_message"
        /\ Is(db, req[w].sub, {"deployment"}) /\ S \in SUBSET Node
        /\ db.cluster # "deleted"
    <3>1. req[w].sub \in TaskId /\ Exists(db, req[w].sub) /\ req[w].pc = "deploy_message"
      BY <1>0, SubExists
    <3> QED BY <3>1, RequestFacts
            DEF RequestOK, SubPlaces, SubName, Request, Good, Gone, Exists
  <2>4. other \in TaskId \cup {NoTask}
    <3>1. joined \subseteq TaskId
      BY RequestFacts DEF Request, Message
    <3> HIDE DEF joined
    <3> QED BY <3>1
  <2> HIDE DEF other, d
  <2>5. msg \in Message /\ msg.task = req[w].sub /\ msg.method = "deploy"
    BY <2>3, <2>4, MsgType DEF Methods
  <2> HIDE DEF msg
  <2>6. Ref(db, msg)
    <3>1. Answered["deploy"] = {"deployment", "update"}
      BY DEF Answered, Methods
    <3>2. Is(db, req[w].sub, {"deployment", "update"})
      BY <2>3 DEF Is
    <3> QED BY <2>5, <3>1, <3>2 DEF Ref
  <2>7. r \in Request /\ RequestOK(db, r)
    <3>1. r \in Request
      <4>1. /\ "deploy_kept" \in Places
            /\ req[w].msgs \cup {msg} \in SUBSET Message
        BY <2>5, RequestFacts DEF Places, Request
      <4> QED BY <4>1, RequestFacts DEF Request
    <3>2. /\ r.pc = "deploy_kept" /\ r.sub = req[w].sub
          /\ r.msgs = req[w].msgs \cup {msg}
      BY RequestFacts DEF Request
    <3>3. \A m \in r.msgs : Ref(db, m)
      BY <2>6, <3>2, RequestFacts DEF RequestOK
    <3>4. "deploy_kept" \in SubPlaces /\ "deploy_kept" \notin SupPlaces
      BY DEF SubPlaces, SupPlaces
    <3>5. SubName["deploy_kept"] = "deployment"
      BY DEF SubName, SubPlaces
    <3> HIDE DEF r
    <3> QED BY <2>3, <3>1, <3>2, <3>3, <3>4, <3>5 DEF RequestOK
  <2> HIDE DEF r
  <2>8. RequestOK(db', r)
    BY <2>2, <2>7, RequestFacts, RequestOKPreserved DEF Good
  <2> QED BY <1>4, <2>2, <2>3, <2>7, <2>8, RequestFacts, WorkerStep DEF Final
<1> QED BY <1>2, <1>3, <1>4

LEMMA ApplyStartKeeps ==
  ASSUME IInv, NEW w \in Worker, ApplyStart(w)
  PROVE  IInv' /\ Final
<1> DEFINE r == [req[w] EXCEPT !.pc = "mark_cluster"]
<1>1. /\ db.cluster # "deleted" /\ req' = [req EXCEPT ![w] = r]
      /\ db' = SetNodeStatus(db, req[w].prov, "provisioning")
      /\ UNCHANGED <<orch, queue, budget>>
  BY DEF ApplyStart, At, Alive, Goto
<1>2. SameTasks(db, db')
  BY <1>1, RequestFacts, SetNodeStatusSame DEF NodeStatuses
<1>3. Good(db') /\ Follows(db, db')
  BY <1>2, RequestFacts, SameTasksGood
<1>4. r \in Request /\ RequestOK(db, r)
  BY RequestFacts, PartPlaces, MoveOK DEF Rest, Parts
<1> HIDE DEF r
<1>5. RequestOK(db', r)
  BY <1>3, <1>4, RequestFacts, RequestOKPreserved DEF Good
<1> QED BY <1>1, <1>3, <1>4, <1>5, RequestFacts, WorkerStep DEF Final

LEMMA ApplyMarkClusterKeeps ==
  ASSUME IInv, NEW w \in Worker, ApplyMarkCluster(w)
  PROVE  IInv' /\ Final
<1> DEFINE r == [req[w] EXCEPT !.pc = "cast"]
<1>1. /\ db.cluster # "deleted" /\ req' = [req EXCEPT ![w] = r]
      /\ db' = SetCluster(db, "deployment")
      /\ UNCHANGED <<orch, queue, budget>>
  BY DEF ApplyMarkCluster, At, Alive, Goto
<1>2. SameTasks(db, db')
  BY <1>1, RequestFacts, SetClusterSame DEF ClusterStatuses
<1>3. Good(db') /\ Follows(db, db')
  BY <1>2, RequestFacts, SameTasksGood
<1>4. r \in Request /\ RequestOK(db, r)
  BY RequestFacts, PartPlaces, MoveOK DEF Rest, Parts
<1> HIDE DEF r
<1>5. RequestOK(db', r)
  BY <1>3, <1>4, RequestFacts, RequestOKPreserved DEF Good
<1> QED BY <1>1, <1>3, <1>4, <1>5, RequestFacts, WorkerStep DEF Final

\* Of the rows of a live cluster only those of nodes have changed.
LEMMA NodesThenGood ==
  ASSUME IInv, NEW d, Good(d), Follows(db, d), NEW e, SameTasks(d, e)
  PROVE  Good(e) /\ Follows(db, e)
<1>1. Good(e) /\ Follows(d, e)
  BY SameTasksGood
<1> QED BY <1>1, RequestFacts, FollowsTransitive DEF Good, IInv

LEMMA MarkProvisioningSame ==
  ASSUME NEW d \in Database, NEW S
  PROVE  SameTasks(d, MarkProvisioning(d, S))
<1> DEFINE e == ClearAddition(d, S)
<1>1. SameTasks(d, e)
  BY ClearAdditionSame
<1> HIDE DEF e
<1>2. SameTasks(e, SetNodeStatus(e, S, "provisioning"))
  BY <1>1, SetNodeStatusSame DEF SameTasks, NodeStatuses
<1> QED BY <1>1, <1>2, SameTasksTransitive DEF MarkProvisioning, e

LEMMA SelectToProvisionKeeps ==
  ASSUME IInv, NEW w \in Worker, SelectToProvision(w)
  PROVE  IInv' /\ Final
<1>1. PICK S \in SUBSET ClusterNodes(db) :
        req' = [req EXCEPT ![w] = [Idle EXCEPT !.pc = "select_message",
                                               !.sub = db.seq + 1, !.prov = S]]
  BY DEF SelectToProvision
<1> DEFINE r == [Idle EXCEPT !.pc = "select_message", !.sub = db.seq + 1,
                             !.prov = S]
<1>2. /\ db' = CreateTask(db, "provision", NoTask) /\ db.seq < MaxTask
      /\ db.cluster # "deleted" /\ budget' \in Budget
      /\ orch' = orch /\ queue' = queue
  BY Accepted DEF SelectToProvision, Room
<1>3. /\ Good(db') /\ Follows(db, db') /\ db.seq + 1 \in TaskId
      /\ Is(db', db.seq + 1, {"provision"})
  <2>1. "provision" \in SubtaskNames \cup TopNames
    BY DEF SubtaskNames
  <2> QED BY <1>2, <2>1, RequestFacts, NewTopTask
<1>4. S \in SUBSET Node
  BY DEF ClusterNodes
<1>5. r \in Request /\ RequestOK(db', r)
  BY <1>3, <1>4 DEF Request, Places, Idle, RequestOK, SupPlaces, SubPlaces, SubName
<1>6. req' = [req EXCEPT ![w] = r]
  BY <1>1
<1> HIDE DEF r
<1> QED BY <1>2, <1>3, <1>5, <1>6, RequestFacts, WorkerStep DEF Final

\* A request whose messages are made goes on to a place that needs nothing else.
LEMMA WithMessagesOK ==
  ASSUME NEW d, NEW q \in Request, NEW msgs \in SUBSET Message,
         \A m \in msgs : Ref(d, m), NEW pc \in {"select_mark", "cast"}
  PROVE  /\ [q EXCEPT !.pc = pc, !.msgs = msgs] \in Request
         /\ RequestOK(d, [q EXCEPT !.pc = pc, !.msgs = msgs])
<1> DEFINE r == [q EXCEPT !.pc = pc, !.msgs = msgs]
<1>1. pc \in Places
  BY DEF Places
<1>2. r \in Request
  BY <1>1 DEF Request
<1>3. r.pc = pc /\ r.msgs = msgs
  BY DEF Request
<1> HIDE DEF r
<1>4. RequestOK(d, r)
  BY <1>3 DEF RequestOK, SupPlaces, SubPlaces
<1> QED BY <1>2, <1>4 DEF r

LEMMA SelectMessageKeeps ==
  ASSUME IInv, NEW w \in Worker, SelectMessage(w)
  PROVE  IInv' /\ Final
<1> DEFINE m == Msg("provision", req[w].sub, req[w].prov, NoTask)
           d == UpdateTask(db, req[w].sub, "error")
<1>0. At(w, "select_message") /\ "select_message" \in SubPlaces
  BY DEF SelectMessage, SubPlaces
<1>1. /\ req[w].sub \in TaskId /\ Exists(db, req[w].sub)
      /\ Is(db, req[w].sub, {"provision"}) /\ db.task[req[w].sub].name # "deploy"
  BY <1>0, SubExists, RequestFacts DEF RequestOK, SubPlaces, SubName
<1>2. db.cluster # "deleted"
  BY <1>1, RequestFacts DEF Good, Gone, Exists
<1>3. UNCHANGED <<orch, queue, budget>>
  BY DEF SelectMessage
<1>4. CASE db' = MarkProvisioning(d, req[w].prov) /\ Return(w)
  <2>1. Good(d) /\ Follows(db, d)
    BY <1>1, RequestFacts, UpdateTaskGood DEF TaskStatuses
  <2> HIDE DEF d
  <2>2. SameTasks(d, db')
    BY <1>4, <2>1, MarkProvisioningSame DEF Good
  <2>3. Good(db') /\ Follows(db, db')
    BY <2>1, <2>2, NodesThenGood
  <2> QED BY <1>2, <1>3, <1>4, <2>3, RequestFacts, ReturnRowsStep DEF Final
<1>5. CASE /\ db' = db
           /\ req' = [req EXCEPT ![w] = [@ EXCEPT !.pc = "select_mark",
                                                   !.msgs = {m}]]
  <2> DEFINE r == [req[w] EXCEPT !.pc = "select_mark", !.msgs = {m}]
  <2>1. req[w].prov \in SUBSET Node
    BY RequestFacts DEF Request
  <2>2. m \in Message /\ m.task = req[w].sub /\ m.method = "provision"
    BY <1>1, <2>1, MsgType DEF Methods
  <2> HIDE DEF m
  <2>3. Ref(db, m)
    BY <1>1, <2>2 DEF Ref, Answered, Methods
  <2>4. r \in Request /\ RequestOK(db', r)
    BY <1>5, <2>2, <2>3, RequestFacts, WithMessagesOK
  <2>5. req' = [req EXCEPT ![w] = r]
    BY <1>5
  <2> HIDE DEF r
  <2> QED BY <1>3, <1>5, <2>4, <2>5, RequestFacts, WorkerStep DEF Final
<1> QED BY <1>4, <1>5 DEF SelectMessage

\* A deployment of selected nodes, or an update: its new task fails or its
\* message is made.
LEMMA StartNewKeeps ==
  ASSUME IInv, NEW w \in Worker, NEW d, Good(d), Follows(db, d),
         db.cluster # "deleted", d.seq \in TaskId,
         d.task[d.seq].name \in {"deployment", "update"},
         NEW S \in SUBSET Node, StartNew(w, d, S),
         budget' \in Budget, orch' = orch, queue' = queue
  PROVE  IInv' /\ Final
<1> DEFINE m == Msg("deploy", d.seq, S, NoTask)
           r == [Idle EXCEPT !.pc = "select_mark", !.sub = d.seq, !.dep = S,
                             !.msgs = {m}]
<1>1. CASE /\ db' = SetNodeStatus(UpdateTask(d, d.seq, "error"), S, "deploying")
           /\ Return(w)
  <2> DEFINE e == UpdateTask(d, d.seq, "error")
  <2>1. Good(e) /\ Follows(d, e)
    <3>1. /\ Exists(d, d.seq) /\ d.task[d.seq].name # "deploy"
          /\ "error" \in TaskStatuses
      BY DEF Exists, TaskStatuses
    <3> QED BY <3>1, UpdateTaskGood
  <2> HIDE DEF e
  <2>2. Follows(db, e)
    BY <2>1, RequestFacts, FollowsTransitive DEF Good
  <2>3. SameTasks(e, db')
    BY <1>1, <2>1, SetNodeStatusSame DEF Good, NodeStatuses, e
  <2>4. Good(db') /\ Follows(db, db')
    BY <2>1, <2>2, <2>3, NodesThenGood
  <2> QED BY <1>1, <2>4, ReturnRowsStep DEF Final
<1>2. CASE db' = ClearAddition(d, S) /\ req' = [req EXCEPT ![w] = r]
  <2>1. SameTasks(d, db')
    BY <1>2, ClearAdditionSame DEF Good
  <2>2. Good(db') /\ Follows(db, db')
    BY <2>1, NodesThenGood
  <2>3. m \in Message /\ m.task = d.seq /\ m.method = "deploy"
    BY MsgType DEF Methods
  <2> HIDE DEF m
  <2>4. Is(db', d.seq, {"deployment", "update"})
    <3>1. d.seq \in Int
      BY DEF TaskId
    <3> QED BY <2>1, <3>1 DEF SameTasks, Is
  <2>5. Ref(db', m)
    BY <2>3, <2>4 DEF Ref, Answered, Methods
  <2>6. r \in Request
    BY <2>3 DEF Request, Idle, Places
  <2>7. r.pc = "select_mark" /\ r.msgs = {m}
    BY DEF Idle
  <2> HIDE DEF r
  <2>8. RequestOK(db', r)
    BY <2>5, <2>7 DEF RequestOK, SupPlaces, SubPlaces
  <2> QED BY <1>2, <2>2, <2>6, <2>8, RequestFacts, WorkerStep DEF Final
<1> QED BY <1>1, <1>2 DEF StartNew

LEMMA SelectToDeployKeeps ==
  ASSUME IInv, NEW w \in Worker, SelectToDeploy(w)
  PROVE  IInv' /\ Final
<1> DEFINE c == CreateTask(db, "deployment", NoTask)
<1>1. PICK S \in SUBSET ClusterNodes(db) : StartNew(w, ToProvisioned(c, S), S)
  BY DEF SelectToDeploy
<1>2. /\ db.seq < MaxTask /\ db.cluster # "deleted" /\ budget' \in Budget
      /\ orch' = orch /\ queue' = queue
  BY Accepted DEF SelectToDeploy, Room
<1>3. /\ Good(c) /\ Follows(db, c) /\ c.seq = db.seq + 1 /\ c.seq \in TaskId
      /\ c.task[c.seq].name = "deployment"
  <2>1. "deployment" \in SubtaskNames \cup TopNames
    BY DEF SubtaskNames
  <2>2. NoTask \in TaskId \cup {NoTask}
    OBVIOUS
  <2>3. Good(db) /\ db \in Database
    BY RequestFacts
  <2>4. /\ Good(c) /\ Follows(db, c) /\ c.seq = db.seq + 1 /\ c.seq \in TaskId
        /\ c.task[c.seq] = [name |-> "deployment", status |-> "running", parent |-> NoTask]
    BY <1>2, <2>1, <2>2, <2>3, CreateTaskGood
  <2> HIDE DEF c
  <2> QED BY <2>4
<1> HIDE DEF c
<1> DEFINE d == ToProvisioned(c, S)
<1>4. SameTasks(c, d)
  BY <1>3, ToProvisionedSame DEF Good
<1> HIDE DEF d
<1>5. Good(d) /\ Follows(db, d)
  BY <1>3, <1>4, NodesThenGood
<1>6. d.seq \in TaskId /\ d.task[d.seq].name \in {"deployment", "update"}
  BY <1>3, <1>4 DEF SameTasks
<1>7. S \in SUBSET Node /\ StartNew(w, d, S)
  BY <1>1 DEF ClusterNodes, d
<1> QED BY <1>2, <1>5, <1>6, <1>7, StartNewKeeps

LEMMA SelectMarkKeeps ==
  ASSUME IInv, NEW w \in Worker, SelectMark(w)
  PROVE  IInv' /\ Final
<1> DEFINE d == MarkProvisioning(db, req[w].prov)
           r == [req[w] EXCEPT !.pc = "cast"]
<1>1. /\ req[w].pc = "select_mark" /\ Exists(db, req[w].sub)
      /\ db' = SetNodeStatus(d, req[w].dep, "deploying")
      /\ req' = [req EXCEPT ![w] = r] /\ UNCHANGED <<orch, queue, budget>>
  BY DEF SelectMark, At, Alive, Goto
<1>2. db.cluster # "deleted"
  BY <1>1, RequestFacts DEF Good, Gone, Exists
<1>3. SameTasks(db, d)
  BY RequestFacts, MarkProvisioningSame
<1> HIDE DEF d
<1>4. SameTasks(d, db')
  BY <1>1, <1>3, SetNodeStatusSame DEF SameTasks, NodeStatuses
<1>5. Good(db') /\ Follows(db, db')
  BY <1>3, <1>4, RequestFacts, SameTasksTransitive, SameTasksGood
<1>6. r \in Request /\ RequestOK(db, r)
  <2>1. "cast" \in Places
    BY DEF Places
  <2>2. r \in Request
    BY <2>1, RequestFacts DEF Request
  <2>3. r.pc = "cast" /\ r.msgs = req[w].msgs
    BY RequestFacts DEF Request
  <2> HIDE DEF r
  <2> QED BY <2>2, <2>3, RequestFacts DEF RequestOK, SupPlaces, SubPlaces
<1> HIDE DEF r
<1>7. RequestOK(db', r)
  BY <1>5, <1>6, RequestFacts, RequestOKPreserved DEF Good
<1> QED BY <1>1, <1>2, <1>5, <1>6, <1>7, RequestFacts, WorkerStep DEF Final

LEMMA ChooseReleaseKeeps ==
  ASSUME IInv, NEW w \in Worker, ChooseRelease(w)
  PROVE  IInv' /\ Final
<1>1. /\ budget' \in Budget /\ db.cluster # "deleted"
      /\ UNCHANGED <<req, orch, queue>>
  BY Accepted DEF ChooseRelease
<1>2. SameTasks(db, db')
  BY RequestFacts, SetReleaseSame DEF ChooseRelease, IInv, Good
<1>3. Good(db') /\ Follows(db, db')
  BY <1>2, SameTasksGood DEF IInv
<1> QED BY <1>1, <1>3, RowsStep DEF Final

LEMMA UpdateRefuseKeeps ==
  ASSUME IInv, NEW w \in Worker, UpdateRefuse(w)
  PROVE  IInv' /\ Final
BY Accepted, QuietStep DEF UpdateRefuse

LEMMA UpdateCreateKeeps ==
  ASSUME IInv, NEW w \in Worker, UpdateCreate(w)
  PROVE  IInv' /\ Final
<1> DEFINE c == CreateTask(db, "update", NoTask)
           d1 == SetCluster(c, "update")
<1>1. PICK S \in ToUpgrade :
        StartNew(w, SetNodeStatus(GiveRoles(d1, S), S, "provisioned"), S)
  BY DEF UpdateCreate
<1>2. /\ db.seq < MaxTask /\ db.cluster # "deleted" /\ budget' \in Budget
      /\ orch' = orch /\ queue' = queue
  BY Accepted DEF UpdateCreate, Room
<1>3. /\ Good(c) /\ Follows(db, c) /\ c.seq = db.seq + 1 /\ c.seq \in TaskId
      /\ c.task[c.seq].name = "update"
  <2>1. "update" \in SubtaskNames \cup TopNames
    BY DEF TopNames
  <2>2. NoTask \in TaskId \cup {NoTask}
    OBVIOUS
  <2>3. Good(db) /\ db \in Database
    BY RequestFacts
  <2>4. /\ Good(c) /\ Follows(db, c) /\ c.seq = db.seq + 1 /\ c.seq \in TaskId
        /\ c.task[c.seq] = [name |-> "update", status |-> "running", parent |-> NoTask]
    BY <1>2, <2>1, <2>2, <2>3, CreateTaskGood
  <2> HIDE DEF c
  <2> QED BY <2>4
<1> HIDE DEF c
<1>4. SameTasks(c, d1)
  BY <1>3, SetClusterSame DEF Good, ClusterStatuses
<1> HIDE DEF d1
<1> DEFINE d2 == GiveRoles(d1, S)
           d == SetNodeStatus(d2, S, "provisioned")
<1>5. SameTasks(d1, d2)
  BY <1>4, GiveRolesSame DEF SameTasks
<1> HIDE DEF d2
<1>6. SameTasks(d2, d)
  BY <1>5, SetNodeStatusSame DEF SameTasks, NodeStatuses
<1> HIDE DEF d
<1>7. SameTasks(c, d)
  BY <1>4, <1>5, <1>6, SameTasksTransitive
<1>8. Good(d) /\ Follows(db, d)
  BY <1>3, <1>7, NodesThenGood
<1>9. d.seq \in TaskId /\ d.task[d.seq].name \in {"deployment", "update"}
  BY <1>3, <1>7 DEF SameTasks
<1>10. S \in SUBSET Node
  BY DEF ToUpgrade, NodesToUpgrade, ClusterNodes
<1>11. StartNew(w, d, S)
  BY <1>1 DEF d, d2
<1> QED BY <1>2, <1>8, <1>9, <1>10, <1>11, StartNewKeeps

LEMMA StopRefuseKeeps ==
  ASSUME IInv, NEW w \in Worker, StopRefuse(w)
  PROVE  IInv' /\ Final
BY Accepted, QuietStep DEF StopRefuse

LEMMA StopCreateKeeps ==
  ASSUME IInv, NEW w \in Worker, StopCreate(w)
  PROVE  IInv' /\ Final
<1> DEFINE d1 == DeleteTasks(db, FirstOf(StopTasks))
           R1 == FirstOf(Named(db, {"provision"}))
           R2 == FirstOf(Named(db, {"deployment"}))
           r == [Idle EXCEPT !.pc = "stop_provision", !.sub = db.seq + 1,
                             !.rows = R1, !.next = R2]
<1>1. /\ db' = CreateTask(d1, "stop_deployment", NoTask)
      /\ db.seq < MaxTask /\ db.cluster # "deleted"
      /\ req' = [req EXCEPT ![w] = r] /\ budget' \in Budget
      /\ orch' = orch /\ queue' = queue
  BY Accepted DEF StopCreate, Room
<1>2. Good(d1) /\ Follows(db, d1) /\ d1.seq = db.seq /\ d1.cluster = db.cluster
  <2>1. {"stop_deployment"} \in SUBSET TopNames
    BY DEF TopNames
  <2>2. FirstOf(StopTasks) \in SUBSET Named(db, {"stop_deployment"})
    BY DEF FirstOf, StopTasks
  <2> QED BY <2>1, <2>2, RequestFacts, DeleteTopTasks
<1> HIDE DEF d1
<1>3. /\ Good(db') /\ Follows(d1, db') /\ db.seq + 1 \in TaskId
      /\ Is(db', db.seq + 1, {"stop_deployment"})
  <2>1. "stop_deployment" \in TopNames
    BY DEF TopNames
  <2> QED BY <1>1, <1>2, <2>1, NewTopTask
<1>4. Follows(db, db')
  BY <1>2, <1>3, RequestFacts, FollowsTransitive DEF Good
<1>5. R1 \in SUBSET TaskId /\ R2 \in SUBSET TaskId
  BY DEF FirstOf, Named
<1> HIDE DEF R1, R2
<1>6. r \in Request /\ RequestOK(db', r)
  BY <1>3, <1>5 DEF Request, Places, Idle, RequestOK, SupPlaces, SubPlaces, SubName
<1> HIDE DEF r
<1> QED BY <1>1, <1>3, <1>4, <1>6, RequestFacts, WorkerStep DEF Final

\* The two casts of a stop.
StopPlaces == {"stop_provision", "stop_deployment"}

LEMMA StopGoneKeeps ==
  ASSUME IInv, NEW w \in Worker, StopGone(w)
  PROVE  IInv' /\ Final
<1>1. SameTasks(db, db)
  BY RequestFacts DEF SameTasks
<1>2. StopPlaces \subseteq SubPlaces
  BY DEF StopPlaces, SubPlaces
<1>3. PICK pc \in StopPlaces : At(w, pc) /\ MessageFails(w, db)
  BY DEF StopGone, StopPlaces
<1> QED BY <1>1, <1>2, <1>3, MessageFailsKeeps

LEMMA StopCastKeeps ==
  ASSUME IInv, NEW w \in Worker, StopCast(w)
  PROVE  IInv' /\ Final
<1>1. /\ req[w].pc \in StopPlaces /\ req[w].sub \in TaskId
      /\ Is(db, req[w].sub, {"stop_deployment"})
      /\ req[w].rows \in SUBSET TaskId /\ req[w].next \in SUBSET TaskId
  BY RequestFacts
     DEF StopCast, At, StopPlaces, RequestOK, SubPlaces, SubName, Request
<1>2. /\ db' = db /\ queue' = queue /\ budget' = budget
      /\ orch' = orch \cup {StopMessage(w, t) : t \in req[w].rows}
  BY DEF StopCast
<1>3. ASSUME NEW t \in req[w].rows
      PROVE  StopMessage(w, t) \in Message /\ Ref(db, StopMessage(w, t))
  <2> DEFINE nodes == {n \in ClusterNodes(db) : db.node[n].status # "ready"}
             m == Msg("stop_deploy_task", req[w].sub, nodes, t)
  <2>1. nodes \in SUBSET Node
    BY DEF ClusterNodes
  <2>2. StopMessage(w, t) = m
    BY DEF StopMessage
  <2> HIDE DEF nodes
  <2>3. "stop_deploy_task" \in Methods /\ t \in TaskId
    BY <1>1 DEF Methods
  <2>4. m \in Message /\ m.task = req[w].sub /\ m.method = "stop_deploy_task"
    BY <1>1, <2>1, <2>3, MsgType
  <2> HIDE DEF m
  <2> QED BY <1>1, <2>2, <2>4 DEF Ref, Answered, Methods
<1>4. orch' \subseteq Message /\ \A m \in orch' : m \in orch \/ Ref(db', m)
  BY <1>2, <1>3, RequestFacts
<1>5. CASE Return(w)
  BY <1>2, <1>4, <1>5, RequestFacts, ReturnStep
<1>6. CASE req' = [req EXCEPT ![w] = [@ EXCEPT !.pc = "stop_deployment",
                                              !.rows = req[w].next, !.next = {}]]
  <2> DEFINE r == [req[w] EXCEPT !.pc = "stop_deployment",
                                 !.rows = req[w].next, !.next = {}]
  <2>0. SubName["stop_deployment"] = "stop_deployment"
    BY DEF SubName, SubPlaces
  <2>1. r \in Request /\ RequestOK(db', r)
    <3>1. "stop_deployment" \in Places /\ "stop_deployment" \in SubPlaces
      BY DEF Places, SubPlaces
    <3>2. r \in Request
      BY <1>1, <3>1, RequestFacts DEF Request
    <3>3. /\ r.pc = "stop_deployment" /\ r.sub = req[w].sub
          /\ r.msgs = req[w].msgs
      BY RequestFacts DEF Request
    <3>4. \A m \in r.msgs : Ref(db', m)
      BY <1>2, <3>3, RequestFacts DEF RequestOK
    <3> HIDE DEF r
    <3> QED BY <1>1, <1>2, <2>0, <3>1, <3>2, <3>3, <3>4 DEF RequestOK, SupPlaces
  <2>2. req' = [req EXCEPT ![w] = r]
    BY <1>6
  <2> HIDE DEF r
  <2> QED BY <1>2, <1>4, <2>1, <2>2, RequestFacts, WorkerStep DEF Final
<1> QED BY <1>5, <1>6 DEF StopCast

LEMMA ResetCheckKeeps ==
  ASSUME IInv, NEW w \in Worker, ResetCheck(w)
  PROVE  IInv' /\ Final
<1>1. /\ db' = db /\ orch' = orch /\ queue' = queue /\ budget' \in Budget
  BY Accepted DEF ResetCheck
<1>2. CASE req' = req
  BY <1>1, <1>2, QuietStep
<1>3. CASE req' = [req EXCEPT ![w] = [Idle EXCEPT !.pc = "reset_delete"]]
  <2> DEFINE r == [Idle EXCEPT !.pc = "reset_delete"]
  <2>1. r \in Request /\ RequestOK(db', r)
    BY DEF Request, Idle, Places, RequestOK, SupPlaces, SubPlaces
  <2>2. req' = [req EXCEPT ![w] = r]
    BY <1>3
  <2> HIDE DEF r
  <2> QED BY <1>1, <2>1, <2>2, RequestFacts, WorkerStep DEF Final
<1> QED BY <1>2, <1>3 DEF ResetCheck

LEMMA ResetDeleteKeeps ==
  ASSUME IInv, NEW w \in Worker, ResetDelete(w)
  PROVE  IInv' /\ Final
<1> DEFINE S == Named(db, {"deploy", "deployment", "stop_deployment"})
           r == [req[w] EXCEPT !.pc = "reset_create"]
<1>1. /\ db' = DeleteTasks(db, S) /\ req' = [req EXCEPT ![w] = r]
      /\ req[w].pc = "reset_delete" /\ db.cluster # "deleted"
      /\ UNCHANGED <<orch, queue, budget>>
  BY DEF ResetDelete, At, Alive, Goto
<1>2. S \in SUBSET TaskId
  BY DEF Named
<1>3. \A t \in S : db.task[t].parent = NoTask \/ db.task[t].parent \in S
  <2> SUFFICES ASSUME NEW t \in S, db.task[t].parent # NoTask
               PROVE  db.task[t].parent \in S
    OBVIOUS
  <2>1. db.task[t].parent \in TaskId
    BY <1>2, RequestFacts, RowTypes DEF TaskRow
  <2>2. db.task[db.task[t].parent].name = "deploy"
    BY <1>2, RequestFacts DEF Good, Shape
  <2> QED BY <2>1, <2>2 DEF Named
<1> HIDE DEF S
<1>4. Good(db') /\ Follows(db, db')
  BY <1>1, <1>2, <1>3, RequestFacts, DeleteTasksGood
<1>5. r \in Request /\ RequestOK(db, r)
  <2>1. "reset_create" \in (Parts \cup Rest) \ Parts
    BY DEF Parts, Rest
  <2> QED BY <2>1, RequestFacts, MoveOK
<1> HIDE DEF r
<1>6. RequestOK(db', r)
  BY <1>4, <1>5, RequestFacts, RequestOKPreserved DEF Good
<1> QED BY <1>1, <1>4, <1>5, <1>6, RequestFacts, WorkerStep DEF Final

LEMMA ResetCreateKeeps ==
  ASSUME IInv, NEW w \in Worker, ResetCreate(w)
  PROVE  IInv' /\ Final
<1> DEFINE r == [req[w] EXCEPT !.pc = "cast_reset", !.sub = db.seq + 1]
<1>1. /\ db' = CreateTask(db, "reset_environment", NoTask)
      /\ req' = [req EXCEPT ![w] = r] /\ req[w].pc = "reset_create"
      /\ db.cluster # "deleted" /\ db.seq < MaxTask
      /\ UNCHANGED <<orch, queue, budget>>
  BY DEF ResetCreate, At, Alive, Room
<1>2. /\ Good(db') /\ Follows(db, db') /\ db.seq + 1 \in TaskId
      /\ Is(db', db.seq + 1, {"reset_environment"})
  <2>1. "reset_environment" \in TopNames
    BY DEF TopNames
  <2> QED BY <1>1, <2>1, RequestFacts, NewTopTask
<1>3. RequestOK(db', req[w])
  BY <1>2, RequestFacts, RequestOKPreserved DEF Good
<1>4. /\ r \in Request /\ r.pc = "cast_reset" /\ r.sub = db.seq + 1
      /\ r.msgs = req[w].msgs
  <2>1. "cast_reset" \in Places
    BY DEF Places
  <2>2. r \in Request
    BY <1>2, <2>1, RequestFacts DEF Request
  <2> QED BY <2>2, RequestFacts DEF Request
<1> HIDE DEF r
<1>5. RequestOK(db', r)
  BY <1>2, <1>3, <1>4 DEF RequestOK, SupPlaces, SubPlaces, SubName
<1> QED BY <1>1, <1>2, <1>4, <1>5, RequestFacts, WorkerStep DEF Final

LEMMA ResetCastKeeps ==
  ASSUME IInv, NEW w \in Worker, ResetCast(w)
  PROVE  IInv' /\ Final
<1> DEFINE m == Msg("reset_environment", req[w].sub, ClusterNodes(db), NoTask)
<1>1. /\ req[w].pc = "cast_reset" /\ orch' = orch \cup {m} /\ Return(w)
      /\ UNCHANGED <<db, queue, budget>>
  BY DEF ResetCast, At
<1>2. req[w].sub \in TaskId /\ Is(db, req[w].sub, {"reset_environment"})
  BY <1>1, RequestFacts DEF RequestOK, SubPlaces, SubName
<1>3. ClusterNodes(db) \in SUBSET Node
  BY DEF ClusterNodes
<1>4. m \in Message /\ m.task = req[w].sub /\ m.method = "reset_environment"
  BY <1>2, <1>3, MsgType DEF Methods
<1> HIDE DEF m
<1>5. Ref(db, m)
  BY <1>2, <1>4 DEF Ref, Answered, Methods
<1> QED BY <1>1, <1>4, <1>5, RequestFacts, ReturnStep

LEMMA ClusterDeletionLockKeeps ==
  ASSUME IInv, NEW w \in Worker, ClusterDeletionLock(w)
  PROVE  IInv' /\ Final
<1> DEFINE R == Named(db, SubtaskNames \cup TopNames)
           r == [Idle EXCEPT !.pc = "delete_locked", !.rows = R]
<1>1. /\ req' = [req EXCEPT ![w] = r] /\ db' = db /\ orch' = orch
      /\ queue' = queue /\ budget' \in Budget
  BY Accepted DEF ClusterDeletionLock
<1>2. R \in SUBSET TaskId
  BY DEF Named
<1> HIDE DEF R
<1>3. r \in Request /\ r.pc = "delete_locked" /\ r.msgs = {}
  BY <1>2 DEF Request, Idle, Places
<1>4. RequestOK(db', r)
  BY <1>3 DEF RequestOK, SupPlaces, SubPlaces
<1> HIDE DEF r
<1> QED BY <1>1, <1>3, <1>4, RequestFacts, WorkerStep DEF Final

LEMMA ClusterDeletionRefuseKeeps ==
  ASSUME IInv, NEW w \in Worker, ClusterDeletionRefuse(w)
  PROVE  IInv' /\ Final
BY RequestFacts, ReturnStep DEF ClusterDeletionRefuse

LEMMA MarkForDeletionSame ==
  ASSUME NEW d \in Database
  PROVE  SameTasks(d, MarkForDeletion(d))
<1>1. \A n \in Node : [d.node[n] EXCEPT !.pending_deletion = TRUE] \in NodeRow
  BY RowTypes DEF NodeRow
<1>2. [n \in Node |->
        IF n \in ClusterNodes(d) THEN [d.node[n] EXCEPT !.pending_deletion = TRUE]
                                 ELSE d.node[n]] \in [Node -> NodeRow]
  BY <1>1, RowTypes
<1> QED BY <1>2, SetNodesSame DEF MarkForDeletion

LEMMA ClusterDeletionCreateKeeps ==
  ASSUME IInv, NEW w \in Worker, ClusterDeletionCreate(w)
  PROVE  IInv' /\ Final
<1> DEFINE d1 == DeleteTasks(db, DeletionsSeen(w))
           d2 == MarkForDeletion(d1)
           d3 == SetCluster(d2, "remove")
           r == [Idle EXCEPT !.pc = "erase_cluster", !.sub = db.seq + 1]
<1>1. /\ db' = CreateTask(d3, "cluster_deletion", NoTask)
      /\ db.seq < MaxTask /\ db.cluster # "deleted"
      /\ req' = [req EXCEPT ![w] = r] /\ budget' \in Budget
      /\ orch' = orch /\ queue' = queue
  BY RequestFacts DEF ClusterDeletionCreate, Room, At, Alive
<1>2. Good(d1) /\ Follows(db, d1) /\ d1.seq = db.seq /\ d1.cluster = db.cluster
  <2>1. {"cluster_deletion"} \in SUBSET TopNames
    BY DEF TopNames
  <2>2. DeletionsSeen(w) \in SUBSET Named(db, {"cluster_deletion"})
    BY DEF DeletionsSeen, Deletions
  <2> QED BY <2>1, <2>2, RequestFacts, DeleteTopTasks
<1> HIDE DEF d1
<1>3. SameTasks(d1, d2)
  BY <1>2, MarkForDeletionSame DEF Good
<1> HIDE DEF d2
<1>4. SameTasks(d2, d3)
  BY <1>3, SetClusterSame DEF SameTasks, ClusterStatuses
<1> HIDE DEF d3
<1>5. SameTasks(d1, d3)
  BY <1>3, <1>4, SameTasksTransitive
<1>6. Good(d3) /\ Follows(d1, d3)
  BY <1>2, <1>5, SameTasksGood
<1>7. /\ Good(db') /\ Follows(d3, db') /\ db.seq + 1 \in TaskId
      /\ Is(db', db.seq + 1, {"cluster_deletion"})
  <2>1. "cluster_deletion" \in TopNames
    BY DEF TopNames
  <2>2. d3.seq = db.seq /\ d3.cluster # "deleted"
    BY <1>1, <1>2, <1>5 DEF SameTasks
  <2> QED BY <1>1, <1>6, <2>1, <2>2, NewTopTask
<1>8. Follows(db, db')
  BY <1>2, <1>6, <1>7, RequestFacts, FollowsTransitive DEF Good
<1>9. r \in Request /\ RequestOK(db', r)
  BY <1>7 DEF Request, Places, Idle, RequestOK, SupPlaces, SubPlaces, SubName
<1> HIDE DEF r
<1> QED BY <1>1, <1>7, <1>8, <1>9, RequestFacts, WorkerStep DEF Final

LEMMA ClusterDeletionEraseKeeps ==
  ASSUME IInv, NEW w \in Worker, ClusterDeletionErase(w)
  PROVE  IInv' /\ Final
<1> DEFINE m == Msg("remove_cluster", req[w].sub, ToErase(db), NoTask)
           r == [req[w] EXCEPT !.pc = "cast_cluster", !.msgs = {m}]
<1>0. At(w, "erase_cluster") /\ "erase_cluster" \in SubPlaces
  BY DEF ClusterDeletionErase, SubPlaces
<1>1. req[w].sub \in TaskId /\ Exists(db, req[w].sub) /\ req[w].pc = "erase_cluster"
  BY <1>0, SubExists
<1>2. db.cluster # "deleted" /\ Is(db, req[w].sub, {"cluster_deletion"})
  BY <1>1, RequestFacts DEF Good, Gone, Exists, RequestOK, SubPlaces, SubName
<1>3. UNCHANGED <<orch, queue, budget>>
  BY DEF ClusterDeletionErase
<1>4. CASE db' = DeleteCluster(db) /\ Return(w)
  <2>1. Good(db') /\ Follows(db, db')
    BY <1>4, RequestFacts, DeleteClusterGood
  <2> QED BY <1>2, <1>3, <1>4, <2>1, RequestFacts, ReturnRowsStep DEF Final
<1>5. CASE db' = EraseDiscovered(db) /\ req' = [req EXCEPT ![w] = r]
  <2>1. SameTasks(db, db')
    BY <1>5, RequestFacts, EraseDiscoveredSame
  <2>2. Good(db') /\ Follows(db, db')
    BY <2>1, RequestFacts, SameTasksGood
  <2>3. m \in Message /\ m.task = req[w].sub /\ m.method = "remove_cluster"
    BY <1>1, ToEraseType, MsgType DEF Methods
  <2> HIDE DEF m
  <2>4. Is(db', req[w].sub, {"cluster_deletion"})
    BY <1>2, <2>1 DEF SameTasks, Is
  <2>5. Ref(db', m)
    BY <2>3, <2>4 DEF Ref, Answered, Methods
  <2>6. /\ r \in Request /\ r.pc = "cast_cluster" /\ r.sub = req[w].sub
        /\ r.msgs = {m}
    <3>1. "cast_cluster" \in Places /\ {m} \in SUBSET Message
      BY <2>3 DEF Places
    <3>2. r \in Request
      BY <3>1, RequestFacts DEF Request
    <3> QED BY <3>2, RequestFacts DEF Request
  <2> HIDE DEF r
  <2>7. RequestOK(db', r)
    BY <1>1, <2>4, <2>5, <2>6 DEF RequestOK, SupPlaces, SubPlaces, SubName
  <2> QED BY <1>2, <1>3, <1>5, <2>2, <2>6, <2>7, RequestFacts, WorkerStep DEF Final
<1> QED BY <1>4, <1>5 DEF ClusterDeletionErase

LEMMA ClusterDeletionCastKeeps ==
  ASSUME IInv, NEW w \in Worker, ClusterDeletionCast(w)
  PROVE  IInv' /\ Final
<1> DEFINE r == Idle
<1>1. req' = [req EXCEPT ![w] = r]
  BY DEF ClusterDeletionCast, Return
<1>2. r \in Request /\ RequestOK(db, r)
  BY IdleOK
<1> HIDE DEF r
<1> QED BY <1>1, <1>2, RequestFacts, CastStep DEF ClusterDeletionCast

\* A step that changes the rows of nodes and nothing else.
LEMMA NodesStep ==
  ASSUME IInv, budget' \in Budget, db.cluster # "deleted",
         NEW rows \in [Node -> NodeRow], db' = SetNodes(db, rows),
         req' = req, orch' = orch, queue' = queue
  PROVE  IInv' /\ Final
<1>1. SameTasks(db, db')
  BY RequestFacts, SetNodesSame DEF IInv, Good
<1>2. Good(db') /\ Follows(db, db')
  BY <1>1, SameTasksGood DEF IInv
<1> QED BY <1>2, RowsStep DEF Final

LEMMA AssignKeeps ==
  ASSUME IInv, NEW w \in Worker, NEW n \in Node, Assign(w, n)
  PROVE  IInv' /\ Final
<1> DEFINE row == [db.node[n] EXCEPT !.assigned = TRUE, !.pending_addition = TRUE,
                                     !.pending_roles = TRUE]
           rows == [db.node EXCEPT ![n] = row]
<1>1. row \in NodeRow
  BY RequestFacts, RowTypes DEF NodeRow
<1>2. /\ db' = SetNodes(db, rows) /\ UNCHANGED <<req, orch, queue>>
      /\ budget' \in Budget /\ db.cluster # "deleted"
  BY Accepted DEF Assign
<1> HIDE DEF row
<1>3. rows \in [Node -> NodeRow]
  BY <1>1, RequestFacts DEF Database
<1> HIDE DEF rows
<1> QED BY <1>2, <1>3, NodesStep

LEMMA UnassignKeeps ==
  ASSUME IInv, NEW w \in Worker, NEW n \in Node, Unassign(w, n)
  PROVE  IInv' /\ Final
<1> DEFINE row == IF db.node[n].status = "discover"
                    THEN [db.node[n] EXCEPT !.assigned = FALSE]
                    ELSE [db.node[n] EXCEPT !.pending_deletion = TRUE]
           rows == [db.node EXCEPT ![n] = row]
<1>1. row \in NodeRow
  BY RequestFacts, RowTypes DEF NodeRow
<1>2. /\ db' = SetNodes(db, rows) /\ UNCHANGED <<req, orch, queue>>
      /\ budget' \in Budget /\ db.cluster # "deleted"
  BY Accepted DEF Unassign
<1> HIDE DEF row
<1>3. rows \in [Node -> NodeRow]
  BY <1>1, RequestFacts DEF Database
<1> HIDE DEF rows
<1> QED BY <1>2, <1>3, NodesStep

\* A step of the orchestrator or of the consumer.
LEMMA QueueStep ==
  ASSUME IInv, Good(db'), Follows(db, db'), req' = req, budget' \in Budget,
         orch' \subseteq Message, \A m \in orch' : m \in orch \/ Ref(db', m),
         queue' \in Seq(Reply), \A i \in 1 .. Len(queue') : Ref(db', queue'[i])
  PROVE  IInv'
<1>0. db \in Database /\ db' \in Database
  BY DEF Good, IInv
<1>1. TypeOK'
  BY <1>0 DEF IInv, TypeOK, Budget
<1>2. \A m \in orch' : Ref(db', m)
  <2>1. \A m \in orch : m.task \in TaskId
    BY DEF IInv, TypeOK, Message
  <2> QED BY <1>0, <2>1, RefPreserved DEF IInv, Refs
<1>3. \A v \in Worker : RequestOK(db', req'[v])
  <2>1. \A v \in Worker : req[v] \in Request
    BY DEF IInv, TypeOK
  <2> QED BY <1>0, <2>1, RequestOKPreserved DEF IInv, Refs
<1> QED BY <1>1, <1>2, <1>3 DEF IInv, Refs

\* The orchestrator reports on one of its messages.
LEMMA SendStep ==
  ASSUME IInv, NEW m \in orch, NEW st \in TaskStatuses,
         NEW good \in SUBSET Node, NEW bad \in SUBSET Node,
         Send(m, st, good, bad), UNCHANGED <<db, req, budget>>,
         orch' \subseteq Message, \A o \in orch' : o \in orch \/ Ref(db, o)
  PROVE  IInv' /\ Final
<1> DEFINE reply == [method |-> m.method, task |-> m.task, status |-> st,
                     good |-> good, bad |-> bad]
<1>1. queue' = Append(queue, reply)
  BY DEF Send
<1>2. m \in Message /\ Ref(db, m)
  BY DEF IInv, TypeOK, Refs
<1>3. reply \in Reply /\ Ref(db, reply)
  BY <1>2 DEF Message, Reply, Ref
<1> HIDE DEF reply
<1>4. queue \in Seq(Reply) /\ \A i \in 1 .. Len(queue) : Ref(db, queue[i])
  BY DEF IInv, TypeOK, Refs
<1>5. queue' \in Seq(Reply) /\ \A i \in 1 .. Len(queue') : Ref(db, queue'[i])
  BY <1>1, <1>3, <1>4
<1>6. Good(db') /\ Follows(db, db') /\ budget' \in Budget
  BY FollowsReflexive DEF IInv, Good, TypeOK, Budget
<1>7. db' = db
  OBVIOUS
<1> QED BY <1>5, <1>6, <1>7, QueueStep DEF Final

LEMMA ProgressKeeps ==
  ASSUME IInv, NEW m \in orch, Progress(m)
  PROVE  IInv' /\ Final
<1> DEFINE o == [m EXCEPT !.told = TRUE]
<1>1. PICK bad \in SUBSET m.nodes : Send(m, "running", m.nodes \ bad, bad)
  BY DEF Progress
<1>2. orch' = (orch \ {m}) \cup {o} /\ UNCHANGED <<db, req, budget>>
  BY DEF Progress
<1>3. m \in Message /\ Ref(db, m) /\ orch \subseteq Message
  BY DEF IInv, TypeOK, Refs
<1>4. o \in Message /\ Ref(db, o)
  BY <1>3 DEF Message, Ref
<1> HIDE DEF o
<1>5. "running" \in TaskStatuses /\ m.nodes \in SUBSET Node
  BY <1>3 DEF TaskStatuses, Message
<1> QED BY <1>1, <1>2, <1>3, <1>4, <1>5, SendStep

LEMMA AnswersType ==
  ASSUME NEW m \in Message, NEW a \in Answers(m)
  PROVE  a[1] \in TaskStatuses /\ a[2] \in SUBSET Node /\ a[3] \in SUBSET Node
<1>1. m.nodes \in SUBSET Node /\ m.method \in Methods
  BY DEF Message
<1>2. \/ a = <<"ready", m.nodes, {}>>
      \/ \E bad \in SUBSET m.nodes : a = <<"ready", m.nodes \ bad, bad>>
      \/ \E bad \in SUBSET m.nodes : a = <<"error", {}, bad>>
      \/ \E bad \in SUBSET m.nodes : a = <<"error", m.nodes \ bad, bad>>
      \/ a = <<"error", {}, {}>>
  <2>1. CASE m.method = "deploy"
    BY <2>1 DEF Answers
  <2>2. CASE m.method = "provision"
    BY <2>2 DEF Answers
  <2>3. CASE m.method \in {"remove_nodes", "remove_cluster"}
    BY <2>3 DEF Answers
  <2>4. CASE m.method \in {"stop_deploy_task", "reset_environment"}
    BY <2>4 DEF Answers
  <2> QED BY <1>1, <2>1, <2>2, <2>3, <2>4 DEF Methods
<1> QED BY <1>1, <1>2 DEF TaskStatuses

LEMMA FinishKeeps ==
  ASSUME IInv, NEW m \in orch, Finish(m)
  PROVE  IInv' /\ Final
<1>1. PICK a \in Answers(m) :
        /\ Send(m, a[1], a[2], a[3])
        /\ orch' = {o \in orch \ {m} :
                     ~ (m.method = "stop_deploy_task" /\ a[1] = "ready"
                          /\ o.method # "stop_deploy_task" /\ o.task = m.other)}
  BY DEF Finish
<1>2. UNCHANGED <<db, req, budget>>
  BY DEF Finish
<1>3. m \in Message /\ orch \subseteq Message
  BY DEF IInv, TypeOK
<1>4. a[1] \in TaskStatuses /\ a[2] \in SUBSET Node /\ a[3] \in SUBSET Node
  BY <1>3, AnswersType
<1>5. orch' \subseteq orch
  BY <1>1
<1> QED BY <1>1, <1>2, <1>3, <1>4, <1>5, SendStep

\* A reply is handled.
LEMMA HeadGood ==
  ASSUME IInv, queue # <<>>, db' \in Outcomes(db, Head(queue))
  PROVE  Good(db') /\ Follows(db, db') /\ Final
<1>1. queue \in Seq(Reply) /\ Len(queue) >= 1 /\ Good(db)
  BY DEF IInv, TypeOK
<1> DEFINE m == Head(queue)
<1>2. m = queue[1] /\ m \in Reply /\ Ref(db, queue[1])
  BY <1>1 DEF IInv, Refs
<1>3. Is(db, m.task, Answered[m.method])
  BY <1>2 DEF Ref
<1>4. m.task \in TaskId
  BY <1>2 DEF Reply
<1> HIDE DEF m
<1>5. /\ Good(db') /\ Follows(db, db')
      /\ ~ Exists(db, m.task) => db' = db
  BY <1>1, <1>2, <1>3, OutcomesGood DEF m
<1> QED BY <1>1, <1>4, <1>5 DEF Final, Good, Gone, Exists

LEMMA RefsFollow ==
  ASSUME IInv, Good(db'), Follows(db, db')
  PROVE  \A i \in 1 .. Len(queue) : Ref(db', queue[i])
<1>1. db \in Database /\ db' \in Database
  BY DEF IInv, Good
<1>2. \A i \in 1 .. Len(queue) : queue[i] \in Reply
  BY DEF IInv, TypeOK
<1>3. \A i \in 1 .. Len(queue) : queue[i].task \in TaskId
  BY <1>2 DEF Reply
<1> QED BY <1>1, <1>3, RefPreserved DEF IInv, Refs

LEMMA ConsumeKeeps ==
  ASSUME IInv, Consume
  PROVE  IInv' /\ Final
<1>1. /\ queue # <<>> /\ queue' = Tail(queue)
      /\ UNCHANGED <<req, orch, budget>>
  BY DEF Consume
<1>2. Good(db') /\ Follows(db, db') /\ Final
  BY HeadGood DEF Consume
<1>3. queue \in Seq(Reply) /\ orch' \subseteq Message /\ budget' \in Budget
  BY <1>1 DEF IInv, TypeOK, Budget
<1>4. /\ queue' \in Seq(Reply)
      /\ Len(queue') = Len(queue) - 1
      /\ \A i \in 1 .. Len(queue') : queue'[i] = queue[i + 1]
  BY <1>1, <1>3
<1>5. \A i \in 1 .. Len(queue') : Ref(db', queue'[i])
  <2>1. \A i \in 1 .. Len(queue') : i + 1 \in 1 .. Len(queue)
    BY <1>3, <1>4
  <2> QED BY <1>2, <1>4, <2>1, RefsFollow
<1> QED BY <1>1, <1>2, <1>3, <1>4, <1>5, QueueStep

LEMMA ConsumeUnacknowledgedKeeps ==
  ASSUME IInv, ConsumeUnacknowledged
  PROVE  IInv' /\ Final
<1>1. UNCHANGED <<req, orch, queue>>
  BY DEF ConsumeUnacknowledged
<1>2. Good(db') /\ Follows(db, db') /\ Final
  BY HeadGood DEF ConsumeUnacknowledged
<1>3. budget' \in Budget
  BY FaultSpent DEF ConsumeUnacknowledged, IInv, TypeOK, Budget
<1> QED BY <1>1, <1>2, <1>3, RowsStep

LEMMA CastRefusedKeeps ==
  ASSUME IInv, NEW w \in Worker, CastRefused(w)
  PROVE  IInv' /\ Final
<1>1. PICK pc \in SubPlaces : At(w, pc)
  BY DEF CastRefused, SubPlaces
<1>2. SameTasks(db, db)
  BY RequestFacts DEF SameTasks
<1>3. /\ db' = UpdateTask(db, req[w].sub, "error")
      /\ UNCHANGED <<orch, queue>>
  BY DEF CastRefused
<1>4. Good(db') /\ Follows(db, db') /\ db.cluster # "deleted"
  BY <1>1, <1>2, <1>3, SubFails
<1>5. budget' \in Budget
  BY RequestFacts, FaultSpent DEF CastRefused
<1>6. CASE Return(w)
  BY <1>3, <1>4, <1>5, <1>6, ReturnRowsStep DEF Final
<1>7. CASE /\ req[w].pc = "cast_delete"
           /\ req' = [req EXCEPT ![w] =
                [@ EXCEPT !.pc = AfterDelete(req[w]), !.msgs = {}]]
  <2> DEFINE r == [req[w] EXCEPT !.pc = AfterDelete(req[w]), !.msgs = {}]
  <2>1. req' = [req EXCEPT ![w] = r]
    BY <1>7
  <2>2. AfterDelete(req[w]) \in Parts \cup Rest
    BY AfterPlaces
  <2>3. r \in Request /\ RequestOK(db, r)
    <3>1. req[w].pc \in SupPlaces
      BY <1>7 DEF SupPlaces
    <3> QED BY <2>2, <3>1, RequestFacts, MoveSentOK
  <2> HIDE DEF r
  <2>4. RequestOK(db', r)
    BY <1>4, <2>3, RequestFacts, RequestOKPreserved DEF Good
  <2> QED BY <1>3, <1>4, <1>5, <2>1, <2>3, <2>4, RequestFacts, WorkerStep DEF Final
<1> QED BY <1>6, <1>7 DEF CastRefused

LEMMA CrashKeeps ==
  ASSUME IInv, NEW w \in Worker, Crash(w)
  PROVE  IInv' /\ Final
<1>1. budget' \in Budget
  BY RequestFacts, FaultSpent DEF Crash
<1> QED BY <1>1, RequestFacts, ReturnStep DEF Crash

------------------------------------------------------------------------------
(***************************************************************************)
(* The theorems.                                                           *)
(***************************************************************************)

\* For any nodes, workers and kinds of requests an instance starts with.
LEMMA InitOfIInv ==
  ASSUME NEW S \in SUBSET Node, NEW W \in SUBSET Worker, NEW K \in SUBSET Requests,
         NEW requests \in 0 .. MaxRequests, NEW faults \in 0 .. MaxFaults,
         InitOf(S, W, K, requests, faults)
  PROVE  IInv
<1>1. PICK c \in {"new", "operational"},
           rows \in [S -> {NewNode, FailedNode, DeployedNode}] :
        db = [cluster |-> c, release |-> "update" \in K,
              node |-> [n \in Node |-> IF n \in S THEN rows[n] ELSE NoNodeRow],
              task |-> [t \in TaskId |-> NoRow], seq |-> 0]
  BY DEF InitOf
<1>2. {NewNode, FailedNode, DeployedNode} \subseteq NodeRow
  <2>1. NewNode \in NodeRow
    BY DEF NewNode, NodeRow, NodeStatuses, NodeErrors
  <2>2. \A r \in NodeRow : /\ [r EXCEPT !.status = "error", !.error_type = "provision"] \in NodeRow
                            /\ [r EXCEPT !.status = "ready", !.pending_addition = FALSE,
                                          !.pending_roles = FALSE] \in NodeRow
    BY DEF NodeRow, NodeStatuses, NodeErrors
  <2> QED BY <2>1, <2>2 DEF FailedNode, DeployedNode
<1>3. [n \in Node |-> IF n \in S THEN rows[n] ELSE NoNodeRow] \in [Node -> NodeRow]
  <2>1. NoNodeRow \in NodeRow
    BY DEF NoNodeRow, NodeRow, NodeErrors
  <2> QED BY <1>2, <2>1
<1>4. [t \in TaskId |-> NoRow] \in [TaskId -> TaskRow]
  BY DEF NoRow, TaskRow
<1>5. db \in Database
  <2>1. 0 \in 0 .. MaxTask
    BY MaxTaskAssumption
  <2>2. c \in ClusterStatuses
    BY DEF ClusterStatuses
  <2> QED BY <1>1, <1>3, <1>4, <2>1, <2>2 DEF Database
<1>6. \A t \in TaskId : db.task[t] = NoRow
  BY <1>1
<1>7. Good(db)
  <2>1. Shape(db) /\ Gone(db)
    BY <1>6 DEF Shape, Gone, NoRow
  <2>2. \A p \in TaskId : Subtasks(db, p) = {}
    BY <1>6 DEF Subtasks, Exists, NoRow
  <2>3. Agrees(db)
    BY <2>2 DEF Agrees, AgreesAt
  <2> QED BY <1>5, <2>1, <2>3 DEF Good
<1>8. /\ req = [w \in Worker |-> IF w \in W THEN Idle ELSE Off]
      /\ orch = {} /\ queue = <<>>
      /\ budget = [requests |-> requests, faults |-> faults, kinds |-> K]
  BY DEF InitOf
<1>9. budget \in Budget
  BY <1>8, BoundsAssumption DEF Budget
<1>10. queue \in Seq(Reply) /\ Len(queue) = 0
  BY <1>8
<1>11. TypeOK
  <2>1. Idle \in Request /\ Off \in Request
    BY IdleOK, OffOK
  <2>2. req \in [Worker -> Request]
    BY <1>8, <2>1
  <2> QED BY <1>5, <1>8, <1>9, <1>10, <2>2 DEF TypeOK, Budget
<1>12. Refs
  <2>1. \A w \in Worker : RequestOK(db, req[w])
    BY <1>8, IdleOK, OffOK
  <2> QED BY <1>8, <1>10, <2>1 DEF Refs
<1> QED BY <1>7, <1>11, <1>12 DEF IInv

LEMMA InitiallyIInv ==
  ASSUME Init
  PROVE  IInv
<1>1. MaxRequests \in 0 .. MaxRequests /\ MaxFaults \in 0 .. MaxFaults
  BY BoundsAssumption
<1> QED BY <1>1, InitOfIInv DEF Init

LEMMA ElsewhereKeeps ==
  ASSUME IInv, Elsewhere
  PROVE  IInv' /\ Final
<1>1. PICK S \in {ObsoleteTasks, Deletions} : db' = DeleteTasks(db, S)
  BY DEF Elsewhere
<1>2. budget' \in Budget /\ UNCHANGED <<req, orch, queue>>
  BY BoundsAssumption DEF Elsewhere, IInv, TypeOK, Budget
<1>3. Good(db) /\ db \in Database
  BY DEF IInv, Good
<1>4. S \in SUBSET Named(db, TopNames)
  BY <1>1, ObsoleteTop DEF Deletions, Named, TopNames
<1>5. Good(db') /\ Follows(db, db')
  BY <1>1, <1>3, <1>4, DeleteTopTasks
<1>6. Final
  <2> SUFFICES ASSUME db.cluster = "deleted" PROVE db' = db
    BY DEF Final
  <2>1. S = {}
    BY <1>3, <1>4 DEF Good, Gone, Named, TopNames
  <2>2. db = [db EXCEPT !.task = [t \in TaskId |-> db.task[t]]]
    BY <1>3 DEF Database
  <2>3. DeleteTasks(db, S) = SetTasks(db, [t \in TaskId |-> db.task[t]])
    BY <2>1 DEF DeleteTasks
  <2> QED BY <1>1, <2>2, <2>3 DEF SetTasks
<1> QED BY <1>2, <1>5, <1>6, RowsStep

LEMMA NewRequestKeeps ==
  ASSUME IInv, NEW w \in Worker, NewRequest(w)
  PROVE  IInv' /\ Final
BY ApplyLockKeeps, StopRefuseKeeps, StopCreateKeeps, ResetCheckKeeps,
   SelectToProvisionKeeps, SelectToDeployKeeps, ChooseReleaseKeeps,
   UpdateRefuseKeeps, UpdateCreateKeeps,
   ClusterDeletionLockKeeps, AssignKeeps, UnassignKeeps DEF NewRequest

LEMMA ContinueKeeps ==
  ASSUME IInv, NEW w \in Worker, Continue(w)
  PROVE  IInv' /\ Final
BY ApplyRefuseKeeps, ApplyCreateKeeps, ApplyCheckKeeps, ApplyCheckBeforeKeeps,
   ApplyDeleteKeeps,
   ApplyCastDeleteKeeps, ApplyProvisionKeeps, ApplyProvisionMessageKeeps,
   ApplyAbortedKeeps, ApplyKeepMessageKeeps,
   ApplyDeployKeeps, ApplyDeployMessageKeeps, ApplyStartKeeps, ApplyMarkClusterKeeps,
   ApplyCastKeeps,
   StopGoneKeeps, StopCastKeeps, SelectMessageKeeps, SelectMarkKeeps,
   ResetDeleteKeeps, ResetCreateKeeps,
   ResetCastKeeps, ClusterDeletionRefuseKeeps, ClusterDeletionCreateKeeps,
   ClusterDeletionEraseKeeps, ClusterDeletionCastKeeps,
   RequestFailsKeeps DEF Continue

LEMMA NextKeeps ==
  ASSUME IInv, [Next]_vars
  PROVE  IInv' /\ Final
<1>1. CASE \E w \in Worker : NewRequest(w) \/ Continue(w) \/ CastRefused(w) \/ Crash(w)
  BY <1>1, NewRequestKeeps, ContinueKeeps, CastRefusedKeeps, CrashKeeps
<1>2. CASE \E m \in orch : Progress(m) \/ Finish(m)
  BY <1>2, ProgressKeeps, FinishKeeps
<1>3. CASE Consume \/ ConsumeUnacknowledged \/ Elsewhere
  BY <1>3, ConsumeKeeps, ConsumeUnacknowledgedKeeps, ElsewhereKeeps
<1>4. CASE UNCHANGED vars
  <2>1. budget' \in Budget /\ UNCHANGED <<db, req, orch, queue>>
    BY <1>4 DEF vars, IInv, TypeOK, Budget
  <2> QED BY <2>1, QuietStep
<1> QED BY <1>1, <1>2, <1>3, <1>4 DEF Next

\* The inductive invariant holds in every reachable state: whatever requests,
\* replies, crashes and redeliveries come, the task rows stay consistent and
\* every task a request, a message or a reply is about is of the kind it is for.
THEOREM AlwaysIInv == Spec => []IInv
<1>1. Init => IInv
  BY InitiallyIInv
<1>2. IInv /\ [Next]_vars => IInv'
  BY NextKeeps
<1> QED BY <1>1, <1>2, PTL DEF Spec

\* Every variable keeps its type.
THEOREM TypeCorrect == Spec => []TypeOK
<1>1. IInv => TypeOK
  BY DEF IInv
<1> QED BY <1>1, AlwaysIInv, PTL

\* A supertask agrees with its subtasks (Task._update_parent_instance): in no
\* interleaving is a deployment shown ready while a part of it failed, or shown
\* running or failed while all its parts are done.
THEOREM SupertaskAlwaysAgrees == Spec => []SupertaskAgrees
<1>1. IInv => SupertaskAgrees
  BY DEF IInv, Good, Agrees, AgreesAt, SupertaskAgrees
<1> QED BY <1>1, AlwaysIInv, PTL

\* No deletion of tasks (new deployment, stop, reset, cluster removal) leaves a
\* subtask without its supertask.
THEOREM NeverOrphanSubtask == Spec => []NoOrphanSubtask
<1>1. IInv => NoOrphanSubtask
  <2> SUFFICES ASSUME IInv, NEW t \in TaskId, db.task[t].parent # NoTask
               PROVE  Exists(db, db.task[t].parent)
    BY DEF NoOrphanSubtask
  <2>1. db.task[t].parent \in TaskId
    BY RowTypes DEF IInv, Good, TaskRow
  <2>2. db.task[db.task[t].parent].name = "deploy"
    BY DEF IInv, Good, Shape
  <2> QED BY <2>1, <2>2 DEF Exists
<1> QED BY <1>1, AlwaysIInv, PTL

\* A cluster that is gone has no task (remove_cluster_resp and the cascades).
THEOREM DeletedAlwaysLeavesNothing == Spec => []DeletedLeavesNothing
<1>1. IInv => DeletedLeavesNothing
  BY DEF IInv, Good, Gone, DeletedLeavesNothing, Named, SubtaskNames, Checks,
         TopNames
<1> QED BY <1>1, AlwaysIInv, PTL

\* Nothing writes to the rows of a cluster that is gone: requests between two
\* of their transactions find their task gone, replies are dropped.
THEOREM DeletedStaysFinal == Spec => DeletedIsFinal
<1>1. IInv /\ [Next]_vars => [db.cluster = "deleted" => db' = db]_db
  BY NextKeeps DEF Final
<1> QED BY <1>1, AlwaysIInv, PTL DEF Spec, DeletedIsFinal

=============================================================================
