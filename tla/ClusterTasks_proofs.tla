------------------------- MODULE ClusterTasks_proofs --------------------------
(***************************************************************************)
(* That the task rows of ClusterLifecycle are a TaskTable, for any number  *)
(* of nodes, workers, requests, replies and faults.                        *)
(*                                                                         *)
(* What has to be excluded is that a late progress report sets a task      *)
(* running that has ended. It does so to a subtask whose supertask has     *)
(* failed, and the same transaction fails the subtask again provided that  *)
(* one of its siblings is still in error. The invariants below therefore   *)
(* say where the message or the reports of a task may be (in one place at  *)
(* a time, a provisioning's before the deployment's that waits for it),    *)
(* and that a family of which something may still be reported and a part   *)
(* of which has failed has a part that failed for good.                    *)
(*                                                                         *)
(* From the same invariants, what one worker keeps (InTurn), and who       *)
(* applies the release that an environment waits for (ReleaseAppliedWhole).*)
(***************************************************************************)
EXTENDS MCClusterLifecycle, ClusterLifecycle_proofs

(***************************************************************************)
(* What a transaction does to the task rows.                               *)
(***************************************************************************)

\* The status of t ends, or its row goes, or nothing. A row keeps its name.
Turns(d, e, t) ==
  /\ e.task[t].name \in {d.task[t].name, "none"}
  /\ \/ e.task[t].status = d.task[t].status
     \/ e.task[t].status = "none"
     \/ d.task[t].status # "none" /\ e.task[t].status \in {"ready", "error"}

\* The one action that adds a deployment.
Founding == \E w \in Worker : ApplyCreate(w)

\* No row, or one row, is added.
Settles(d, e) == e.seq = d.seq /\ \A t \in TaskId : Turns(d, e, t)

Adds(d, e) ==
  /\ e.seq = d.seq + 1
  /\ \A t \in TaskId : IF t = e.seq THEN e.task[t].status \in {"running", "error"}
                                    ELSE Turns(d, e, t)
  /\ e.task[e.seq].name = "deploy" => Founding

\* Rows there were are untouched or deleted, subtasks with their supertask
\* (checks that have passed also without it).
Kept(d, e) ==
  /\ d.seq <= e.seq
  /\ \A t \in TaskId : t <= d.seq =>
       \/ e.task[t] = d.task[t]
       \/ /\ e.task[t].name = "none"
          /\ \/ d.task[t].name = "check_networks"
             \/ d.task[t].parent = NoTask
             \/ e.task[d.task[t].parent].name = "none"

\* The types of what the lemmas below speak of.
LEMMA GoodTypes ==
  ASSUME NEW d, Good(d)
  PROVE  /\ d \in Database /\ Shape(d) /\ d.seq \in Int /\ d.seq >= 0
         /\ \A t \in TaskId : /\ d.task[t] \in TaskRow /\ t \in Int /\ t >= 1
                              /\ t > d.seq => d.task[t].name = "none"
                              /\ d.task[t].parent \in TaskId \cup {NoTask}
                              /\ d.task[t].parent # NoTask =>
                                   /\ d.task[t].parent \in TaskId
                                   /\ d.task[t].parent <= d.seq
                                   /\ d.task[d.task[t].parent].name = "deploy"
<1>1. d \in Database /\ Shape(d) /\ d.seq \in 0 .. MaxTask
  BY DEF Good, Database
<1>2. \A t \in TaskId : d.task[t] \in TaskRow /\ t \in Int /\ t >= 1
  BY <1>1, RowTypes DEF TaskId
<1>3. \A t \in TaskId : d.task[t].parent \in TaskId \cup {NoTask}
  BY <1>2 DEF TaskRow
<1>4. d.seq \in Int /\ d.seq >= 0
  BY <1>1, MaxTaskAssumption
<1> QED BY <1>1, <1>2, <1>3, <1>4 DEF Shape

LEMMA KeptReflexive ==
  ASSUME NEW d, Good(d)
  PROVE  Kept(d, d)
BY GoodTypes DEF Kept

LEMMA KeptTransitive ==
  ASSUME NEW d, Good(d), NEW e, Good(e), NEW f, Good(f), Kept(d, e), Kept(e, f)
  PROVE  Kept(d, f)
<1>1. d.seq <= f.seq
  BY GoodTypes DEF Kept
<1>2. \A t \in TaskId : t <= d.seq => t <= e.seq
  BY GoodTypes DEF Kept
<1>3. \A t \in TaskId : t <= e.seq /\ e.task[t].name = "none" => f.task[t].name = "none"
  BY DEF Kept
<1> SUFFICES ASSUME NEW t \in TaskId, t <= d.seq
             PROVE  \/ f.task[t] = d.task[t]
                    \/ /\ f.task[t].name = "none"
                       /\ \/ d.task[t].name = "check_networks"
                          \/ d.task[t].parent = NoTask
                          \/ f.task[d.task[t].parent].name = "none"
  BY <1>1 DEF Kept
<1>4. CASE e.task[t] = d.task[t]
  BY <1>2, <1>4 DEF Kept
<1>5. CASE /\ e.task[t].name = "none"
           /\ \/ d.task[t].name = "check_networks"
              \/ d.task[t].parent = NoTask
              \/ e.task[d.task[t].parent].name = "none"
  <2>1. f.task[t].name = "none"
    BY <1>2, <1>3, <1>5
  <2>2. d.task[t].parent # NoTask =>
          d.task[t].parent \in TaskId /\ d.task[t].parent <= d.seq
    BY GoodTypes
  <2> QED BY <1>2, <1>3, <1>5, <2>1, <2>2
<1> QED BY <1>4, <1>5 DEF Kept

LEMMA KeptSame ==
  ASSUME NEW d, Good(d), NEW e, SameTasks(d, e)
  PROVE  Kept(d, e)
BY GoodTypes DEF Kept, SameTasks

LEMMA KeptCreate ==
  ASSUME NEW d, Good(d), NEW e, Good(e), e.seq = d.seq + 1,
         \A t \in TaskId : t # e.seq => e.task[t] = d.task[t]
  PROVE  Kept(d, e)
BY GoodTypes DEF Kept

LEMMA DeleteTasksRows ==
  ASSUME NEW d \in Database, NEW S \in SUBSET TaskId
  PROVE  \A t \in TaskId : DeleteTasks(d, S).task[t] =
                             IF t \in S \/ d.task[t].parent \in S THEN NoRow
                                                                  ELSE d.task[t]
<1> DEFINE rows == [t \in TaskId |->
                      IF t \in S \/ d.task[t].parent \in S THEN NoRow ELSE d.task[t]]
<1>1. rows \in [TaskId -> TaskRow]
  <2>1. NoRow \in TaskRow
    BY DEF NoRow, TaskRow
  <2> QED BY <2>1, RowTypes
<1>2. DeleteTasks(d, S) = SetTasks(d, rows)
  BY DEF DeleteTasks
<1>3. SetTasks(d, rows).task = rows
  BY <1>1, SetTasksType
<1> QED BY <1>2, <1>3

LEMMA KeptDelete ==
  ASSUME NEW d, Good(d), NEW S \in SUBSET TaskId,
         \A t \in S : d.task[t].parent = NoTask \/ d.task[t].parent \in S
  PROVE  Kept(d, DeleteTasks(d, S))
<1> DEFINE e == DeleteTasks(d, S)
<1>1. /\ e.seq = d.seq
      /\ \A t \in TaskId : e.task[t] = IF t \in S \/ d.task[t].parent \in S
                                         THEN NoRow ELSE d.task[t]
  BY GoodTypes, DeleteTasksRows, DeleteTasksGood
<1> HIDE DEF e
<1>2. \A t \in S : e.task[t].name = "none"
  BY <1>1 DEF NoRow
<1> SUFFICES ASSUME NEW t \in TaskId, e.task[t] # d.task[t]
             PROVE  /\ e.task[t].name = "none"
                    /\ \/ d.task[t].parent = NoTask
                       \/ e.task[d.task[t].parent].name = "none"
  BY <1>1, GoodTypes DEF Kept, e
<1>3. t \in S \/ d.task[t].parent \in S
  BY <1>1
<1>4. e.task[t].name = "none"
  BY <1>1, <1>3 DEF NoRow
<1> QED BY <1>2, <1>3, <1>4

LEMMA KeptDropChecks ==
  ASSUME NEW d, Good(d), NEW p \in TaskId, DropChecks(d, p).seq = d.seq
  PROVE  Kept(d, DropChecks(d, p))
<1> DEFINE S == {t \in Subtasks(d, p) : d.task[t].name = "check_networks"}
           e == DropChecks(d, p)
<1>1. S \in SUBSET TaskId /\ \A t \in S : d.task[t].name = "check_networks"
  BY DEF Subtasks
<1>2. e = DeleteTasks(d, S)
  BY DEF DropChecks
<1> HIDE DEF S, e
<1>3. \A t \in TaskId : e.task[t] = IF t \in S \/ d.task[t].parent \in S
                                      THEN NoRow ELSE d.task[t]
  BY <1>1, <1>2, GoodTypes, DeleteTasksRows
<1>4. \A t \in TaskId : d.task[t].parent \notin S
  <2> SUFFICES ASSUME NEW t \in TaskId, d.task[t].parent \in S PROVE FALSE
    OBVIOUS
  <2>1. d.task[t].parent # NoTask
    BY <1>1, GoodTypes DEF TaskId, NoTask
  <2>2. d.task[d.task[t].parent].name = "deploy"
    BY <2>1, GoodTypes
  <2> QED BY <1>1, <2>2
<1>5. \A t \in S : e.task[t].name = "none"
  BY <1>1, <1>3 DEF NoRow
<1> QED BY <1>1, <1>3, <1>4, <1>5, GoodTypes DEF Kept, e

LEMMA KeptTurns ==
  ASSUME NEW d, Good(d), NEW e, Good(e), Kept(d, e), NEW t \in TaskId, t <= d.seq
  PROVE  Turns(d, e, t)
BY DEF Kept, Turns, Good, Shape

(***************************************************************************)
(* Task.update of a task that is not a supertask. Its supertask fails when *)
(* the task, or a sibling of it, is in error.                              *)
(***************************************************************************)
Siblings(d, t) == Subtasks(d, d.task[t].parent) \ {t}

Fails(d, t, st) ==
  /\ d.task[t].parent # NoTask
  /\ st = "error" \/ \E u \in Siblings(d, t) : d.task[u].status = "error"

LEMMA UpdateTaskRows ==
  ASSUME NEW d, Good(d), NEW t \in TaskId, NEW st \in TaskStatuses,
         Exists(d, t), d.task[t].name # "deploy"
  PROVE  LET e == UpdateTask(d, t, st)
             p == d.task[t].parent
         IN /\ p = NoTask =>
                 \A u \in TaskId : e.task[u].status = IF u = t THEN st
                                                              ELSE d.task[u].status
            /\ p # NoTask =>
                 /\ \A u \in TaskId \ (Subtasks(d, p) \cup {p}) :
                      e.task[u].status = d.task[u].status
                 /\ e.task[p].status \in {d.task[p].status, "ready", "error"}
            /\ Fails(d, t, st) =>
                 /\ e.task[t].status \in {st, "error"} \ {"running"}
                 /\ \A u \in Siblings(d, t) :
                      e.task[u].status \in {d.task[u].status, "error"} \ {"running"}
            /\ ~ Fails(d, t, st) =>
                 /\ e.task[t].status = st
                 /\ \A u \in Siblings(d, t) : e.task[u].status = d.task[u].status
<1> DEFINE d1 == UpdateOne(d, t, st)
           p  == d.task[t].parent
           e  == UpdateTask(d, t, st)
<1>0. d \in Database /\ Shape(d)
  BY DEF Good
<1>1. /\ SameShape(d, d1)
      /\ \A u \in TaskId : d1.task[u].status =
            IF u = t THEN st ELSE d.task[u].status
  BY <1>0, UpdateOneRows
<1>2. d1 \in Database
  BY <1>1 DEF SameShape
<1>3. e = IF p = NoTask THEN d1 ELSE UpdateParent(d1, p)
  BY DEF UpdateTask
<1> HIDE DEF d1, e
<1>4. CASE p = NoTask
  <2>1. ~ Fails(d, t, st) /\ e = d1
    BY <1>3, <1>4 DEF Fails
  <2>2. t \notin Siblings(d, t) /\ Siblings(d, t) \subseteq TaskId
    BY DEF Siblings, Subtasks
  <2> QED BY <1>1, <1>4, <2>1, <2>2 DEF e
<1>5. CASE p # NoTask
  <2> DEFINE kids == Subtasks(d, p)
  <2>1. p \in TaskId /\ d.task[p].name = "deploy"
    BY <1>5, GoodTypes
  <2>2. Subtasks(d1, p) = kids
    BY <1>1, <2>1, SameShapeSubtasks
  <2>3. t \in kids /\ kids \subseteq TaskId
    BY DEF Subtasks, Exists
  <2>4. p \notin kids
    <3>1. \A u \in kids : d.task[u].parent # NoTask
      BY <1>5 DEF Subtasks
    <3>2. \A u \in kids : d.task[u].name \in SubtaskNames
      BY <1>0, <2>3, <3>1 DEF Shape
    <3> QED BY <2>1, <3>2 DEF SubtaskNames, Checks
  <2>5. Siblings(d, t) = kids \ {t}
    BY DEF Siblings
  <2>6. e = UpdateParent(d1, p)
    BY <1>3, <1>5
  <2>7. p # t
    BY <2>1
  <2> HIDE DEF kids, p
  <2>8. /\ SameShape(d1, e)
        /\ \A u \in TaskId \ (kids \cup {p}) : e.task[u].status = d1.task[u].status
        /\ \A u \in kids : e.task[u].status \in {d1.task[u].status, "error"}
        /\ (\E u \in kids : d1.task[u].status = "error") =>
             /\ e.task[p].status = "error"
             /\ \A u \in kids : e.task[u].status # "running"
        /\ (\A u \in kids : d1.task[u].status # "error") =>
             /\ \A u \in kids : e.task[u].status = d1.task[u].status
             /\ e.task[p].status \in {d1.task[p].status, "ready"}
    BY <1>2, <2>1, <2>2, <2>4, <2>6, UpdateParentRows
  <2>9. Fails(d, t, st) <=> \E u \in kids : d1.task[u].status = "error"
    BY <1>1, <1>5, <2>3, <2>5 DEF Fails, p
  <2>10. \A u \in TaskId \ (kids \cup {p}) : e.task[u].status = d.task[u].status
    BY <1>1, <2>3, <2>8
  <2>11. e.task[p].status \in {d.task[p].status, "ready", "error"}
    BY <1>1, <2>1, <2>7, <2>8
  <2>12. CASE Fails(d, t, st)
    <3>1. e.task[t].status \in {st, "error"} \ {"running"}
      BY <1>1, <2>3, <2>8, <2>9, <2>12
    <3>2. \A u \in kids \ {t} :
            e.task[u].status \in {d.task[u].status, "error"} \ {"running"}
      BY <1>1, <2>3, <2>8, <2>9, <2>12
    <3> QED BY <1>5, <2>5, <2>10, <2>11, <2>12, <3>1, <3>2 DEF kids, p, e
  <2>13. CASE ~ Fails(d, t, st)
    <3>1. e.task[t].status = st
      BY <1>1, <2>3, <2>8, <2>9, <2>13
    <3>2. \A u \in kids \ {t} : e.task[u].status = d.task[u].status
      BY <1>1, <2>3, <2>8, <2>9, <2>13
    <3> QED BY <1>5, <2>5, <2>10, <2>11, <2>13, <3>1, <3>2 DEF kids, p, e
  <2> QED BY <2>12, <2>13
<1> QED BY <1>4, <1>5 DEF p

\* The rows settle unless a report sets a task running that has ended and whose
\* family has not failed.
LEMMA UpdateTaskSettles ==
  ASSUME NEW d, Good(d), NEW t \in TaskId, NEW st \in TaskStatuses,
         Exists(d, t), d.task[t].name # "deploy",
         st = "running" => d.task[t].status = "running" \/ Fails(d, t, st)
  PROVE  Settles(d, UpdateTask(d, t, st))
<1> DEFINE e == UpdateTask(d, t, st)
           p == d.task[t].parent
<1>1. e.seq = d.seq /\ \A u \in TaskId : e.task[u].name = d.task[u].name
  BY UpdateTaskGood DEF SameShape
<1>2. d.task[t].status # "none"
  BY DEF Good, Shape, Exists
<1>3. /\ p = NoTask =>
           \A u \in TaskId : e.task[u].status = IF u = t THEN st ELSE d.task[u].status
      /\ p # NoTask =>
           /\ \A u \in TaskId \ (Subtasks(d, p) \cup {p}) :
                e.task[u].status = d.task[u].status
           /\ e.task[p].status \in {d.task[p].status, "ready", "error"}
      /\ Fails(d, t, st) =>
           /\ e.task[t].status \in {st, "error"} \ {"running"}
           /\ \A u \in Siblings(d, t) :
                e.task[u].status \in {d.task[u].status, "error"} \ {"running"}
      /\ ~ Fails(d, t, st) =>
           /\ e.task[t].status = st
           /\ \A u \in Siblings(d, t) : e.task[u].status = d.task[u].status
  BY UpdateTaskRows
<1>4. Siblings(d, t) = Subtasks(d, p) \ {t}
  BY DEF Siblings
<1>5. \A u \in Subtasks(d, p) : d.task[u].status # "none"
  BY DEF Subtasks, Exists, Good, Shape
<1>6. p # NoTask => p \in TaskId /\ d.task[p].status # "none"
  BY GoodTypes DEF Good, Shape
<1> HIDE DEF e, p
<1> SUFFICES ASSUME NEW u \in TaskId PROVE Turns(d, e, u)
  BY <1>1 DEF Settles, e
<1>7. CASE u = t
  <2>1. CASE Fails(d, t, st)
    BY <1>1, <1>2, <1>3, <1>7, <2>1 DEF Turns, TaskStatuses
  <2>2. CASE ~ Fails(d, t, st)
    BY <1>1, <1>2, <1>3, <1>7, <2>2 DEF Turns, TaskStatuses
  <2> QED BY <2>1, <2>2
<1>8. CASE u # t /\ p = NoTask
  BY <1>1, <1>3, <1>8 DEF Turns
<1>9. CASE u # t /\ p # NoTask /\ u = p
  BY <1>1, <1>3, <1>6, <1>9 DEF Turns
<1>10. CASE u # t /\ p # NoTask /\ u # p /\ u \notin Subtasks(d, p)
  BY <1>1, <1>3, <1>10 DEF Turns
<1>11. CASE u # t /\ p # NoTask /\ u \in Subtasks(d, p)
  BY <1>1, <1>3, <1>4, <1>5, <1>11 DEF Turns
<1> QED BY <1>7, <1>8, <1>9, <1>10, <1>11

------------------------------------------------------------------------------
(***************************************************************************)
(* Where the message and the reports of a task are: held by the request    *)
(* that makes the message, sent to the orchestrator, or queued.            *)
(***************************************************************************)
Progressing == {"provision", "deployment", "update"}

Reporting == Progressing \cup {"node_deletion"}

Making == {"provision_message", "deploy_message", "select_message"}

Checking == {"check", "check_before"}

\* Where a request may have the messages of two of its tasks.
Bundling == {"deploy_kept", "start", "mark_cluster", "cast"}

\* The tasks whose message a request has made, or is about to make.
Holds(r) == {m.task : m \in r.msgs} \cup (IF r.pc \in Making THEN {r.sub} ELSE {})

Held(rq, t) == \E w \in Worker : t \in Holds(rq[w])

Sent(o, t) == \E m \in o : m.task = t

Queued(q, t) == \E i \in 1 .. Len(q) : q[i].task = t

\* A task is worked on once: its message is in one place, a progress report in
\* the queue comes from the message still being worked on or before the result,
\* and nothing comes after the result.
Once(d, rq, o, q) ==
  \A t \in Named(d, Reporting) :
    /\ \A w, v \in Worker : t \in Holds(rq[w]) /\ t \in Holds(rq[v]) => w = v
    /\ Held(rq, t) => ~ Sent(o, t) /\ ~ Queued(q, t)
    /\ \A m, n \in o : m.task = t /\ n.task = t => m = n
    /\ \A m \in o, i \in 1 .. Len(q) :
         m.task = t /\ q[i].task = t => m.told /\ q[i].status = "running"
    /\ \A i, j \in 1 .. Len(q) :
         i < j /\ q[i].task = t /\ q[j].task = t
           => q[i].status = "running" /\ q[j].status # "running"

Together(d, t, s) == d.task[s].parent # NoTask /\ d.task[t].parent = d.task[s].parent

\* The messages of a request: one for a task, and a deployment's waits for the
\* provisioning beside it.
Bundle(d, r) ==
  /\ \A m, n \in r.msgs : r.pc \notin Bundling \/ m.task = n.task => m = n
  /\ r.pc \in Making => \A m \in r.msgs : m.task # r.sub
  /\ r.pc = "cast_delete" => \E m \in r.msgs : m.task = r.sub
  /\ \A m \in r.msgs, t \in Holds(r) :
       m.task \in Named(d, {"deployment"}) /\ t \in Named(d, {"provision"})
         /\ Together(d, t, m.task) => m.other = t

\* What request r knows of the supertask it has made: nobody else works on its
\* subtasks, and the subtasks it has still to create are not there.
Owns(d, r, o, q) ==
  r.sup # NoTask =>
    /\ \A t \in Named(d, {"provision", "deployment"}) : d.task[t].parent = r.sup =>
         /\ ~ Sent(o, t) /\ ~ Queued(q, t)
         /\ r.pc \in SupPlaces => d.task[t].name # "deployment"
    /\ \A t \in Named(d, Reporting) :
         d.task[t].parent = r.sup => r.pc \notin Checking

Owned(d, rq, o, q) ==
  \A w \in Worker :
    /\ rq[w].sup <= d.seq
    /\ \A v \in Worker : rq[v].sup = rq[w].sup /\ rq[w].sup # NoTask => v = w
    /\ Owns(d, rq[w], o, q)
    /\ \A t \in Named(d, Reporting) :
         t \in Holds(rq[w]) => d.task[t].parent \in {NoTask, rq[w].sup}
    /\ Bundle(d, rq[w])

\* By the time something is reported of a deployment all has been reported of the
\* provisioning beside it, and is earlier in the queue.
Waits(d, rq, o, q) ==
  \A t \in Named(d, {"provision"}), s \in Named(d, {"deployment"}) :
    Together(d, t, s) =>
      /\ \A j \in 1 .. Len(q) : q[j].task = s =>
           /\ ~ Held(rq, t) /\ ~ Sent(o, t)
           /\ \A i \in 1 .. Len(q) : q[i].task = t => i < j
      /\ \A m \in o : m.task = s => ~ Held(rq, t) /\ (Sent(o, t) => m.other = t)

Single(d) ==
  \A s, u \in Named(d, {"deployment"}) : Together(d, s, u) => s = u

\* Only provisionings and deployments are reported on before they end.
Reports(q) ==
  \A i \in 1 .. Len(q) :
    q[i].status = "running" => q[i].method \in {"provision", "deploy"}

Sources(d, rq, o, q) ==
  /\ Once(d, rq, o, q) /\ Owned(d, rq, o, q) /\ Waits(d, rq, o, q)
  /\ Single(d) /\ Reports(q)

\* Identifiers that have not been given out are nowhere.
LEMMA GivenOut ==
  ASSUME IInv
  PROVE  /\ \A m \in orch : m.task \in TaskId /\ m.task <= db.seq
         /\ \A i \in 1 .. Len(queue) : queue[i].task \in TaskId /\ queue[i].task <= db.seq
         /\ \A w \in Worker : /\ \A m \in req[w].msgs : m.task \in TaskId /\ m.task <= db.seq
                              /\ \A t \in Holds(req[w]) : t \in TaskId /\ t <= db.seq
<1>1. \A m \in orch : m.task \in TaskId /\ m.task <= db.seq
  BY DEF IInv, TypeOK, Refs, Ref, Is, Message
<1>2. \A i \in 1 .. Len(queue) : queue[i].task \in TaskId /\ queue[i].task <= db.seq
  <2>1. \A i \in 1 .. Len(queue) : queue[i] \in Reply
    BY DEF IInv, TypeOK
  <2> QED BY <2>1 DEF IInv, Refs, Ref, Is, Reply
<1> SUFFICES ASSUME NEW w \in Worker
             PROVE  /\ \A m \in req[w].msgs : m.task \in TaskId /\ m.task <= db.seq
                    /\ \A t \in Holds(req[w]) : t \in TaskId /\ t <= db.seq
  BY <1>1, <1>2
<1>3. \A m \in req[w].msgs : m.task \in TaskId /\ m.task <= db.seq
  BY RequestFacts DEF Request, Message, RequestOK, Ref, Is
<1>4. req[w].pc \in Making => req[w].sub \in TaskId /\ req[w].sub <= db.seq
  BY RequestFacts DEF RequestOK, Is, Making, SubPlaces
<1> QED BY <1>3, <1>4 DEF Holds

(***************************************************************************)
(* A step of one worker, whose request q becomes r while the rows d become *)
(* e. A new row is a task by itself or a subtask of the request's          *)
(* supertask; the request comes to hold new tasks only.                    *)
(***************************************************************************)
NewRows(d, e, q, r) ==
  /\ e.seq <= d.seq + 1
  /\ \A t \in Named(e, Reporting) : t > d.seq =>
       \/ e.task[t].parent = NoTask
       \/ /\ e.task[t].parent = q.sup /\ r.sup = q.sup
          /\ q.pc \in SupPlaces /\ r.pc \notin Checking
          /\ e.task[t].name = "deployment" => r.pc \notin SupPlaces

Moves(d, e, q, r) ==
  /\ \A t \in Holds(r) \cap Named(e, Reporting) : t \in Holds(q) \/ t > d.seq
  /\ \/ r.sup = q.sup
     \/ /\ r.sup = NoTask \/ (r.sup > d.seq /\ r.sup <= e.seq)
        /\ \A t \in Holds(r) \cap Named(e, Reporting) : t > d.seq
  /\ r.sup = q.sup /\ r.sup # NoTask =>
       /\ r.pc \in SupPlaces => q.pc \in SupPlaces
       /\ r.pc \in Checking => q.pc \in Checking
  /\ Bundle(e, r)

\* The rows that remain keep their name and supertask.
LEMMA KeptNamed ==
  ASSUME NEW d, Good(d), NEW e, Good(e), Kept(d, e), NEW names, "none" \notin names
  PROVE  \A t \in Named(e, names) :
           /\ t \in TaskId
           /\ t <= d.seq => /\ t \in Named(d, names) /\ e.task[t] = d.task[t]
           /\ t > d.seq \/ t <= d.seq
<1>1. \A t \in TaskId : t \in Int
  BY DEF TaskId
<1> QED BY <1>1, GoodTypes DEF Kept, Named

LEMMA ReportingNames ==
  /\ "none" \notin Reporting /\ Progressing \subseteq Reporting
  /\ "provision" \in Reporting /\ "deployment" \in Reporting
  /\ "deploy" \notin Reporting /\ "check_networks" \notin Reporting
BY DEF Reporting, Progressing

LEMMA BundleKept ==
  ASSUME NEW d, Good(d), NEW e, Good(e), Kept(d, e), NEW r, Bundle(d, r),
         \A m \in r.msgs : m.task \in TaskId /\ m.task <= d.seq,
         \A t \in Holds(r) : t \in TaskId /\ t <= d.seq
  PROVE  Bundle(e, r)
<1>1. \A t \in TaskId : t <= d.seq /\ e.task[t].name \in {"deployment", "provision"}
                          => e.task[t] = d.task[t]
  BY DEF Kept
<1>2. ASSUME NEW m \in r.msgs, NEW t \in Holds(r),
             m.task \in Named(e, {"deployment"}), t \in Named(e, {"provision"}),
             Together(e, t, m.task)
      PROVE  m.other = t
  <2>1. e.task[t] = d.task[t] /\ e.task[m.task] = d.task[m.task]
    BY <1>1, <1>2 DEF Named
  <2>2. Together(d, t, m.task)
    BY <1>2, <2>1 DEF Together
  <2>3. m.task \in Named(d, {"deployment"}) /\ t \in Named(d, {"provision"})
    BY <1>2, <2>1 DEF Named
  <2> HIDE DEF Holds
  <2> QED BY <2>2, <2>3 DEF Bundle
<1> QED BY <1>2 DEF Bundle

LEMMA WorkerSources ==
  ASSUME IInv, Sources(db, req, orch, queue),
         NEW e, Good(e), Kept(db, e),
         NEW w \in Worker, NEW r \in Request,
         NEW rq, rq = [req EXCEPT ![w] = r],
         NewRows(db, e, req[w], r), Moves(db, e, req[w], r)
  PROVE  Sources(e, rq, orch, queue)
<1>0. /\ Good(db) /\ e.seq \in Int /\ db.seq \in Int /\ db.seq <= e.seq
      /\ \A t \in TaskId : t \in Int
  BY GoodTypes DEF IInv, Kept, TaskId
<1>1. rq[w] = r /\ \A v \in Worker : v # w => rq[v] = req[v]
  BY RequestFacts
<1>2. \A t \in Named(e, Reporting) :
        /\ t \in TaskId /\ (t > db.seq \/ t <= db.seq)
        /\ t <= db.seq => t \in Named(db, Reporting) /\ e.task[t] = db.task[t]
  BY <1>0, KeptNamed, ReportingNames
<1>3. \A t \in Named(e, Reporting), v \in Worker :
        t <= db.seq /\ t \in Holds(rq[v]) => t \in Holds(req[v])
  BY <1>0, <1>1, <1>2 DEF Moves
<1>4. \A t \in Named(e, Reporting) : t > db.seq =>
        /\ ~ Sent(orch, t) /\ ~ Queued(queue, t)
        /\ \A v \in Worker : t \in Holds(rq[v]) => v = w
  <2> SUFFICES ASSUME NEW t \in Named(e, Reporting), t > db.seq
               PROVE  /\ ~ Sent(orch, t) /\ ~ Queued(queue, t)
                      /\ \A v \in Worker : t \in Holds(rq[v]) => v = w
    OBVIOUS
  <2>1. ~ (t <= db.seq)
    BY <1>0, <1>2
  <2>2. ~ Sent(orch, t) /\ ~ Queued(queue, t)
    BY <2>1, GivenOut DEF Sent, Queued
  <2>3. ASSUME NEW v \in Worker, t \in Holds(req[v]) PROVE FALSE
    BY <2>1, <2>3, GivenOut
  <2> QED BY <1>1, <2>2, <2>3
<1>5. \A x \in {"provision", "deployment"} : \A t \in Named(e, {x}) :
        t \in Named(e, Reporting) /\ e.task[t].name = x
  BY ReportingNames DEF Named
<1>6. Once(e, rq, orch, queue)
  <2> SUFFICES ASSUME NEW t \in Named(e, Reporting)
               PROVE  /\ \A u, v \in Worker : t \in Holds(rq[u]) /\ t \in Holds(rq[v]) => u = v
                      /\ Held(rq, t) => ~ Sent(orch, t) /\ ~ Queued(queue, t)
                      /\ \A m, n \in orch : m.task = t /\ n.task = t => m = n
                      /\ \A m \in orch, i \in 1 .. Len(queue) :
                           m.task = t /\ queue[i].task = t
                             => m.told /\ queue[i].status = "running"
                      /\ \A i, j \in 1 .. Len(queue) :
                           i < j /\ queue[i].task = t /\ queue[j].task = t
                             => queue[i].status = "running" /\ queue[j].status # "running"
    BY DEF Once
  <2>1. CASE t <= db.seq
    <3>1. t \in Named(db, Reporting)
      BY <1>2, <2>1
    <3>2. Held(rq, t) => Held(req, t)
      BY <1>3, <2>1 DEF Held
    <3> QED BY <1>3, <2>1, <3>1, <3>2 DEF Sources, Once
  <2>2. CASE t > db.seq
    <3>1. ~ Sent(orch, t) /\ ~ Queued(queue, t)
      BY <1>4, <2>2
    <3> QED BY <1>4, <2>2, <3>1 DEF Sent, Queued
  <2> QED BY <1>2, <2>1, <2>2
<1>7. Owned(e, rq, orch, queue)
  <2> SUFFICES ASSUME NEW v \in Worker
               PROVE  /\ rq[v].sup <= e.seq
                      /\ \A u \in Worker : rq[u].sup = rq[v].sup /\ rq[v].sup # NoTask => u = v
                      /\ Owns(e, rq[v], orch, queue)
                      /\ \A t \in Named(e, Reporting) :
                           t \in Holds(rq[v]) => e.task[t].parent \in {NoTask, rq[v].sup}
                      /\ Bundle(e, rq[v])
    BY DEF Owned
  <2>0. \A u \in Worker : req[u].sup \in Int /\ rq[u].sup \in Int
    <3>1. \A u \in Worker : rq[u] \in Request /\ req[u] \in Request
      BY <1>1, RequestFacts
    <3> QED BY <3>1 DEF Request, TaskId, NoTask
  <2>1. \A u \in Worker : req[u].sup <= db.seq
    BY DEF Sources, Owned
  <2>2. r.sup = req[w].sup \/ r.sup = NoTask \/ (r.sup > db.seq /\ r.sup <= e.seq)
    BY DEF Moves
  <2>3. rq[v].sup <= e.seq
    <3>1. CASE v = w
      BY <1>0, <1>1, <2>0, <2>1, <2>2, <3>1 DEF NoTask, IInv, Good, Database
    <3>2. CASE v # w
      BY <1>0, <1>1, <2>0, <2>1, <3>2
    <3> QED BY <3>1, <3>2
  <2>4. \A u \in Worker : rq[u].sup = rq[v].sup /\ rq[v].sup # NoTask => u = v
    <3> SUFFICES ASSUME NEW u \in Worker, rq[u].sup = rq[v].sup, rq[v].sup # NoTask,
                        u # v
                 PROVE  FALSE
      OBVIOUS
    <3>1. ~ (req[u].sup = req[v].sup /\ req[v].sup # NoTask)
      BY DEF Sources, Owned
    <3>2. CASE u # w /\ v # w
      BY <1>1, <3>1, <3>2
    <3>3. CASE u = w
      BY <1>0, <1>1, <2>0, <2>1, <2>2, <3>1, <3>3
    <3>4. CASE v = w
      BY <1>0, <1>1, <2>0, <2>1, <2>2, <3>1, <3>4
    <3> QED BY <3>2, <3>3, <3>4
  <2>5. \A t \in Named(e, Reporting) :
          t <= db.seq /\ e.task[t].parent # NoTask => e.task[t].parent <= db.seq
    BY <1>0, <1>2, GoodTypes
  <2>6. ASSUME rq[v].sup # NoTask, NEW t \in Named(e, Reporting),
               e.task[t].parent = rq[v].sup
        PROVE  \/ /\ t <= db.seq /\ t \in Named(db, Reporting)
                  /\ e.task[t] = db.task[t] /\ req[v].sup = rq[v].sup
               \/ /\ t > db.seq /\ v = w /\ r.sup = req[w].sup
                  /\ r.pc \notin Checking
                  /\ e.task[t].name = "deployment" => r.pc \notin SupPlaces
    <3>1. CASE t <= db.seq
      <4>1. rq[v].sup <= db.seq
        BY <2>5, <2>6, <3>1
      <4>2. CASE v = w
        BY <1>0, <1>1, <1>2, <2>0, <2>2, <2>6, <3>1, <4>1, <4>2
      <4>3. CASE v # w
        BY <1>1, <1>2, <3>1, <4>3
      <4> QED BY <4>2, <4>3
    <3>2. CASE t > db.seq
      <4>1. /\ e.task[t].parent = req[w].sup /\ r.sup = req[w].sup
            /\ r.pc \notin Checking
            /\ e.task[t].name = "deployment" => r.pc \notin SupPlaces
        BY <2>6, <3>2 DEF NewRows
      <4>2. v = w
        BY <1>1, <2>4, <2>6, <4>1
      <4> QED BY <3>2, <4>1, <4>2
    <3> QED BY <1>2, <3>1, <3>2
  <2>7. rq[v].sup # NoTask /\ req[v].sup = rq[v].sup =>
          /\ rq[v].pc \in SupPlaces => req[v].pc \in SupPlaces
          /\ rq[v].pc \in Checking => req[v].pc \in Checking
    BY <1>1 DEF Moves
  <2>8. Owns(e, rq[v], orch, queue)
    <3> SUFFICES ASSUME rq[v].sup # NoTask, NEW t \in Named(e, Reporting),
                        e.task[t].parent = rq[v].sup
                 PROVE  /\ e.task[t].name \in {"provision", "deployment"} =>
                             /\ ~ Sent(orch, t) /\ ~ Queued(queue, t)
                             /\ rq[v].pc \in SupPlaces => e.task[t].name # "deployment"
                        /\ rq[v].pc \notin Checking
      BY ReportingNames DEF Owns, Named
    <3>1. CASE t <= db.seq
      <4>1. /\ t \in Named(db, Reporting) /\ e.task[t] = db.task[t]
            /\ req[v].sup = rq[v].sup
        BY <1>0, <1>2, <2>6, <3>1
      <4>2. Owns(db, req[v], orch, queue)
        BY DEF Sources, Owned
      <4>3. req[v].pc \notin Checking
        BY <4>1, <4>2 DEF Owns
      <4>4. CASE e.task[t].name \in {"provision", "deployment"}
        <5>1. t \in Named(db, {"provision", "deployment"})
          BY <4>1, <4>4 DEF Named
        <5>2. /\ ~ Sent(orch, t) /\ ~ Queued(queue, t)
              /\ req[v].pc \in SupPlaces => db.task[t].name # "deployment"
          BY <4>1, <4>2, <5>1 DEF Owns
        <5> QED BY <2>7, <4>1, <4>3, <5>2
      <4> QED BY <2>7, <4>1, <4>3, <4>4
    <3>2. CASE t > db.seq
      BY <1>0, <1>1, <1>2, <1>4, <2>6, <3>2
    <3> QED BY <1>2, <3>1, <3>2
  <2>9. ASSUME NEW t \in Named(e, Reporting), t \in Holds(rq[v])
        PROVE  e.task[t].parent \in {NoTask, rq[v].sup}
    <3>1. CASE t > db.seq
      <4>1. v = w
        BY <1>4, <2>9, <3>1
      <4> QED BY <1>1, <3>1, <4>1 DEF NewRows
    <3>2. CASE t <= db.seq
      <4>1. /\ t \in Holds(req[v]) /\ t \in Named(db, Reporting)
            /\ e.task[t] = db.task[t]
        BY <1>2, <1>3, <2>9, <3>2
      <4>2. e.task[t].parent \in {NoTask, req[v].sup}
        BY <4>1 DEF Sources, Owned
      <4>3. rq[v].sup = req[v].sup
        BY <1>0, <1>1, <1>2, <2>9, <3>2 DEF Moves
      <4> QED BY <4>2, <4>3
    <3> QED BY <1>2, <3>1, <3>2
  <2>10. Bundle(e, rq[v])
    <3>1. CASE v = w
      BY <1>1, <3>1 DEF Moves
    <3>2. CASE v # w
      <4>1. Bundle(db, req[v])
        BY DEF Sources, Owned
      <4>2. Bundle(e, req[v])
        <5>1. /\ \A m \in req[v].msgs : m.task \in TaskId /\ m.task <= db.seq
              /\ \A t \in Holds(req[v]) : t \in TaskId /\ t <= db.seq
          BY GivenOut
        <5> HIDE DEF Holds
        <5> QED BY <1>0, <4>1, <5>1, BundleKept
      <4> QED BY <1>1, <3>2, <4>2
    <3> QED BY <3>1, <3>2
  <2> QED BY <2>3, <2>4, <2>8, <2>9, <2>10
\* A deployment there is has no new task beside it.
<1>8. ASSUME NEW s \in Named(e, {"deployment"}), s <= db.seq,
             NEW t \in Named(e, Reporting), t > db.seq, Together(e, t, s)
      PROVE  FALSE
  <2>1. s \in Named(db, Reporting) /\ e.task[s] = db.task[s]
    BY <1>2, <1>5, <1>8
  <2>2. /\ e.task[t].parent = req[w].sup /\ req[w].pc \in SupPlaces
        /\ req[w].sup # NoTask
    BY <1>8 DEF NewRows, Together
  <2>3. db.task[s].parent = req[w].sup /\ s \in Named(db, {"provision", "deployment"})
        /\ db.task[s].name = "deployment"
    BY <1>5, <1>8, <2>1, <2>2 DEF Together, Named
  <2>4. Owns(db, req[w], orch, queue)
    BY DEF Sources, Owned
  <2> QED BY <2>2, <2>3, <2>4 DEF Owns
<1>9. Waits(e, rq, orch, queue)
  <2> SUFFICES ASSUME NEW t \in Named(e, {"provision"}), NEW s \in Named(e, {"deployment"}),
                      Together(e, t, s)
               PROVE  /\ \A j \in 1 .. Len(queue) : queue[j].task = s =>
                           /\ ~ Held(rq, t) /\ ~ Sent(orch, t)
                           /\ \A i \in 1 .. Len(queue) : queue[i].task = t => i < j
                      /\ \A m \in orch : m.task = s =>
                           ~ Held(rq, t) /\ (Sent(orch, t) => m.other = t)
    BY DEF Waits
  <2>1. CASE s > db.seq
    <3>1. ~ Sent(orch, s) /\ ~ Queued(queue, s)
      BY <1>4, <1>5, <2>1
    <3> QED BY <3>1 DEF Sent, Queued
  <2>2. CASE s <= db.seq
    <3>1. t <= db.seq
      BY <1>2, <1>5, <1>8, <2>2
    <3>2. e.task[t] = db.task[t] /\ e.task[s] = db.task[s]
      BY <1>2, <1>5, <2>2, <3>1
    <3>3. t \in Named(db, {"provision"}) /\ s \in Named(db, {"deployment"})
      BY <3>2 DEF Named
    <3>4. Together(db, t, s)
      BY <3>2 DEF Together
    <3>5. Held(rq, t) => Held(req, t)
      BY <1>3, <1>5, <3>1 DEF Held
    <3> QED BY <3>3, <3>4, <3>5 DEF Sources, Waits
  <2> QED BY <1>2, <1>5, <2>1, <2>2
<1>10. Single(e)
  <2> SUFFICES ASSUME NEW s \in Named(e, {"deployment"}), NEW u \in Named(e, {"deployment"}),
                      Together(e, s, u)
               PROVE  s = u
    BY DEF Single
  <2>1. s \in Named(e, Reporting) /\ u \in Named(e, Reporting)
    BY <1>5
  <2>2. CASE s <= db.seq /\ u <= db.seq
    <3>1. e.task[s] = db.task[s] /\ e.task[u] = db.task[u]
      BY <1>2, <2>1, <2>2
    <3>2. s \in Named(db, {"deployment"}) /\ u \in Named(db, {"deployment"})
          /\ Together(db, s, u)
      BY <3>1 DEF Named, Together
    <3> QED BY <3>2 DEF Sources, Single
  <2>3. CASE s > db.seq /\ u <= db.seq
    BY <1>8, <2>1, <2>3
  <2>4. CASE s <= db.seq /\ u > db.seq
    <3>1. Together(e, u, s)
      BY DEF Together
    <3> QED BY <1>8, <2>1, <2>4, <3>1
  <2>5. CASE s > db.seq /\ u > db.seq
    <3>1. s <= e.seq /\ u <= e.seq /\ e.seq <= db.seq + 1
      BY <2>1, GoodTypes, ReportingNames DEF Named, Good, Shape, NewRows
    <3> QED BY <1>0, <1>2, <2>1, <2>5, <3>1
  <2> QED BY <1>2, <2>1, <2>2, <2>3, <2>4, <2>5
<1>11. Reports(queue)
  BY DEF Sources
<1> QED BY <1>6, <1>7, <1>9, <1>10, <1>11 DEF Sources

------------------------------------------------------------------------------
(***************************************************************************)
(* What may still be reported of a task, and what has failed for good.     *)
(***************************************************************************)

\* A progress report of t may yet come.
Reportable(rq, o, q, t) ==
  \/ Held(rq, t)
  \/ \E m \in o : m.task = t /\ ~ m.told
  \/ \E i \in 1 .. Len(q) : q[i].task = t /\ q[i].status = "running"

\* Nothing but a failure is to come of s.
Clear(rq, o, q, s) ==
  /\ ~ Held(rq, s) /\ ~ Sent(o, s)
  /\ \A i \in 1 .. Len(q) : q[i].task = s => q[i].status = "error"

Settled(d, rq, o, q, s) ==
  /\ s \in Named(d, {"node_deletion", "provision"})
  /\ d.task[s].status = "error" /\ Clear(rq, o, q, s)

\* The request that made supertask p still adds subtasks, or something of a
\* subtask may yet be reported.
Live(d, rq, o, q, p) ==
  \/ \E w \in Worker : rq[w].pc \in SupPlaces /\ rq[w].sup = p
  \/ \E t \in Named(d, Progressing) : d.task[t].parent = p /\ Reportable(rq, o, q, t)

Families(d, rq, o, q) ==
  \A p \in TaskId :
    Live(d, rq, o, q, p) /\ (\E u \in Subtasks(d, p) : d.task[u].status = "error")
      => \E s \in Subtasks(d, p) : Settled(d, rq, o, q, s)

\* What may be reported of runs, unless a sibling's failure has aborted it.
Running(d, rq, o, q) ==
  \A t \in Named(d, Progressing) : Reportable(rq, o, q, t) =>
    \/ d.task[t].status = "running"
    \/ d.task[t].status = "error" /\ d.task[t].parent # NoTask

\* The inductive invariant, beside IInv.
Accounts(d, rq, o, q) ==
  Sources(d, rq, o, q) /\ Families(d, rq, o, q) /\ Running(d, rq, o, q)

LEMMA ReportingTypes ==
  /\ \A d : Named(d, Progressing) \subseteq Named(d, Reporting)
  /\ \A d : Named(d, {"node_deletion", "provision"}) \subseteq Named(d, Reporting)
  /\ \A d, names : Named(d, names) \subseteq TaskId
  /\ "none" \notin Progressing /\ "deploy" \notin Progressing
BY DEF Named, Progressing, Reporting

\* Rows that are deleted, and whatever else of the database is changed.
LEMMA KeptAccounts ==
  ASSUME NEW d, Good(d), NEW e, Good(e), Kept(d, e), e.seq = d.seq,
         NEW rq, NEW o, NEW q, Accounts(d, rq, o, q)
  PROVE  Accounts(e, rq, o, q)
<1>1. \A t \in TaskId : e.task[t].name # "none" => e.task[t] = d.task[t]
  BY GoodTypes DEF Kept
<1>2. \A names : "none" \notin names =>
        \A t \in Named(e, names) : t \in Named(d, names) /\ e.task[t] = d.task[t]
  BY <1>1 DEF Named
<1>3. /\ \A t \in Named(e, Reporting) : t \in Named(d, Reporting) /\ e.task[t] = d.task[t]
      /\ \A t \in Named(e, Progressing) : t \in Named(d, Progressing) /\ e.task[t] = d.task[t]
      /\ \A t \in Named(e, {"provision", "deployment"}) :
           t \in Named(d, {"provision", "deployment"}) /\ e.task[t] = d.task[t]
      /\ \A t \in Named(e, {"provision"}) :
           t \in Named(d, {"provision"}) /\ e.task[t] = d.task[t]
      /\ \A t \in Named(e, {"deployment"}) :
           t \in Named(d, {"deployment"}) /\ e.task[t] = d.task[t]
  <2>1. /\ "none" \notin Reporting /\ "none" \notin Progressing
        /\ "none" \notin {"provision", "deployment"} /\ "none" \notin {"provision"}
        /\ "none" \notin {"deployment"}
    BY ReportingNames
  <2> QED BY <1>2, <2>1
<1>4. Once(e, rq, o, q)
  BY <1>3 DEF Accounts, Sources, Once
<1>5. Owned(e, rq, o, q)
  <2> SUFFICES ASSUME NEW w \in Worker
               PROVE  /\ rq[w].sup <= e.seq
                      /\ \A v \in Worker : rq[v].sup = rq[w].sup /\ rq[w].sup # NoTask => v = w
                      /\ Owns(e, rq[w], o, q)
                      /\ \A t \in Named(e, Reporting) :
                           t \in Holds(rq[w]) => e.task[t].parent \in {NoTask, rq[w].sup}
                      /\ Bundle(e, rq[w])
    BY DEF Owned
  <2> HIDE DEF Holds
  <2>0. Owned(d, rq, o, q)
    BY DEF Accounts, Sources
  <2>1. Owns(e, rq[w], o, q)
    <3>1. Owns(d, rq[w], o, q)
      BY <2>0 DEF Owned
    <3> QED BY <1>3, <3>1 DEF Owns
  <2>2. \A t \in Named(e, Reporting) :
          t \in Holds(rq[w]) => e.task[t].parent \in {NoTask, rq[w].sup}
    BY <1>3, <2>0 DEF Owned
  <2>3. Bundle(e, rq[w])
    <3>1. Bundle(d, rq[w])
      BY <2>0 DEF Owned
    <3>2. ASSUME NEW m \in rq[w].msgs, NEW t \in Holds(rq[w]),
                 m.task \in Named(e, {"deployment"}), t \in Named(e, {"provision"}),
                 Together(e, t, m.task)
          PROVE  m.other = t
      <4>1. Together(d, t, m.task)
        BY <1>3, <3>2 DEF Together
      <4> QED BY <1>3, <3>1, <3>2, <4>1 DEF Bundle
    <3> QED BY <3>1, <3>2 DEF Bundle
  <2> QED BY <2>0, <2>1, <2>2, <2>3 DEF Owned
<1>6. \A t \in Named(e, {"provision"}), s \in Named(e, {"deployment"}) :
        Together(e, t, s) => Together(d, t, s)
  BY <1>3 DEF Together
<1>7. Waits(e, rq, o, q)
  BY <1>3, <1>6 DEF Accounts, Sources, Waits
<1>8. Single(e)
  <2>1. \A t, s \in Named(e, {"deployment"}) : Together(e, t, s) => Together(d, t, s)
    BY <1>3 DEF Together
  <2> QED BY <1>3, <2>1 DEF Accounts, Sources, Single
<1>9. Running(e, rq, o, q)
  BY <1>3 DEF Accounts, Running
<1>10. Families(e, rq, o, q)
  <2> SUFFICES ASSUME NEW p \in TaskId, Live(e, rq, o, q, p),
                      NEW u \in Subtasks(e, p), e.task[u].status = "error"
               PROVE  \E s \in Subtasks(e, p) : Settled(e, rq, o, q, s)
    BY DEF Families
  <2>1. e.task[u] = d.task[u] /\ u \in Subtasks(d, p)
    BY <1>1 DEF Subtasks, Exists
  <2>2. Live(d, rq, o, q, p)
    BY <1>3 DEF Live
  <2>3. PICK s \in Subtasks(d, p) : Settled(d, rq, o, q, s)
    BY <2>1, <2>2 DEF Accounts, Families
  <2>4. s \in TaskId /\ d.task[s].parent = p /\ p # NoTask
    BY DEF Subtasks, TaskId, NoTask
  <2>5. d.task[s].name \in {"node_deletion", "provision"} /\ s <= d.seq
    BY <2>3, GoodTypes DEF Settled, Named
  <2>6. e.task[p].name = "deploy"
    BY GoodTypes, <2>4 DEF Subtasks
  <2>7. e.task[s] = d.task[s]
    BY <2>4, <2>5, <2>6 DEF Kept
  <2> QED BY <2>3, <2>4, <2>5, <2>7 DEF Settled, Named, Subtasks, Exists
<1> QED BY <1>4, <1>5, <1>7, <1>8, <1>9, <1>10 DEF Accounts, Sources

\* A reply fewer in the queue.
LEMMA TailAccounts ==
  ASSUME NEW d, NEW rq, NEW o, NEW q \in Seq(Reply), q # <<>>, Accounts(d, rq, o, q)
  PROVE  Accounts(d, rq, o, Tail(q))
<1> DEFINE f == Tail(q)
<1>1. /\ Len(q) \in Nat /\ Len(f) \in Nat /\ Len(f) = Len(q) - 1
      /\ \A i \in 1 .. Len(f) : i + 1 \in 1 .. Len(q) /\ f[i] = q[i + 1]
  OBVIOUS
<1> HIDE DEF f
<1>2. \A i, j \in 1 .. Len(f) : i < j <=> i + 1 < j + 1
  BY <1>1
<1>3. \A t : Queued(f, t) => Queued(q, t)
  BY <1>1 DEF Queued
<1>4. Once(d, rq, o, f)
  <2>1. Once(d, rq, o, q)
    BY DEF Accounts, Sources
  <2> QED BY <1>1, <1>2, <1>3, <2>1 DEF Once
<1>5. Owned(d, rq, o, f)
  BY <1>3 DEF Accounts, Sources, Owned, Owns
<1>6. Waits(d, rq, o, f)
  <2>1. Waits(d, rq, o, q)
    BY DEF Accounts, Sources
  <2> QED BY <1>1, <1>2, <2>1 DEF Waits
<1>7. \A t : Reportable(rq, o, f, t) => Reportable(rq, o, q, t)
  BY <1>1 DEF Reportable
<1>8. \A s : Settled(d, rq, o, q, s) => Settled(d, rq, o, f, s)
  BY <1>1 DEF Settled, Clear
<1>9. \A p : Live(d, rq, o, f, p) => Live(d, rq, o, q, p)
  BY <1>7 DEF Live
<1>10. Families(d, rq, o, f)
  BY <1>8, <1>9 DEF Accounts, Families
<1>11. Running(d, rq, o, f)
  BY <1>7 DEF Accounts, Running
<1>12. Single(d) /\ Reports(f)
  BY <1>1 DEF Accounts, Sources, Reports
<1> QED BY <1>4, <1>5, <1>6, <1>10, <1>11, <1>12 DEF Accounts, Sources, f

(***************************************************************************)
(* Task.update. A progress report is one that was to come; what ends leaves *)
(* its family without anything to report, or fails it for good.            *)
(***************************************************************************)
Reported(d, rq, o, q, t, st) ==
  IF st = "running" THEN t \in Named(d, Progressing) /\ Reportable(rq, o, q, t)
  ELSE /\ t \in Named(d, Progressing) => ~ Reportable(rq, o, q, t)
       /\ d.task[t].parent # NoTask =>
            \/ ~ Live(d, rq, o, q, d.task[t].parent)
            \/ /\ st = "error" /\ Clear(rq, o, q, t)
               /\ d.task[t].name \in {"node_deletion", "provision"}
            \/ st = "ready" /\ ~ Settled(d, rq, o, q, t)

LEMMA SameShapeSources ==
  ASSUME NEW d, NEW e, SameShape(d, e),
         NEW rq, NEW o, NEW q, Sources(d, rq, o, q)
  PROVE  Sources(e, rq, o, q)
<1>1. /\ e.seq = d.seq
      /\ \A t \in TaskId : e.task[t].name = d.task[t].name
                           /\ e.task[t].parent = d.task[t].parent
  BY DEF SameShape
<1>2. \A names : Named(e, names) = Named(d, names)
  BY <1>1 DEF Named
<1>3. \A names : \A t \in Named(d, names) :
        /\ t \in TaskId /\ e.task[t].name = d.task[t].name
        /\ e.task[t].parent = d.task[t].parent
  BY <1>1 DEF Named
<1>4. \A t, s \in TaskId : Together(e, t, s) <=> Together(d, t, s)
  BY <1>1 DEF Together
<1>5. Once(e, rq, o, q)
  BY <1>2 DEF Sources, Once
<1>6. Owned(e, rq, o, q)
  <2> SUFFICES ASSUME NEW w \in Worker
               PROVE  /\ rq[w].sup <= e.seq
                      /\ \A v \in Worker : rq[v].sup = rq[w].sup /\ rq[w].sup # NoTask => v = w
                      /\ Owns(e, rq[w], o, q)
                      /\ \A t \in Named(e, Reporting) :
                           t \in Holds(rq[w]) => e.task[t].parent \in {NoTask, rq[w].sup}
                      /\ Bundle(e, rq[w])
    BY DEF Owned
  <2> HIDE DEF Holds
  <2>0. Owned(d, rq, o, q)
    BY DEF Sources
  <2>1. Owns(e, rq[w], o, q)
    <3>1. Owns(d, rq[w], o, q)
      BY <2>0 DEF Owned
    <3> QED BY <1>2, <1>3, <3>1 DEF Owns
  <2>2. \A t \in Named(e, Reporting) :
          t \in Holds(rq[w]) => e.task[t].parent \in {NoTask, rq[w].sup}
    BY <1>2, <1>3, <2>0 DEF Owned
  <2>3. Bundle(e, rq[w])
    <3>1. Bundle(d, rq[w])
      BY <2>0 DEF Owned
    <3>2. ASSUME NEW m \in rq[w].msgs, NEW t \in Holds(rq[w]),
                 m.task \in Named(e, {"deployment"}), t \in Named(e, {"provision"}),
                 Together(e, t, m.task)
          PROVE  m.other = t
      <4>1. Together(d, t, m.task)
        BY <1>2, <1>3, <1>4, <3>2
      <4> QED BY <1>2, <3>1, <3>2, <4>1 DEF Bundle
    <3> QED BY <3>1, <3>2 DEF Bundle
  <2> QED BY <1>1, <2>0, <2>1, <2>2, <2>3 DEF Owned
<1>7. Waits(e, rq, o, q)
  <2>1. Waits(d, rq, o, q)
    BY DEF Sources
  <2> QED BY <1>2, <1>3, <1>4, <2>1 DEF Waits
<1>8. Single(e)
  <2>1. Single(d)
    BY DEF Sources
  <2> QED BY <1>2, <1>3, <1>4, <2>1 DEF Single
<1> QED BY <1>5, <1>6, <1>7, <1>8 DEF Sources

\* A task that ends, or is reported on, in a family that has failed runs into the
\* failure of a sibling.
LEMMA ReportFails ==
  ASSUME NEW d, Good(d), NEW rq, NEW o, NEW q, Accounts(d, rq, o, q),
         NEW t \in Named(d, Progressing), Reportable(rq, o, q, t),
         d.task[t].status # "running"
  PROVE  Fails(d, t, "running")
<1>1. t \in TaskId /\ d.task[t].status = "error" /\ d.task[t].parent # NoTask
  BY ReportingTypes DEF Accounts, Running
<1> DEFINE p == d.task[t].parent
<1>2. p \in TaskId
  BY <1>1, GoodTypes
<1>3. t \in Subtasks(d, p)
  BY <1>1, ReportingTypes DEF Subtasks, Exists, Named
<1>4. Live(d, rq, o, q, p)
  BY DEF Live
<1>5. PICK s \in Subtasks(d, p) : Settled(d, rq, o, q, s)
  BY <1>1, <1>2, <1>3, <1>4 DEF Accounts, Families
<1>6. s # t
  BY <1>5 DEF Settled, Clear, Reportable, Sent
<1>7. s \in Siblings(d, t) /\ d.task[s].status = "error"
  BY <1>5, <1>6 DEF Siblings, Settled
<1> QED BY <1>1, <1>7 DEF Fails

LEMMA UpdateAccounts ==
  ASSUME NEW d, Good(d), NEW rq, NEW o, NEW q, Accounts(d, rq, o, q),
         NEW t \in TaskId, NEW st \in TaskStatuses,
         Exists(d, t), d.task[t].name # "deploy", Reported(d, rq, o, q, t, st)
  PROVE  LET e == UpdateTask(d, t, st)
         IN /\ Accounts(e, rq, o, q) /\ Settles(d, e) /\ Good(e)
            /\ st = "error" => e.task[t].status = "error"
<1> DEFINE e == UpdateTask(d, t, st)
           p == d.task[t].parent
<1>1. Good(e) /\ SameShape(d, e)
  BY UpdateTaskGood
<1>2. Settles(d, e)
  <2>1. st = "running" => d.task[t].status = "running" \/ Fails(d, t, st)
    BY ReportFails DEF Reported
  <2> QED BY <2>1, UpdateTaskSettles
<1>3. /\ p = NoTask =>
           \A u \in TaskId : e.task[u].status = IF u = t THEN st ELSE d.task[u].status
      /\ p # NoTask =>
           /\ \A u \in TaskId \ (Subtasks(d, p) \cup {p}) :
                e.task[u].status = d.task[u].status
           /\ e.task[p].status \in {d.task[p].status, "ready", "error"}
      /\ Fails(d, t, st) =>
           /\ e.task[t].status \in {st, "error"} \ {"running"}
           /\ \A u \in Siblings(d, t) :
                e.task[u].status \in {d.task[u].status, "error"} \ {"running"}
      /\ ~ Fails(d, t, st) =>
           /\ e.task[t].status = st
           /\ \A u \in Siblings(d, t) : e.task[u].status = d.task[u].status
  BY UpdateTaskRows
<1>4. Siblings(d, t) = Subtasks(d, p) \ {t}
  BY DEF Siblings
<1>5. p # NoTask => p \in TaskId /\ d.task[p].name = "deploy"
  BY GoodTypes
<1>6. Fails(d, t, st) => p # NoTask
  BY DEF Fails
<1>7. t \in Subtasks(d, p)
  BY DEF Subtasks
<1>8. \A names : Named(e, names) = Named(d, names)
  BY <1>1 DEF SameShape, Named
<1>9. \A x : Subtasks(e, x) = Subtasks(d, x)
  BY <1>1 DEF SameShape, Subtasks, Exists
<1>10. \A x \in TaskId : e.task[x].name = d.task[x].name
                         /\ e.task[x].parent = d.task[x].parent
  BY <1>1 DEF SameShape
<1> HIDE DEF e, p
<1>11. Sources(e, rq, o, q)
  BY <1>1, SameShapeSources DEF Accounts
<1>12. st = "error" => e.task[t].status = "error"
  BY <1>3
\* A sibling's status.
<1>13. \A u \in TaskId : u # t /\ u # p =>
         \/ e.task[u].status = d.task[u].status
         \/ p # NoTask /\ u \in Siblings(d, t) /\ Fails(d, t, st) /\ e.task[u].status = "error"
  BY <1>3, <1>4, <1>6
<1>14. Running(e, rq, o, q)
  <2> SUFFICES ASSUME NEW x \in Named(e, Progressing), Reportable(rq, o, q, x)
               PROVE  \/ e.task[x].status = "running"
                      \/ e.task[x].status = "error" /\ e.task[x].parent # NoTask
    BY DEF Running
  <2>1. x \in Named(d, Progressing) /\ x \in TaskId
    BY <1>8, ReportingTypes
  <2>2. \/ d.task[x].status = "running"
        \/ d.task[x].status = "error" /\ d.task[x].parent # NoTask
    BY <2>1 DEF Accounts, Running
  <2>3. CASE x = t
    <3>1. st = "running"
      BY <2>1, <2>3 DEF Reported
    <3>2. CASE Fails(d, t, st)
      BY <1>3, <1>6, <1>10, <2>3, <3>1, <3>2 DEF p
    <3>3. CASE ~ Fails(d, t, st)
      BY <1>3, <2>3, <3>1, <3>3
    <3> QED BY <3>2, <3>3
  <2>4. CASE x # t
    <3>1. x # p
      BY <1>5, <2>1, ReportingTypes DEF Named, TaskId, NoTask
    <3>2. x \in Siblings(d, t) => d.task[x].parent = p
      BY <1>4 DEF Subtasks
    <3> QED BY <1>10, <1>13, <2>1, <2>2, <2>4, <3>1, <3>2
  <2> QED BY <2>3, <2>4
<1>15. Families(e, rq, o, q)
  <2> SUFFICES ASSUME NEW f \in TaskId, Live(e, rq, o, q, f),
                      NEW u \in Subtasks(e, f), e.task[u].status = "error"
               PROVE  \E s \in Subtasks(e, f) : Settled(e, rq, o, q, s)
    BY DEF Families
  <2>1. Live(d, rq, o, q, f)
    <3>1. \A x \in Named(d, Progressing) : x \in TaskId
      BY ReportingTypes
    <3> QED BY <1>8, <1>10, <3>1 DEF Live
  <2>2. u \in Subtasks(d, f) /\ u \in TaskId /\ d.task[u].parent = f /\ f # NoTask
    BY <1>9 DEF Subtasks, TaskId, NoTask
  <2>3. \A s \in TaskId : e.task[s].status = "error" /\ Settled(d, rq, o, q, s)
                            => Settled(e, rq, o, q, s)
    BY <1>8 DEF Settled
  <2>4. CASE \E v \in Subtasks(d, f) : d.task[v].status = "error"
    <3>1. PICK s \in Subtasks(d, f) : Settled(d, rq, o, q, s)
      BY <2>1, <2>4 DEF Accounts, Families
    <3>2. s \in TaskId /\ d.task[s].parent = f /\ d.task[s].status = "error"
      BY <3>1 DEF Subtasks, Settled
    <3>3. CASE s # t
      <4>1. s # p
        BY <1>5, <3>1, ReportingTypes DEF Settled, Named, TaskId, NoTask
      <4>2. e.task[s].status = "error"
        BY <1>13, <3>2, <3>3, <4>1
      <4> QED BY <1>9, <2>3, <3>1, <3>2, <4>2
    <3>4. CASE s = t
      <4>1. p = f /\ p # NoTask
        BY <2>2, <3>2, <3>4 DEF p
      <4>2. st = "error"
        <5>1. st # "running"
          BY <3>1, <3>4 DEF Reported, Reportable, Settled, Clear, Sent
        <5>2. st # "ready"
          BY <2>1, <3>1, <3>4, <4>1 DEF Reported, p
        <5> QED BY <5>1, <5>2 DEF TaskStatuses
      <4> QED BY <1>9, <1>12, <2>3, <3>1, <3>2, <3>4, <4>2
    <3> QED BY <3>3, <3>4
  <2>5. CASE ~ \E v \in Subtasks(d, f) : d.task[v].status = "error"
    <3>1. d.task[u].status # "error"
      BY <2>2, <2>5
    <3>2. p # NoTask /\ f = p
      <4>1. CASE u = t
        BY <2>2, <4>1 DEF p
      <4>2. CASE u # t
        <5>1. u # p
          <6>1. d.task[u].name \in SubtaskNames
            BY <2>2 DEF Good, Shape
          <6> QED BY <1>5, <2>2, <6>1 DEF SubtaskNames, Checks, TaskId, NoTask
        <5>2. u \in Siblings(d, t) /\ p # NoTask
          BY <1>13, <2>2, <3>1, <4>2, <5>1
        <5> QED BY <1>4, <2>2, <5>2 DEF Subtasks
      <4> QED BY <4>1, <4>2
    <3>3. st = "error"
      <4>1. Fails(d, t, st) => st = "error"
        BY <1>4, <2>5, <3>2 DEF Fails
      <4>2. ~ Fails(d, t, st) => st = "error"
        <5>1. CASE u = t
          BY <1>3, <5>1
        <5>2. CASE u # t
          <6>1. u \in Siblings(d, t)
            BY <1>4, <2>2, <3>2, <5>2
          <6> QED BY <1>3, <3>1, <6>1
        <5> QED BY <5>1, <5>2
      <4> QED BY <4>1, <4>2
    <3>4. Clear(rq, o, q, t) /\ d.task[t].name \in {"node_deletion", "provision"}
      BY <2>1, <3>2, <3>3 DEF Reported, p
    <3>5. Settled(e, rq, o, q, t)
      BY <1>8, <1>12, <3>3, <3>4 DEF Settled, Named
    <3> QED BY <1>7, <1>9, <3>2, <3>5
  <2> QED BY <2>4, <2>5
<1> QED BY <1>1, <1>2, <1>11, <1>12, <1>14, <1>15 DEF Accounts, e

(***************************************************************************)
(* A step of one worker: rows are deleted, one may be added that runs, and *)
(* a request that ends may fail a task it made.                            *)
(***************************************************************************)
NewRun(d, e) ==
  \A t \in TaskId : t > d.seq /\ t <= e.seq =>
    /\ e.task[t].status = "running"
    /\ e.task[t].name = "deploy" => Founding

LEMMA WorkerAccounts ==
  ASSUME IInv, Accounts(db, req, orch, queue),
         NEW e, Good(e), Kept(db, e), NewRun(db, e),
         NEW w \in Worker, NEW r \in Request,
         NEW rq, rq = [req EXCEPT ![w] = r],
         NewRows(db, e, req[w], r), Moves(db, e, req[w], r)
  PROVE  Accounts(e, rq, orch, queue)
<1>0. /\ Good(db) /\ e.seq \in Int /\ db.seq \in Int /\ db.seq <= e.seq
      /\ \A t \in TaskId : t \in Int
  BY GoodTypes DEF IInv, Kept, TaskId
<1>1. rq[w] = r /\ \A v \in Worker : v # w => rq[v] = req[v]
  BY RequestFacts
<1>2. \A t \in Named(e, Reporting) :
        /\ t \in TaskId /\ (t > db.seq \/ t <= db.seq)
        /\ t <= db.seq => t \in Named(db, Reporting) /\ e.task[t] = db.task[t]
  BY <1>0, KeptNamed, ReportingNames
<1>3. \A t \in Named(e, Reporting), v \in Worker :
        t <= db.seq /\ t \in Holds(rq[v]) => t \in Holds(req[v])
  BY <1>0, <1>1, <1>2 DEF Moves
<1>4. \A t \in Named(e, Reporting) : t <= db.seq /\ Held(rq, t) => Held(req, t)
  BY <1>3 DEF Held
<1>5. \A t \in Named(e, Progressing) :
        /\ t \in Named(e, Reporting) /\ t \in TaskId
        /\ t <= db.seq => /\ t \in Named(db, Progressing) /\ e.task[t] = db.task[t]
                          /\ Reportable(rq, orch, queue, t)
                               => Reportable(req, orch, queue, t)
  <2> SUFFICES ASSUME NEW t \in Named(e, Progressing)
               PROVE  /\ t \in Named(e, Reporting) /\ t \in TaskId
                      /\ t <= db.seq =>
                           /\ t \in Named(db, Progressing) /\ e.task[t] = db.task[t]
                           /\ Reportable(rq, orch, queue, t)
                                => Reportable(req, orch, queue, t)
    OBVIOUS
  <2>1. t \in Named(e, Reporting) /\ t \in TaskId
    BY ReportingTypes
  <2>2. t <= db.seq => t \in Named(db, Progressing) /\ e.task[t] = db.task[t]
    BY <1>2, <2>1 DEF Named
  <2>3. t <= db.seq /\ Reportable(rq, orch, queue, t) => Reportable(req, orch, queue, t)
    BY <1>4, <2>1 DEF Reportable
  <2> QED BY <2>1, <2>2, <2>3
<1>6. Sources(e, rq, orch, queue)
  BY WorkerSources DEF Accounts
<1>7. Running(e, rq, orch, queue)
  <2> SUFFICES ASSUME NEW t \in Named(e, Progressing), Reportable(rq, orch, queue, t)
               PROVE  \/ e.task[t].status = "running"
                      \/ e.task[t].status = "error" /\ e.task[t].parent # NoTask
    BY DEF Running
  <2>1. CASE t <= db.seq
    BY <1>5, <2>1 DEF Accounts, Running
  <2>2. CASE t > db.seq
    <3>1. t <= e.seq
      BY <1>5, ReportingNames, GoodTypes, <1>0 DEF Named
    <3> QED BY <1>5, <2>2, <3>1 DEF NewRun
  <2> QED BY <1>2, <1>5, <2>1, <2>2
<1>8. Families(e, rq, orch, queue)
  <2> SUFFICES ASSUME NEW p \in TaskId, Live(e, rq, orch, queue, p),
                      NEW u \in Subtasks(e, p), e.task[u].status = "error"
               PROVE  \E s \in Subtasks(e, p) : Settled(e, rq, orch, queue, s)
    BY DEF Families
  <2>1. u \in TaskId /\ e.task[u].name # "none" /\ e.task[u].parent = p /\ p # NoTask
    BY DEF Subtasks, Exists, TaskId, NoTask
  <2>2. u <= db.seq /\ e.task[u] = db.task[u]
    <3>1. u <= e.seq
      BY <2>1, GoodTypes, <1>0
    <3>2. u <= db.seq
      BY <1>0, <2>1, <3>1 DEF NewRun
    <3> QED BY <2>1, <3>2 DEF Kept
  <2>3. u \in Subtasks(db, p) /\ p <= db.seq
    BY <1>0, <2>1, <2>2, GoodTypes DEF Subtasks, Exists
  <2>4. Live(db, req, orch, queue, p)
    <3>1. CASE \E v \in Worker : rq[v].pc \in SupPlaces /\ rq[v].sup = p
      <4>1. PICK v \in Worker : rq[v].pc \in SupPlaces /\ rq[v].sup = p
        BY <3>1
      <4>2. CASE v # w
        BY <1>1, <4>1, <4>2 DEF Live
      <4>3. CASE v = w
        <5>1. r.pc \in SupPlaces /\ r.sup = p
          BY <1>1, <4>1, <4>3
        <5>2. r.sup = req[w].sup
          BY <1>0, <2>1, <2>3, <5>1 DEF Moves
        <5>3. req[w].pc \in SupPlaces
          BY <2>1, <5>1, <5>2 DEF Moves
        <5> QED BY <5>1, <5>2, <5>3 DEF Live
      <4> QED BY <4>2, <4>3
    <3>2. CASE \E t \in Named(e, Progressing) :
                 e.task[t].parent = p /\ Reportable(rq, orch, queue, t)
      <4>1. PICK t \in Named(e, Progressing) :
              e.task[t].parent = p /\ Reportable(rq, orch, queue, t)
        BY <3>2
      <4>2. CASE t <= db.seq
        BY <1>5, <4>1, <4>2 DEF Live
      <4>3. CASE t > db.seq
        <5>1. p = req[w].sup /\ req[w].pc \in SupPlaces
          BY <1>5, <2>1, <4>1, <4>3 DEF NewRows
        <5> QED BY <5>1 DEF Live
      <4> QED BY <1>2, <1>5, <4>2, <4>3
    <3> QED BY <3>1, <3>2 DEF Live
  <2>5. PICK s \in Subtasks(db, p) : Settled(db, req, orch, queue, s)
    BY <2>2, <2>3, <2>4 DEF Accounts, Families
  <2>6. s \in TaskId /\ db.task[s].parent = p
    BY DEF Subtasks
  <2>7. db.task[s].name \in {"node_deletion", "provision"} /\ s <= db.seq
    BY <1>0, <2>5, GoodTypes DEF Settled, Named
  <2>8. e.task[p].name = "deploy"
    BY <2>1, GoodTypes
  <2>9. e.task[s] = db.task[s]
    BY <2>1, <2>6, <2>7, <2>8 DEF Kept
  <2>10. s \in Named(e, Reporting)
    BY <2>6, <2>7, <2>9 DEF Named, Reporting, Progressing
  <2>11. Clear(rq, orch, queue, s)
    BY <1>4, <2>5, <2>7, <2>10 DEF Settled, Clear
  <2> QED BY <2>5, <2>6, <2>7, <2>9, <2>11 DEF Settled, Named, Subtasks, Exists
<1> QED BY <1>6, <1>7, <1>8 DEF Accounts

\* What one transaction does to the rows.
Evolves(d, e) == Settles(d, e) \/ Adds(d, e)

LEMMA Composed ==
  ASSUME NEW d, Good(d), NEW e, Good(e), Kept(d, e), NewRun(d, e), e.seq <= d.seq + 1,
         NEW f, Settles(e, f),
         e.seq > d.seq => f.task[e.seq].status \in {"running", "error"}
  PROVE  Evolves(d, f)
<1>0. /\ e.seq \in Int /\ d.seq \in Int /\ d.seq <= e.seq /\ f.seq = e.seq
      /\ \A t \in TaskId : t \in Int
  BY GoodTypes DEF Kept, TaskId, Settles
<1>1. \A t \in TaskId : t <= d.seq => Turns(d, f, t)
  <2> SUFFICES ASSUME NEW t \in TaskId, t <= d.seq PROVE Turns(d, f, t)
    OBVIOUS
  <2>1. Turns(e, f, t)
    BY DEF Settles
  <2>2. e.task[t] = d.task[t] \/ e.task[t].name = "none"
    BY DEF Kept
  <2>3. e.task[t].name = "none" => e.task[t].status = "none"
    BY DEF Good, Shape
  <2> QED BY <2>1, <2>2, <2>3 DEF Turns
<1>2. \A t \in TaskId : t > e.seq => Turns(d, f, t)
  <2> SUFFICES ASSUME NEW t \in TaskId, t > e.seq PROVE Turns(d, f, t)
    OBVIOUS
  <2>1. Turns(e, f, t)
    BY DEF Settles
  <2>2. e.task[t].name = "none" /\ e.task[t].status = "none"
    BY GoodTypes DEF Good, Shape
  <2> QED BY <2>1, <2>2 DEF Turns
<1>3. CASE e.seq = d.seq
  BY <1>0, <1>1, <1>2, <1>3 DEF Evolves, Settles
<1>4. CASE e.seq = d.seq + 1
  <2>1. \A t \in TaskId : t # f.seq => t <= d.seq \/ t > e.seq
    BY <1>0, <1>4
  <2>2. f.task[f.seq].status \in {"running", "error"}
    BY <1>0, <1>4
  <2>3. f.task[f.seq].name = "deploy" => Founding
    <3>1. e.seq \in TaskId /\ e.seq > d.seq /\ e.seq <= e.seq
      BY <1>0, <1>4, GoodTypes, MaxTaskAssumption DEF TaskId, Good, Database
    <3>2. f.task[e.seq].name \in {e.task[e.seq].name, "none"}
      BY <3>1 DEF Settles, Turns
    <3> HIDE DEF Founding
    <3> QED BY <1>0, <3>1, <3>2 DEF NewRun
  <2> QED BY <1>0, <1>1, <1>2, <1>4, <2>1, <2>2, <2>3 DEF Evolves, Adds
<1> QED BY <1>0, <1>3, <1>4

LEMMA SettlesSame ==
  ASSUME NEW d, NEW e, SameTasks(d, e)
  PROVE  Settles(d, e)
BY DEF Settles, Turns, SameTasks

\* What a step of one worker comes to, when it leaves the orchestrator and the
\* queue alone. Its request ends, or goes on as r.
LEMMA Turn ==
  ASSUME IInv, Accounts(db, req, orch, queue),
         NEW e, Good(e), Kept(db, e), NewRun(db, e),
         NEW w \in Worker, NEW r \in Request,
         NEW rq, rq = [req EXCEPT ![w] = r],
         NewRows(db, e, req[w], r), Moves(db, e, req[w], r),
         NEW f, SameTasks(e, f)
  PROVE  Accounts(f, rq, orch, queue) /\ Evolves(db, f)
<1>1. Good(db) /\ Good(f)
  BY SameTasksGood DEF IInv, Good
<1>2. Accounts(e, rq, orch, queue)
  BY WorkerAccounts
<1>3. Kept(e, f) /\ f.seq = e.seq
  BY KeptSame DEF SameTasks
<1>4. Accounts(f, rq, orch, queue)
  BY <1>1, <1>2, <1>3, KeptAccounts
<1>5. e.seq <= db.seq + 1
  BY DEF NewRows
<1>6. e.seq > db.seq => f.task[e.seq].status = "running"
  <2>1. e.seq > db.seq => e.seq \in TaskId
    <3>1. e.seq \in 0 .. MaxTask /\ db.seq \in 0 .. MaxTask
      BY <1>1 DEF Good, Database
    <3> QED BY <3>1, MaxTaskAssumption DEF TaskId
  <2>2. e.seq <= e.seq
    BY GoodTypes
  <2> QED BY <2>1, <2>2 DEF NewRun, SameTasks
<1> QED BY <1>1, <1>4, <1>5, <1>6, SettlesSame, Composed

\* A request that has ended leaves nothing that may still be reported of the
\* subtasks of its supertask.
LEMMA EndedNotLive ==
  ASSUME IInv, Accounts(db, req, orch, queue), NEW w \in Worker,
         NEW e, Good(e), Kept(db, e), NewRows(db, e, req[w], Idle),
         NEW rq, rq = [req EXCEPT ![w] = Idle], req[w].sup # NoTask
  PROVE  ~ Live(e, rq, orch, queue, req[w].sup)
<1> DEFINE p == req[w].sup
<1>0. /\ Good(db) /\ p \in TaskId /\ p # NoTask
      /\ \A v \in Worker : req[v].sup = p => v = w
      /\ Owns(db, req[w], orch, queue)
  <2>1. req[w] \in Request
    BY RequestFacts
  <2> QED BY <2>1 DEF Accounts, Sources, Owned, IInv, Request
<1>1. rq[w] = Idle /\ \A v \in Worker : v # w => rq[v] = req[v]
  BY RequestFacts
<1>2. Idle.sup = NoTask /\ Idle.pc \notin Making /\ Idle.msgs = {}
  BY DEF Idle, Making
<1>3. Holds(Idle) = {}
  BY <1>2 DEF Holds
<1> HIDE DEF p
<1>4. \A v \in Worker : rq[v].sup # p
  BY <1>0, <1>1, <1>2
<1>5. ASSUME NEW t \in Named(e, Progressing), e.task[t].parent = p,
             Reportable(rq, orch, queue, t)
      PROVE  FALSE
  <2>1. t \in Named(e, Reporting)
    BY <1>5, ReportingTypes
  <2>2. t \in TaskId /\ (t <= db.seq \/ t > db.seq)
    BY <1>0, <2>1, KeptNamed, ReportingNames
  <2>3. ~ (t > db.seq)
    BY <1>0, <1>2, <1>5, <2>1 DEF NewRows, p
  <2>4. t \in Named(db, Reporting) /\ e.task[t] = db.task[t]
    BY <1>0, <2>1, <2>2, <2>3, KeptNamed, ReportingNames
  <2>5. t \in Named(db, {"provision", "deployment"})
    <3>1. db.task[t].name # "update"
      BY <1>0, <1>5, <2>2, <2>4 DEF Good, Shape, SubtaskNames, Checks
    <3> QED BY <1>5, <2>4, <3>1 DEF Named, Progressing
  <2>6. ~ Sent(orch, t) /\ ~ Queued(queue, t)
    BY <1>0, <1>5, <2>4, <2>5 DEF Owns, p
  <2>7. PICK v \in Worker : t \in Holds(rq[v])
    BY <1>5, <2>6 DEF Reportable, Held, Sent, Queued
  <2>8. v # w /\ t \in Holds(req[v])
    BY <1>1, <1>3, <2>7
  <2>9. db.task[t].parent \in {NoTask, req[v].sup}
    BY <2>4, <2>8 DEF Accounts, Sources, Owned
  <2> QED BY <1>0, <1>5, <2>4, <2>8, <2>9
<1> QED BY <1>4, <1>5 DEF Live, p

\* The request ends and fails the task t.
LEMMA FailTurn ==
  ASSUME IInv, Accounts(db, req, orch, queue),
         NEW e, Good(e), Kept(db, e), NewRun(db, e),
         NEW w \in Worker, NEW rq, rq = [req EXCEPT ![w] = Idle],
         NewRows(db, e, req[w], Idle),
         NEW t \in TaskId, Exists(e, t), e.task[t].name # "deploy",
         e.task[t].parent \in {NoTask, req[w].sup},
         t \in Holds(req[w]) \/ t > db.seq \/ e.task[t].name \notin Progressing,
         e.seq > db.seq => t = e.seq,
         NEW f, SameTasks(UpdateTask(e, t, "error"), f)
  PROVE  Accounts(f, rq, orch, queue) /\ Evolves(db, f)
<1> DEFINE u == UpdateTask(e, t, "error")
<1>0. Idle \in Request /\ Idle.sup = NoTask /\ Idle.pc \notin Making /\ Idle.msgs = {}
      /\ Idle.pc # "cast_delete"
  BY IdleOK DEF Idle, Making
<1>1. Holds(Idle) = {}
  BY <1>0 DEF Holds
<1>2. Bundle(e, Idle)
  BY <1>0, <1>1 DEF Bundle
<1>3. Moves(db, e, req[w], Idle)
  BY <1>0, <1>1, <1>2 DEF Moves
<1>4. Accounts(e, rq, orch, queue)
  BY <1>0, <1>3, WorkerAccounts
<1>5. "error" \in TaskStatuses
  BY DEF TaskStatuses
<1>6. t \in Named(e, Progressing) => ~ Reportable(rq, orch, queue, t)
  <2> SUFFICES ASSUME t \in Named(e, Progressing), Reportable(rq, orch, queue, t)
               PROVE  FALSE
    OBVIOUS
  <2>1. t \in Named(e, Reporting)
    BY ReportingTypes
  <2>2. rq[w] = Idle /\ \A v \in Worker : v # w => rq[v] = req[v]
    BY RequestFacts
  <2>3. CASE t > db.seq
    <3>1. ~ (t <= db.seq)
      BY <2>3, GoodTypes DEF IInv, TaskId
    <3>2. ~ Sent(orch, t) /\ ~ Queued(queue, t)
      BY <3>1, GivenOut DEF Sent, Queued
    <3>3. \A v \in Worker : t \notin Holds(req[v])
      BY <3>1, GivenOut
    <3>4. ~ Held(rq, t)
      BY <1>1, <2>2, <3>3 DEF Held
    <3> QED BY <3>2, <3>4 DEF Reportable, Sent, Queued
  <2>4. CASE ~ (t > db.seq)
    <3>1. t \in Holds(req[w])
      BY <2>4 DEF Named
    <3>2. t \in Named(db, Reporting)
      <4>1. t <= db.seq
        BY <2>4, GoodTypes DEF IInv, TaskId
      <4> QED BY <2>1, <4>1, KeptNamed, ReportingNames DEF IInv
    <3>3. /\ ~ Sent(orch, t) /\ ~ Queued(queue, t)
          /\ \A v \in Worker : t \in Holds(req[v]) => v = w
      BY <3>1, <3>2 DEF Accounts, Sources, Once, Held
    <3>4. ~ Held(rq, t)
      BY <1>1, <2>2, <3>3 DEF Held
    <3> QED BY <3>3, <3>4 DEF Reportable, Sent, Queued
  <2> QED BY <2>3, <2>4
<1>7. e.task[t].parent # NoTask => ~ Live(e, rq, orch, queue, e.task[t].parent)
  BY EndedNotLive
<1>8. Reported(e, rq, orch, queue, t, "error")
  BY <1>6, <1>7 DEF Reported
<1>9. /\ Accounts(u, rq, orch, queue) /\ Settles(e, u) /\ Good(u)
      /\ u.task[t].status = "error"
  BY <1>4, <1>5, <1>8, UpdateAccounts
<1> HIDE DEF u
<1>10. Good(f) /\ Kept(u, f) /\ f.seq = u.seq
  BY <1>9, SameTasksGood, KeptSame DEF Good, SameTasks, u
<1>11. Accounts(f, rq, orch, queue)
  BY <1>9, <1>10, KeptAccounts
<1>12. Settles(e, f) /\ f.task[t].status = "error"
  BY <1>9 DEF Settles, Turns, SameTasks, u
<1>13. Evolves(db, f)
  <2>1. Good(db) /\ e.seq <= db.seq + 1
    BY DEF IInv, NewRows
  <2> QED BY <1>12, <2>1, Composed
<1> QED BY <1>11, <1>13

(***************************************************************************)
(* A request gives the orchestrator the messages X it has made, and goes   *)
(* on as r without them.                                                   *)
(***************************************************************************)
LEMMA CastAccounts ==
  ASSUME IInv, Accounts(db, req, orch, queue), NEW w \in Worker,
         NEW r \in Request, NEW rq, rq = [req EXCEPT ![w] = r],
         NEW X \in SUBSET req[w].msgs, NEW o, o = orch \cup X,
         r.msgs = {}, r.pc \notin Making \cup {"cast_delete"},
         \/ r.sup = NoTask
         \/ /\ r.sup = req[w].sup
            /\ r.pc \in SupPlaces => req[w].pc \in SupPlaces
            /\ r.pc \notin Checking
            /\ \A m \in X : m.task \notin Named(db, {"provision", "deployment"})
  PROVE  Accounts(db, rq, o, queue)
<1>0. /\ Good(db) /\ Holds(r) = {}
      /\ Once(db, req, orch, queue) /\ Owned(db, req, orch, queue)
      /\ Waits(db, req, orch, queue) /\ Bundle(db, req[w])
  BY DEF IInv, Accounts, Sources, Owned, Holds
<1>1. rq[w] = r /\ \A v \in Worker : v # w => rq[v] = req[v]
  BY RequestFacts
<1>2. \A v \in Worker : \A t \in Holds(rq[v]) : v # w /\ t \in Holds(req[v])
  BY <1>0, <1>1
<1>3. \A t : Held(rq, t) => Held(req, t)
  BY <1>2 DEF Held
<1>4. \A m \in X : m.task \in Holds(req[w])
  BY DEF Holds
<1>5. \A t : Sent(o, t) => Sent(orch, t) \/ t \in Holds(req[w])
  BY <1>4 DEF Sent
<1> HIDE DEF Holds
<1>6. \A m \in o : m \in orch \/ (m \in X /\ m.task \in Holds(req[w]) /\ m \in req[w].msgs)
  BY <1>4
<1>7. \A t \in Named(db, Reporting) :
        /\ t \in Holds(req[w]) => /\ ~ Sent(orch, t) /\ ~ Queued(queue, t)
                                  /\ ~ Held(rq, t)
        /\ Held(rq, t) => ~ Sent(o, t) /\ ~ Queued(queue, t)
  <2>1. \A t \in Named(db, Reporting) :
          t \in Holds(req[w]) => /\ ~ Sent(orch, t) /\ ~ Queued(queue, t)
                                 /\ ~ Held(rq, t)
    BY <1>0, <1>2 DEF Once, Held
  <2>2. \A t \in Named(db, Reporting) :
          Held(rq, t) => ~ Sent(orch, t) /\ ~ Queued(queue, t)
    BY <1>0, <1>3 DEF Once
  <2> QED BY <1>5, <2>1, <2>2
<1>8. Once(db, rq, o, queue)
  <2> SUFFICES ASSUME NEW t \in Named(db, Reporting)
               PROVE  /\ \A u, v \in Worker : t \in Holds(rq[u]) /\ t \in Holds(rq[v]) => u = v
                      /\ Held(rq, t) => ~ Sent(o, t) /\ ~ Queued(queue, t)
                      /\ \A m, n \in o : m.task = t /\ n.task = t => m = n
                      /\ \A m \in o, i \in 1 .. Len(queue) :
                           m.task = t /\ queue[i].task = t
                             => m.told /\ queue[i].status = "running"
                      /\ \A i, j \in 1 .. Len(queue) :
                           i < j /\ queue[i].task = t /\ queue[j].task = t
                             => queue[i].status = "running" /\ queue[j].status # "running"
    BY DEF Once
  <2>1. \A u, v \in Worker : t \in Holds(rq[u]) /\ t \in Holds(rq[v]) => u = v
    BY <1>0, <1>2 DEF Once
  <2>2. ASSUME NEW m \in o, NEW n \in o, m.task = t, n.task = t PROVE m = n
    <3>1. CASE m \in orch /\ n \in orch
      BY <1>0, <2>2, <3>1 DEF Once
    <3>2. CASE m \in X /\ n \in X
      BY <1>0, <2>2, <3>2 DEF Bundle
    <3>3. ~ (m \in orch /\ n \in X) /\ ~ (m \in X /\ n \in orch)
      BY <1>4, <1>7, <2>2 DEF Sent
    <3> QED BY <1>6, <3>1, <3>2, <3>3
  <2>3. ASSUME NEW m \in o, NEW i \in 1 .. Len(queue), m.task = t, queue[i].task = t
        PROVE  m.told /\ queue[i].status = "running"
    <3>1. m \notin X
      BY <1>4, <1>7, <2>3 DEF Queued
    <3>2. m \in orch
      BY <1>6, <3>1
    <3> QED BY <1>0, <2>3, <3>2 DEF Once
  <2> QED BY <1>0, <1>7, <2>1, <2>2, <2>3 DEF Once
<1>9. Owned(db, rq, o, queue)
  <2> SUFFICES ASSUME NEW v \in Worker
               PROVE  /\ rq[v].sup <= db.seq
                      /\ \A u \in Worker : rq[u].sup = rq[v].sup /\ rq[v].sup # NoTask => u = v
                      /\ Owns(db, rq[v], o, queue)
                      /\ \A t \in Named(db, Reporting) :
                           t \in Holds(rq[v]) => db.task[t].parent \in {NoTask, rq[v].sup}
                      /\ Bundle(db, rq[v])
    BY DEF Owned
  <2>0. \A u \in Worker : rq[u].sup = NoTask \/ rq[u].sup = req[u].sup
    BY <1>1
  <2>1. rq[v].sup <= db.seq
    BY <1>0, <2>0, GoodTypes DEF Owned, NoTask
  <2>2. \A u \in Worker : rq[u].sup = rq[v].sup /\ rq[v].sup # NoTask => u = v
    BY <1>0, <2>0 DEF Owned
  <2>3. \A t \in Named(db, Reporting) :
          t \in Holds(rq[v]) => db.task[t].parent \in {NoTask, rq[v].sup}
    BY <1>0, <1>1, <1>2 DEF Owned
  <2>4. Bundle(db, rq[v])
    <3>1. CASE v = w
      BY <1>1, <3>1 DEF Bundle
    <3>2. CASE v # w
      BY <1>0, <1>1, <3>2 DEF Owned
    <3> QED BY <3>1, <3>2
  <2>5. Owns(db, rq[v], o, queue)
    <3> SUFFICES ASSUME rq[v].sup # NoTask
                 PROVE  /\ \A t \in Named(db, {"provision", "deployment"}) :
                             db.task[t].parent = rq[v].sup =>
                               /\ ~ Sent(o, t) /\ ~ Queued(queue, t)
                               /\ rq[v].pc \in SupPlaces => db.task[t].name # "deployment"
                        /\ \A t \in Named(db, Reporting) :
                             db.task[t].parent = rq[v].sup => rq[v].pc \notin Checking
      BY DEF Owns
    <3>1. req[v].sup = rq[v].sup /\ Owns(db, req[v], orch, queue)
      BY <1>0, <2>0 DEF Owned
    <3>2. /\ rq[v].pc \in SupPlaces => req[v].pc \in SupPlaces
          /\ rq[v].pc \in Checking => req[v].pc \in Checking
      BY <1>1
    <3>3. \A t \in Named(db, {"provision", "deployment"}) :
            db.task[t].parent = rq[v].sup => \A m \in X : m.task # t
      <4>1. CASE v = w
        BY <1>1, <4>1
      <4>2. CASE v # w
        <5> SUFFICES ASSUME NEW t \in Named(db, {"provision", "deployment"}),
                            db.task[t].parent = rq[v].sup,
                            NEW m \in X, m.task = t
                     PROVE  FALSE
          OBVIOUS
        <5>1. t \in Named(db, Reporting)
          BY DEF Named, Reporting, Progressing
        <5>2. db.task[t].parent \in {NoTask, req[w].sup}
          BY <1>0, <1>4, <5>1 DEF Owned
        <5> QED BY <1>0, <3>1, <4>2, <5>2 DEF Owned
      <4> QED BY <4>1, <4>2
    <3>4. \A t \in Named(db, {"provision", "deployment"}) :
            db.task[t].parent = rq[v].sup => ~ Sent(o, t) /\ ~ Queued(queue, t)
      BY <1>6, <3>1, <3>3 DEF Owns, Sent
    <3> QED BY <3>1, <3>2, <3>4 DEF Owns
  <2> QED BY <2>1, <2>2, <2>3, <2>4, <2>5
<1>10. Waits(db, rq, o, queue)
  <2> SUFFICES ASSUME NEW t \in Named(db, {"provision"}), NEW s \in Named(db, {"deployment"}),
                      Together(db, t, s)
               PROVE  /\ \A j \in 1 .. Len(queue) : queue[j].task = s =>
                           /\ ~ Held(rq, t) /\ ~ Sent(o, t)
                           /\ \A i \in 1 .. Len(queue) : queue[i].task = t => i < j
                      /\ \A m \in o : m.task = s =>
                           ~ Held(rq, t) /\ (Sent(o, t) => m.other = t)
    BY DEF Waits
  <2>0. /\ t \in Named(db, Reporting) /\ s \in Named(db, Reporting)
        /\ t \in Named(db, {"provision", "deployment"})
    BY DEF Named, Reporting, Progressing
  <2>1. ASSUME ~ Held(req, t) PROVE ~ Held(rq, t) /\ (Sent(o, t) => Sent(orch, t))
    BY <1>3, <1>5, <2>1 DEF Held
  <2>2. ASSUME NEW j \in 1 .. Len(queue), queue[j].task = s
        PROVE  /\ ~ Held(rq, t) /\ ~ Sent(o, t)
               /\ \A i \in 1 .. Len(queue) : queue[i].task = t => i < j
    BY <1>0, <2>1, <2>2 DEF Waits
  <2>3. ASSUME NEW m \in o, m.task = s
        PROVE  ~ Held(rq, t) /\ (Sent(o, t) => m.other = t)
    <3>1. CASE m \in orch
      BY <1>0, <2>1, <2>3, <3>1 DEF Waits
    <3>2. CASE m \in X
      <4> DEFINE p == db.task[t].parent
      <4>1. s \in Holds(req[w]) /\ db.task[s].parent = p /\ p # NoTask
        BY <1>4, <2>3, <3>2 DEF Together
      <4>2. p = req[w].sup
        BY <1>0, <2>0, <4>1 DEF Owned
      <4>3. ~ Held(rq, t)
        <5> SUFFICES ASSUME NEW v \in Worker, t \in Holds(rq[v]) PROVE FALSE
          BY DEF Held
        <5>1. v # w /\ t \in Holds(req[v])
          BY <1>2
        <5>2. p \in {NoTask, req[v].sup}
          BY <1>0, <2>0, <5>1 DEF Owned
        <5> QED BY <1>0, <4>1, <4>2, <5>1, <5>2 DEF Owned
      <4>4. ~ Sent(orch, t)
        BY <1>0, <2>0, <4>1, <4>2 DEF Owned, Owns
      <4>5. Sent(o, t) => m.other = t
        <5> SUFFICES ASSUME Sent(o, t) PROVE m.other = t
          OBVIOUS
        <5>1. t \in Holds(req[w])
          BY <1>5, <4>4
        <5>2. m \in req[w].msgs /\ m.task \in Named(db, {"deployment"})
          BY <2>3, <3>2
        <5> QED BY <1>0, <2>3, <5>1, <5>2 DEF Bundle
      <4> QED BY <4>3, <4>5
    <3> QED BY <1>6, <3>1, <3>2
  <2> QED BY <2>2, <2>3
<1>11. \A t \in Named(db, Progressing) :
         Reportable(rq, o, queue, t) => Reportable(req, orch, queue, t)
  <2> SUFFICES ASSUME NEW t \in Named(db, Progressing), Reportable(rq, o, queue, t)
               PROVE  Reportable(req, orch, queue, t)
    OBVIOUS
  <2>1. CASE \E m \in o : m.task = t /\ ~ m.told
    BY <1>6, <2>1 DEF Reportable, Held
  <2> QED BY <1>3, <2>1 DEF Reportable
<1>12. \A s \in Named(db, Reporting) :
         Clear(req, orch, queue, s) => Clear(rq, o, queue, s)
  BY <1>3, <1>5 DEF Clear, Held
<1>13. Running(db, rq, o, queue)
  BY <1>11 DEF Accounts, Running
<1>14. Families(db, rq, o, queue)
  <2>1. \A p \in TaskId : Live(db, rq, o, queue, p) => Live(db, req, orch, queue, p)
    <3> SUFFICES ASSUME NEW p \in TaskId, Live(db, rq, o, queue, p)
                 PROVE  Live(db, req, orch, queue, p)
      OBVIOUS
    <3>1. CASE \E v \in Worker : rq[v].pc \in SupPlaces /\ rq[v].sup = p
      <4>1. p # NoTask
        BY DEF TaskId, NoTask
      <4>2. PICK v \in Worker : rq[v].pc \in SupPlaces /\ rq[v].sup = p
        BY <3>1
      <4>3. req[v].pc \in SupPlaces /\ req[v].sup = p
        BY <1>1, <4>1, <4>2
      <4> QED BY <4>3 DEF Live
    <3> QED BY <1>11, <3>1 DEF Live
  <2>2. \A s : Settled(db, req, orch, queue, s) => Settled(db, rq, o, queue, s)
    BY <1>12, ReportingTypes DEF Settled
  <2> QED BY <2>1, <2>2 DEF Accounts, Families
<1> QED BY <1>8, <1>9, <1>10, <1>13, <1>14 DEF Accounts, Sources

\* Messages of which nothing is reported on the way.
LEMMA QuietCastAccounts ==
  ASSUME NEW d, NEW rq, NEW o, NEW q, Accounts(d, rq, o, q),
         NEW X, \A m \in X : m.task \notin Named(d, Reporting)
  PROVE  Accounts(d, rq, o \cup X, q)
<1> DEFINE f == o \cup X
<1>1. \A t \in Named(d, Reporting) : \A m \in f : m.task = t => m \in o
  OBVIOUS
<1>2. \A m \in o : m \in f
  OBVIOUS
<1> HIDE DEF f
<1>3. \A t \in Named(d, Reporting) : Sent(f, t) <=> Sent(o, t)
  BY <1>1, <1>2 DEF Sent
<1>4. /\ Named(d, Progressing) \subseteq Named(d, Reporting)
      /\ Named(d, {"provision", "deployment"}) \subseteq Named(d, Reporting)
      /\ Named(d, {"provision"}) \subseteq Named(d, Reporting)
      /\ Named(d, {"deployment"}) \subseteq Named(d, Reporting)
  BY DEF Named, Progressing, Reporting
<1>5. Once(d, rq, f, q)
  <2>1. Once(d, rq, o, q)
    BY DEF Accounts, Sources
  <2> QED BY <1>1, <1>3, <2>1 DEF Once
<1>6. Owned(d, rq, f, q)
  <2>1. \A w \in Worker : Owns(d, rq[w], o, q)
    BY DEF Accounts, Sources, Owned
  <2>2. \A w \in Worker : Owns(d, rq[w], f, q)
    BY <1>3, <1>4, <2>1 DEF Owns
  <2> QED BY <2>2 DEF Accounts, Sources, Owned
<1>7. Waits(d, rq, f, q)
  <2>1. Waits(d, rq, o, q)
    BY DEF Accounts, Sources
  <2> QED BY <1>1, <1>3, <1>4, <2>1 DEF Waits
<1>8. \A t \in Named(d, Reporting) : Reportable(rq, f, q, t) <=> Reportable(rq, o, q, t)
  BY <1>1, <1>2 DEF Reportable
<1>9. \A s \in Named(d, Reporting) : Clear(rq, f, q, s) <=> Clear(rq, o, q, s)
  BY <1>3 DEF Clear
<1>10. Running(d, rq, f, q)
  BY <1>4, <1>8 DEF Accounts, Running
<1>11. Families(d, rq, f, q)
  <2>1. \A p : Live(d, rq, f, q, p) => Live(d, rq, o, q, p)
    BY <1>4, <1>8 DEF Live
  <2>2. \A s : Settled(d, rq, o, q, s) => Settled(d, rq, f, q, s)
    BY <1>9, ReportingTypes DEF Settled
  <2> QED BY <2>1, <2>2 DEF Accounts, Families
<1> QED BY <1>5, <1>6, <1>7, <1>10, <1>11 DEF Accounts, Sources, f

(***************************************************************************)
(* The orchestrator answers a for its message m, which is kept until the   *)
(* final answer and waits for no other.                                    *)
(***************************************************************************)
LEMMA SendAccounts ==
  ASSUME IInv, Accounts(db, req, orch, queue),
         NEW m \in orch, ~ Joined(m), NEW a, a.task = m.task,
         a.status = "running" => ~ m.told /\ a.method \in {"provision", "deploy"},
         NEW q, q = Append(queue, a),
         NEW o, \A n \in o : \/ n \in orch \ {m}
                             \/ /\ a.status = "running" /\ n.told
                                /\ n = [m EXCEPT !.told = TRUE]
  PROVE  Accounts(db, req, o, q)
<1>0. /\ Once(db, req, orch, queue) /\ Owned(db, req, orch, queue)
      /\ Waits(db, req, orch, queue) /\ Reports(queue)
  BY DEF Accounts, Sources
<1>1. /\ Len(queue) \in Nat /\ Len(q) = Len(queue) + 1 /\ Len(q) \in 1 .. Len(q)
      /\ q[Len(q)] = a
      /\ \A i \in 1 .. Len(queue) : i \in 1 .. Len(q) /\ q[i] = queue[i]
      /\ \A i \in 1 .. Len(q) : i \in 1 .. Len(queue) \/ i = Len(q)
  <2>1. queue \in Seq(Reply)
    BY DEF IInv, TypeOK
  <2> QED BY <2>1
<1>2. m \in Message /\ Ref(db, m)
  BY DEF IInv, TypeOK, Refs
<1>3. \A n \in o : /\ \E k \in orch : k.task = n.task /\ k.other = n.other
                   /\ n.task = m.task => n \notin orch \/ (n \in orch /\ n # m)
                   /\ (n \in orch /\ n # m) \/ n.task = m.task
  BY <1>2 DEF Message
<1>4. \A t : Sent(o, t) => Sent(orch, t)
  BY <1>3 DEF Sent
<1>5. Sent(orch, m.task)
  BY DEF Sent
<1>6. \A t : Queued(q, t) => Queued(queue, t) \/ t = m.task
  BY <1>1 DEF Queued
<1>7. Once(db, req, o, q)
  <2> SUFFICES ASSUME NEW t \in Named(db, Reporting)
               PROVE  /\ \A u, v \in Worker : t \in Holds(req[u]) /\ t \in Holds(req[v]) => u = v
                      /\ Held(req, t) => ~ Sent(o, t) /\ ~ Queued(q, t)
                      /\ \A k, n \in o : k.task = t /\ n.task = t => k = n
                      /\ \A n \in o, i \in 1 .. Len(q) :
                           n.task = t /\ q[i].task = t => n.told /\ q[i].status = "running"
                      /\ \A i, j \in 1 .. Len(q) :
                           i < j /\ q[i].task = t /\ q[j].task = t
                             => q[i].status = "running" /\ q[j].status # "running"
    BY DEF Once
  <2> HIDE DEF Holds
  <2>1. \A u, v \in Worker : t \in Holds(req[u]) /\ t \in Holds(req[v]) => u = v
    BY <1>0 DEF Once
  <2>2. Held(req, t) => ~ Sent(o, t) /\ ~ Queued(q, t)
    BY <1>0, <1>4, <1>5, <1>6 DEF Once
  <2>3. CASE t # m.task
    <3>1. \A n \in o : n.task = t => n \in orch
      BY <1>3, <2>3
    <3>2. \A i \in 1 .. Len(q) : q[i].task = t =>
            i \in 1 .. Len(queue) /\ q[i] = queue[i]
      BY <1>1, <2>3
    <3> QED BY <1>0, <2>1, <2>2, <3>1, <3>2 DEF Once
  <2>4. CASE t = m.task
    <3>1. \A n \in orch : n.task = t => n = m
      BY <1>0, <2>4 DEF Once
    <3>2. \A n \in o : n.task = t =>
            a.status = "running" /\ n.told /\ n = [m EXCEPT !.told = TRUE]
      BY <1>3, <3>1
    <3>3. \A i \in 1 .. Len(queue) : queue[i].task = t => m.told /\ queue[i].status = "running"
      BY <1>0, <2>4 DEF Once
    <3>4. \A k, n \in o : k.task = t /\ n.task = t => k = n
      BY <3>2
    <3>5. ASSUME NEW n \in o, NEW i \in 1 .. Len(q), n.task = t, q[i].task = t
          PROVE  n.told /\ q[i].status = "running"
      BY <1>1, <3>2, <3>3, <3>5
    <3>6. ASSUME NEW i \in 1 .. Len(q), NEW j \in 1 .. Len(q),
                 i < j, q[i].task = t, q[j].task = t
          PROVE  q[i].status = "running" /\ q[j].status # "running"
      <4>1. i \in 1 .. Len(queue) /\ q[i] = queue[i]
        BY <1>1, <3>6
      <4>2. CASE j \in 1 .. Len(queue)
        BY <1>0, <1>1, <3>6, <4>1, <4>2 DEF Once
      <4>3. CASE j = Len(q)
        BY <1>1, <3>3, <3>6, <4>1, <4>3
      <4> QED BY <1>1, <4>2, <4>3
    <3> QED BY <2>1, <2>2, <3>4, <3>5, <3>6
  <2> QED BY <2>3, <2>4
<1>8. Owned(db, req, o, q)
  <2>1. \A w \in Worker : Owns(db, req[w], orch, queue)
    BY <1>0 DEF Owned
  <2>2. \A w \in Worker : Owns(db, req[w], o, q)
    BY <1>4, <1>5, <1>6, <2>1 DEF Owns
  <2> QED BY <1>0, <2>2 DEF Owned
<1>9. Waits(db, req, o, q)
  <2> SUFFICES ASSUME NEW t \in Named(db, {"provision"}), NEW s \in Named(db, {"deployment"}),
                      Together(db, t, s)
               PROVE  /\ \A j \in 1 .. Len(q) : q[j].task = s =>
                           /\ ~ Held(req, t) /\ ~ Sent(o, t)
                           /\ \A i \in 1 .. Len(q) : q[i].task = t => i < j
                      /\ \A n \in o : n.task = s =>
                           ~ Held(req, t) /\ (Sent(o, t) => n.other = t)
    BY DEF Waits
  <2>0. t # s
    BY DEF Named
  <2>1. ASSUME NEW n \in o, n.task = s
        PROVE  ~ Held(req, t) /\ (Sent(o, t) => n.other = t)
    BY <1>0, <1>3, <1>4, <2>1 DEF Waits
  <2>2. m.task = s => ~ Held(req, t) /\ ~ Sent(orch, t)
    <3> SUFFICES ASSUME m.task = s PROVE ~ Held(req, t) /\ ~ Sent(orch, t)
      OBVIOUS
    <3>1. ~ Held(req, t) /\ (Sent(orch, t) => m.other = t)
      BY <1>0 DEF Waits
    <3>2. m.method = "deploy"
      BY <1>2 DEF Ref, Is, Answered, Named, Message, Methods
    <3>3. Sent(orch, t) => Joined(m)
      BY <3>1, <3>2 DEF Joined, Sent
    <3> QED BY <3>1, <3>3
  <2>3. ASSUME NEW j \in 1 .. Len(queue), queue[j].task = s
        PROVE  /\ ~ Held(req, t) /\ ~ Sent(orch, t)
               /\ \A i \in 1 .. Len(queue) : queue[i].task = t => i < j
    BY <1>0, <2>3 DEF Waits
  <2>4. ASSUME NEW j \in 1 .. Len(q), q[j].task = s
        PROVE  /\ ~ Held(req, t) /\ ~ Sent(o, t)
               /\ \A i \in 1 .. Len(q) : q[i].task = t => i < j
    <3>1. CASE j \in 1 .. Len(queue)
      <4>1. m.task # t
        BY <1>1, <1>5, <2>3, <2>4, <3>1
      <4>2. \A i \in 1 .. Len(q) : q[i].task = t => i \in 1 .. Len(queue) /\ q[i] = queue[i]
        BY <1>1, <4>1
      <4> QED BY <1>1, <1>4, <2>3, <2>4, <3>1, <4>2
    <3>2. CASE j = Len(q)
      <4>1. m.task = s
        BY <1>1, <2>4, <3>2
      <4>2. \A i \in 1 .. Len(q) : q[i].task = t => i < j
        BY <1>1, <2>0, <3>2, <4>1
      <4> QED BY <1>4, <2>2, <4>1, <4>2
    <3> QED BY <1>1, <3>1, <3>2
  <2> QED BY <2>1, <2>4
<1>10. \A t : Reportable(req, o, q, t) => Reportable(req, orch, queue, t)
  <2> SUFFICES ASSUME NEW t, Reportable(req, o, q, t)
               PROVE  Reportable(req, orch, queue, t)
    OBVIOUS
  <2>1. CASE \E n \in o : n.task = t /\ ~ n.told
    BY <2>1 DEF Reportable
  <2>2. CASE \E i \in 1 .. Len(q) : q[i].task = t /\ q[i].status = "running"
    <3>1. PICK i \in 1 .. Len(q) : q[i].task = t /\ q[i].status = "running"
      BY <2>2
    <3>2. CASE i \in 1 .. Len(queue)
      BY <1>1, <3>1, <3>2 DEF Reportable
    <3>3. CASE i = Len(q)
      BY <1>1, <3>1, <3>3 DEF Reportable
    <3> QED BY <1>1, <3>2, <3>3
  <2> QED BY <2>1, <2>2 DEF Reportable
<1>11. \A s : Clear(req, orch, queue, s) => Clear(req, o, q, s)
  <2> SUFFICES ASSUME NEW s, Clear(req, orch, queue, s) PROVE Clear(req, o, q, s)
    OBVIOUS
  <2>1. s # m.task
    BY <1>5 DEF Clear
  <2> QED BY <1>1, <1>4, <2>1 DEF Clear
<1>12. Running(db, req, o, q)
  BY <1>10 DEF Accounts, Running
<1>13. Families(db, req, o, q)
  <2>1. \A p : Live(db, req, o, q, p) => Live(db, req, orch, queue, p)
    BY <1>10 DEF Live
  <2>2. \A s : Settled(db, req, orch, queue, s) => Settled(db, req, o, q, s)
    BY <1>11 DEF Settled
  <2> QED BY <2>1, <2>2 DEF Accounts, Families
<1>14. Reports(q)
  BY <1>0, <1>1 DEF Reports
<1> QED BY <1>7, <1>8, <1>9, <1>12, <1>13, <1>14 DEF Accounts, Sources

------------------------------------------------------------------------------
(***************************************************************************)
(* The handling of a reply.                                                *)
(***************************************************************************)
LEMMA SettlesTransitive ==
  ASSUME NEW d, NEW e, NEW f, Settles(d, e), Settles(e, f)
  PROVE  Settles(d, f)
BY DEF Settles, Turns

LEMMA KeptSettles ==
  ASSUME NEW d, Good(d), NEW e, Good(e), Kept(d, e), e.seq = d.seq
  PROVE  Settles(d, e)
<1>1. \A t \in TaskId : t > d.seq =>
        /\ d.task[t].name = "none" /\ d.task[t].status = "none"
        /\ e.task[t].name = "none" /\ e.task[t].status = "none"
  BY GoodTypes DEF Good, Shape
<1>2. \A t \in TaskId : t <= d.seq \/ t > d.seq
  BY GoodTypes
<1> QED BY <1>1, <1>2, KeptTurns DEF Settles, Turns

LEMMA NodesThenUpdateAccounts ==
  ASSUME NEW d, Good(d), NEW rq, NEW o, NEW q, Accounts(d, rq, o, q),
         NEW x, SameTasks(d, x), NEW t \in TaskId, NEW st \in TaskStatuses,
         Exists(d, t), d.task[t].name # "deploy", Reported(d, rq, o, q, t, st)
  PROVE  LET e == UpdateTask(x, t, st)
         IN Accounts(e, rq, o, q) /\ Settles(d, e) /\ Good(e)
<1>1. Good(x) /\ Kept(d, x) /\ x.seq = d.seq /\ x.task = d.task
  BY SameTasksGood, KeptSame DEF SameTasks
<1>2. Accounts(x, rq, o, q) /\ Settles(d, x)
  BY <1>1, KeptAccounts, SettlesSame
<1>3. Exists(x, t) /\ x.task[t].name # "deploy"
  BY <1>1 DEF Exists
<1>4. Reported(x, rq, o, q, t, st)
  BY <1>1 DEF Reported, Live, Settled, Named
<1>5. LET e == UpdateTask(x, t, st)
      IN Accounts(e, rq, o, q) /\ Settles(x, e) /\ Good(e)
  BY <1>1, <1>2, <1>3, <1>4, UpdateAccounts
<1> QED BY <1>2, <1>5, SettlesTransitive

\* The handlers set nodes and the cluster, and then update the task. That of
\* deploy_resp may turn success into failure.
\* The pending release is untouched.
KeepsRelease(d, e) ==
  "release" \in DOMAIN d => "release" \in DOMAIN e /\ e.release = d.release

LEMMA KeepsReleaseTransitive ==
  ASSUME NEW d, NEW e, NEW f, KeepsRelease(d, e), KeepsRelease(e, f)
  PROVE  KeepsRelease(d, f)
BY DEF KeepsRelease

LEMMA SetsKeepRelease ==
  ASSUME NEW d, NEW x, NEW y
  PROVE  /\ KeepsRelease(d, d)
         /\ KeepsRelease(d, SetNodes(d, x)) /\ KeepsRelease(d, SetTasks(d, x))
         /\ KeepsRelease(d, SetCluster(d, x)) /\ KeepsRelease(d, CreateTask(d, x, y))
<1>1. KeepsRelease(d, SetNodes(d, x))
  BY DEF KeepsRelease, SetNodes
<1>2. KeepsRelease(d, SetTasks(d, x))
  BY DEF KeepsRelease, SetTasks
<1>3. KeepsRelease(d, SetCluster(d, x))
  BY DEF KeepsRelease, SetCluster
<1>4. KeepsRelease(d, CreateTask(d, x, y))
  BY DEF KeepsRelease, CreateTask
<1> QED BY <1>1, <1>2, <1>3, <1>4 DEF KeepsRelease

LEMMA NodesKeepRelease ==
  ASSUME NEW d, NEW S, NEW st
  PROVE  /\ KeepsRelease(d, SetNodeStatus(d, S, st))
         /\ KeepsRelease(d, NodesToError(d, S, st))
         /\ KeepsRelease(d, ResetToDiscover(d, S)) /\ KeepsRelease(d, DeleteNodes(d, S))
         /\ KeepsRelease(d, KeepFailed(d, S)) /\ KeepsRelease(d, GiveRoles(d, S))
         /\ KeepsRelease(d, ClearAddition(d, S)) /\ KeepsRelease(d, MarkForDeletion(d))
         /\ KeepsRelease(d, EraseDiscovered(d))
BY SetsKeepRelease DEF SetNodeStatus, NodesToError, ResetToDiscover, DeleteNodes,
   KeepFailed, GiveRoles, ClearAddition, MarkForDeletion, EraseDiscovered

LEMMA DeployRespShape ==
  ASSUME NEW d \in Database, NEW m \in Reply
  PROVE  \E x, st : /\ SameTasks(d, x) /\ KeepsRelease(d, x)
                    /\ st = m.status \/ (m.status = "ready" /\ st = "error")
                    /\ DeployResp(d, m) = UpdateTask(x, m.task, st)
<1> DEFINE st == IF m.status = "ready" THEN "ready" ELSE "deploying"
           d1 == SetNodeStatus(d, Known(d, m.good), st)
           d2 == NodesToError(d1, Known(d, m.bad), "deploy")
<1>1. SameTasks(d, d1) /\ KeepsRelease(d, d1)
  BY SetNodeStatusSame, NodesKeepRelease DEF NodeStatuses
<1>2. SameTasks(d1, d2) /\ KeepsRelease(d1, d2)
  <2> HIDE DEF d1
  <2> QED BY <1>1, NodesToErrorSame, NodesKeepRelease DEF SameTasks, NodeErrors
<1>3. SameTasks(d, d2) /\ KeepsRelease(d, d2)
  BY <1>1, <1>2, SameTasksTransitive, KeepsReleaseTransitive
<1>4. \/ m.status = "ready" /\ DeployResp(d, m) = UpdateTask(d2, m.task, "error")
      \/ DeployResp(d, m) = UpdateTask(d2, m.task, m.status)
  BY DEF DeployResp
<1> HIDE DEF d2
<1> QED BY <1>3, <1>4

LEMMA ProvisionRespShape ==
  ASSUME NEW d \in Database, NEW m \in Reply
  PROVE  \E x : /\ SameTasks(d, x) /\ KeepsRelease(d, x)
                /\ ProvisionResp(d, m) = UpdateTask(x, m.task, m.status)
<1> DEFINE st == IF m.status = "ready" THEN "provisioned" ELSE "provisioning"
           d1 == SetNodeStatus(d, Known(d, m.good), st)
           d2 == NodesToError(d1, Known(d, m.bad), "provision")
<1>1. SameTasks(d, d1) /\ KeepsRelease(d, d1)
  BY SetNodeStatusSame, NodesKeepRelease DEF NodeStatuses
<1>2. SameTasks(d1, d2) /\ KeepsRelease(d1, d2)
  <2> HIDE DEF d1
  <2> QED BY <1>1, NodesToErrorSame, NodesKeepRelease DEF SameTasks, NodeErrors
<1>3. SameTasks(d, d2) /\ KeepsRelease(d, d2)
  BY <1>1, <1>2, SameTasksTransitive, KeepsReleaseTransitive
<1>4. ProvisionResp(d, m) = UpdateTask(d2, m.task, m.status)
  BY DEF ProvisionResp
<1> HIDE DEF d2
<1> QED BY <1>3, <1>4

LEMMA RemoveNodesRespShape ==
  ASSUME NEW d \in Database, NEW m \in Reply, NEW removed, NEW failed
  PROVE  \E x : /\ SameTasks(d, x) /\ KeepsRelease(d, x)
                /\ RemoveNodesResp(d, m, removed, failed) = UpdateTask(x, m.task, m.status)
<1> DEFINE d1 == DeleteNodes(d, removed)
           d2 == KeepFailed(d1, failed)
<1>1. SameTasks(d, d1) /\ KeepsRelease(d, d1)
  BY DeleteNodesSame, NodesKeepRelease
<1>2. SameTasks(d1, d2) /\ KeepsRelease(d1, d2)
  <2> HIDE DEF d1
  <2> QED BY <1>1, KeepFailedSame, NodesKeepRelease DEF SameTasks
<1>3. SameTasks(d, d2) /\ KeepsRelease(d, d2)
  BY <1>1, <1>2, SameTasksTransitive, KeepsReleaseTransitive
<1>4. RemoveNodesResp(d, m, removed, failed) = UpdateTask(d2, m.task, m.status)
  BY DEF RemoveNodesResp
<1> HIDE DEF d2
<1> QED BY <1>3, <1>4

LEMMA ResetEnvironmentRespShape ==
  ASSUME NEW d \in Database, NEW m \in Reply
  PROVE  \E x : /\ SameTasks(d, x) /\ KeepsRelease(d, x)
                /\ ResetEnvironmentResp(d, m) = UpdateTask(x, m.task, m.status)
<1> DEFINE d1 == SetCluster(d, "new")
           d2 == ResetToDiscover(d1, m.good \cap ClusterNodes(d))
<1>1. SameTasks(d, d1) /\ KeepsRelease(d, d1)
  BY SetClusterSame, SetsKeepRelease DEF ClusterStatuses
<1>2. SameTasks(d1, d2) /\ KeepsRelease(d1, d2)
  <2> HIDE DEF d1
  <2> QED BY <1>1, ResetToDiscoverSame, NodesKeepRelease DEF SameTasks
<1>3. /\ SameTasks(d, d2) /\ KeepsRelease(d, d2)
      /\ SameTasks(d, d) /\ KeepsRelease(d, d)
  BY <1>1, <1>2, SameTasksTransitive, KeepsReleaseTransitive, SetsKeepRelease
     DEF SameTasks
<1>4. \/ m.status = "ready" /\ ResetEnvironmentResp(d, m) = UpdateTask(d2, m.task, "ready")
      \/ ResetEnvironmentResp(d, m) = UpdateTask(d, m.task, m.status)
  BY DEF ResetEnvironmentResp
<1> HIDE DEF d2
<1> QED BY <1>3, <1>4

\* The first reply in the queue may be applied to its task.
LEMMA HeadReported ==
  ASSUME IInv, Accounts(db, req, orch, queue), queue # <<>>,
         Exists(db, queue[1].task),
         NEW st \in TaskStatuses,
         \/ st = queue[1].status
         \/ queue[1].method = "deploy" /\ queue[1].status = "ready" /\ st = "error"
  PROVE  Reported(db, req, orch, queue, queue[1].task, st)
<1> DEFINE m == queue[1]
           t == m.task
           p == db.task[t].parent
<1>0. /\ Good(db) /\ Once(db, req, orch, queue) /\ Owned(db, req, orch, queue)
      /\ Waits(db, req, orch, queue) /\ Single(db) /\ Reports(queue)
  BY DEF IInv, Accounts, Sources
<1>1. 1 \in 1 .. Len(queue) /\ m \in Reply /\ Ref(db, m)
  <2>1. queue \in Seq(Reply)
    BY DEF IInv, TypeOK
  <2>2. 1 \in 1 .. Len(queue) /\ m \in Reply
    BY <2>1
  <2> QED BY <2>2 DEF IInv, Refs
<1>2. t \in TaskId /\ m.method \in Methods
  BY <1>1 DEF Reply
<1>3. db.task[t].name \in Answered[m.method]
  BY <1>1 DEF Ref, Is, Exists
<1>4. Queued(queue, t)
  BY <1>1 DEF Queued
<1>5. /\ m.method = "deploy" => db.task[t].name \in {"deployment", "update"}
      /\ m.method = "provision" => db.task[t].name = "provision"
      /\ db.task[t].name \in Reporting =>
           m.method \in {"deploy", "provision", "remove_nodes"}
      /\ db.task[t].name \in Progressing => m.method \in {"deploy", "provision"}
      /\ m.method = "remove_nodes" => db.task[t].name = "node_deletion"
  BY <1>2, <1>3 DEF Answered, Methods, Reporting, Progressing
<1> HIDE DEF p, m
<1>6. CASE st = "running"
  <2>1. m.status = "running"
    BY <1>6 DEF m
  <2>2. m.method \in {"provision", "deploy"}
    BY <1>0, <1>1, <2>1 DEF Reports, m
  <2>3. t \in Named(db, Progressing)
    BY <1>2, <1>5, <2>2 DEF Named, Progressing
  <2>4. Reportable(req, orch, queue, t)
    BY <1>1, <2>1 DEF Reportable, m
  <2> QED BY <1>6, <2>3, <2>4 DEF Reported, m
<1>7. CASE st # "running"
  <2>1. m.status # "running"
    BY <1>7 DEF m
  <2>2. t \in Named(db, Reporting) =>
          /\ ~ Held(req, t) /\ ~ Sent(orch, t)
          /\ \A i \in 1 .. Len(queue) : queue[i].task = t => i = 1
    <3> SUFFICES ASSUME t \in Named(db, Reporting)
                 PROVE  /\ ~ Held(req, t) /\ ~ Sent(orch, t)
                        /\ \A i \in 1 .. Len(queue) : queue[i].task = t => i = 1
      OBVIOUS
    <3>1. ~ Held(req, t) /\ ~ Sent(orch, t)
      BY <1>0, <1>1, <1>4, <2>1 DEF Once, Sent, m
    <3>2. ASSUME NEW i \in 1 .. Len(queue), queue[i].task = t PROVE i = 1
      <4>1. i = 1 \/ 1 < i
        OBVIOUS
      <4> QED BY <1>0, <1>1, <2>1, <3>2, <4>1 DEF Once, m
    <3> QED BY <3>1, <3>2
  <2>3. t \in Named(db, Reporting) => ~ Reportable(req, orch, queue, t)
    BY <2>1, <2>2 DEF Reportable, Sent, m
  <2>4. t \in Named(db, Progressing) => ~ Reportable(req, orch, queue, t)
    BY <2>3, ReportingTypes
  <2>5. ASSUME p # NoTask
        PROVE  \/ ~ Live(db, req, orch, queue, p)
               \/ /\ st = "error" /\ Clear(req, orch, queue, t)
                  /\ db.task[t].name \in {"node_deletion", "provision"}
               \/ st = "ready" /\ ~ Settled(db, req, orch, queue, t)
    <3>1. db.task[t].name \in SubtaskNames
      BY <1>0, <1>2, <2>5 DEF Good, Shape, p
    <3>2. db.task[t].name \in {"node_deletion", "provision", "deployment"}
      BY <1>2, <1>3, <3>1 DEF Answered, Methods, SubtaskNames, Checks
    <3>3. t \in Named(db, Reporting) /\ p \in TaskId
      BY <1>0, <1>2, <2>5, <3>2, GoodTypes DEF Named, Reporting, Progressing, p
    <3>4. CASE db.task[t].name = "deployment"
      <4>1. t \in Named(db, {"deployment"}) /\ t \in Named(db, {"provision", "deployment"})
        BY <1>2, <3>4 DEF Named
      <4>2. \A w \in Worker : req[w].sup # p
        BY <1>0, <1>4, <2>5, <4>1 DEF Owned, Owns, p
      <4>3. ASSUME NEW x \in Named(db, Progressing), db.task[x].parent = p,
                   Reportable(req, orch, queue, x)
            PROVE  FALSE
        <5>1. x \in TaskId /\ Together(db, x, t)
          BY <2>5, <4>3, ReportingTypes DEF Together, p
        <5>2. db.task[x].name \in {"provision", "deployment"}
          <6>1. db.task[x].name \in SubtaskNames
            BY <1>0, <2>5, <4>3, <5>1 DEF Good, Shape
          <6> QED BY <4>3, <6>1 DEF Named, Progressing, SubtaskNames, Checks
        <5>3. CASE db.task[x].name = "deployment"
          <6>1. x = t
            BY <1>0, <4>1, <5>1, <5>3 DEF Single, Named
          <6> QED BY <2>3, <3>3, <4>3, <6>1
        <5>4. CASE db.task[x].name = "provision"
          <6>1. x \in Named(db, {"provision"})
            BY <5>1, <5>4 DEF Named
          <6>2. /\ ~ Held(req, x) /\ ~ Sent(orch, x)
                /\ \A i \in 1 .. Len(queue) : queue[i].task = x => i < 1
            BY <1>0, <1>1, <4>1, <5>1, <6>1 DEF Waits, m
          <6> QED BY <4>3, <6>2 DEF Reportable, Sent
        <5> QED BY <5>2, <5>3, <5>4
      <4> QED BY <4>2, <4>3 DEF Live
    <3>5. CASE db.task[t].name \in {"node_deletion", "provision"}
      <4>1. st = m.status
        BY <1>5, <3>5 DEF m
      <4>2. CASE st = "error"
        <5>1. Clear(req, orch, queue, t)
          BY <2>2, <3>3, <4>1, <4>2 DEF Clear, m
        <5> QED BY <3>5, <4>2, <5>1
      <4>3. CASE st = "ready"
        <5>1. ~ Clear(req, orch, queue, t)
          BY <1>1, <4>1, <4>3 DEF Clear, m
        <5> QED BY <4>3, <5>1 DEF Settled
      <4> QED BY <1>7, <4>2, <4>3 DEF TaskStatuses
    <3> QED BY <3>2, <3>4, <3>5
  <2> QED BY <1>7, <2>4, <2>5 DEF Reported, p, m
<1> QED BY <1>6, <1>7

LEMMA KeptDeleteCluster ==
  ASSUME NEW d, Good(d)
  PROVE  Kept(d, DeleteCluster(d)) /\ DeleteCluster(d).seq = d.seq
<1> DEFINE d1 == DeleteNodes(d, ClusterNodes(d))
           d2 == DeleteTasks(d1, TaskId)
<1>1. SameTasks(d, d1)
  BY DeleteNodesSame DEF Good
<1> HIDE DEF d1
<1>2. Good(d1) /\ d1.seq = d.seq
  BY <1>1, SameTasksGood DEF SameTasks
<1>3. \A t \in TaskId : d1.task[t].parent = NoTask \/ d1.task[t].parent \in TaskId
  BY <1>2, GoodTypes
<1>4. d2.seq = d.seq /\ \A t \in TaskId : d2.task[t].name = "none"
  <2>1. d2.seq = d1.seq
    BY <1>2, <1>3, DeleteTasksGood
  <2>2. \A t \in TaskId : d2.task[t] = NoRow
    BY <1>2, DeleteTasksRows DEF Good
  <2> QED BY <1>2, <2>1, <2>2 DEF NoRow
<1> HIDE DEF d2
<1>5. SetCluster(d2, "deleted").seq = d2.seq /\ SetCluster(d2, "deleted").task = d2.task
  BY DEF SetCluster, d2, DeleteTasks, SetTasks
<1>6. DeleteCluster(d) = SetCluster(d2, "deleted")
  BY DEF DeleteCluster, d1, d2
<1>7. /\ DeleteCluster(d).seq = d.seq
      /\ \A t \in TaskId : DeleteCluster(d).task[t].name = "none"
  BY <1>4, <1>5, <1>6
<1> QED BY <1>7, GoodTypes DEF Kept

\* A successful stop removes the tasks it stopped.
LEMMA StopAccounts ==
  ASSUME NEW d, Good(d), NEW rq, NEW o, NEW q, Accounts(d, rq, o, q),
         NEW m \in Reply, Exists(d, m.task),
         d.task[m.task].name = "stop_deployment", m.status = "ready"
  PROVE  LET e == StopDeploymentResp(d, m) IN Accounts(e, rq, o, q) /\ Settles(d, e)
<1> DEFINE d1 == SetCluster(d, "stopped")
           S  == StoppedTasks(d)
           d2 == DeleteTasks(d1, S)
           d3 == ResetToDiscover(d2, m.good \cap ClusterNodes(d))
<1>0. d \in Database /\ m.task \in TaskId
  BY DEF Good, Reply
<1>1. SameTasks(d, d1)
  BY <1>0, SetClusterSame DEF ClusterStatuses
<1>2. Good(d1) /\ d1.task = d.task /\ d1.seq = d.seq
  BY <1>1, SameTasksGood DEF SameTasks
<1> HIDE DEF d1
<1>3. S \in SUBSET TaskId
  BY DEF StoppedTasks, Named
<1>4. \A t \in S : d1.task[t].parent = NoTask \/ d1.task[t].parent \in S
  <2> SUFFICES ASSUME NEW t \in S, d.task[t].parent # NoTask
               PROVE  d.task[t].parent \in S
    BY <1>2
  <2>1. d.task[t].parent \in TaskId /\ d.task[d.task[t].parent].name = "deploy"
    BY <1>3, GoodTypes
  <2> QED BY <2>1 DEF StoppedTasks, Named
<1>5. m.task \notin S /\ d.task[m.task].parent \notin S
  <2>1. d.task[m.task].parent = NoTask
    BY <1>0 DEF Good, Shape, SubtaskNames, Checks
  <2> QED BY <2>1 DEF StoppedTasks, Named, TaskId, NoTask
<1>6. /\ Good(d2) /\ Kept(d1, d2) /\ d2.seq = d1.seq
      /\ d2.task[m.task] = d.task[m.task]
  <2> HIDE DEF S
  <2>1. Good(d2) /\ d2.seq = d1.seq
    BY <1>2, <1>3, <1>4, DeleteTasksGood
  <2>2. Kept(d1, d2)
    BY <1>2, <1>3, <1>4, KeptDelete
  <2>3. d2.task[m.task] = d.task[m.task]
    BY <1>0, <1>2, <1>3, <1>5, DeleteTasksRows DEF Good
  <2> QED BY <2>1, <2>2, <2>3
<1> HIDE DEF d2, S
<1>7. Accounts(d2, rq, o, q) /\ Settles(d, d2)
  <2>1. Kept(d, d1)
    BY <1>1, KeptSame
  <2>2. Accounts(d1, rq, o, q)
    BY <1>2, <2>1, KeptAccounts
  <2>3. Accounts(d2, rq, o, q) /\ Settles(d1, d2)
    BY <1>2, <1>6, <2>2, KeptAccounts, KeptSettles
  <2> QED BY <1>1, <2>3, SettlesSame, SettlesTransitive
<1>8. SameTasks(d2, d3)
  BY <1>6, ResetToDiscoverSame DEF Good
<1> HIDE DEF d3
<1>9. Exists(d2, m.task) /\ d2.task[m.task].name # "deploy"
  BY <1>6 DEF Exists
<1>10. Reported(d2, rq, o, q, m.task, "ready")
  <2>1. d2.task[m.task].parent = NoTask /\ d2.task[m.task].name = "stop_deployment"
    BY <1>0, <1>6 DEF Good, Shape, SubtaskNames, Checks
  <2> QED BY <2>1 DEF Reported, Named, Progressing
<1>11. "ready" \in TaskStatuses
  BY DEF TaskStatuses
<1>12. LET e == UpdateTask(d3, m.task, "ready")
       IN Accounts(e, rq, o, q) /\ Settles(d2, e)
  BY <1>0, <1>6, <1>7, <1>8, <1>9, <1>10, <1>11, NodesThenUpdateAccounts
<1>13. StopDeploymentResp(d, m) = UpdateTask(d3, m.task, "ready")
  BY DEF StopDeploymentResp, d3, d2, d1, S
<1> QED BY <1>7, <1>12, <1>13, SettlesTransitive

LEMMA HeadAccounts ==
  ASSUME IInv, Accounts(db, req, orch, queue), queue # <<>>,
         NEW e \in Outcomes(db, Head(queue))
  PROVE  Accounts(e, req, orch, queue) /\ Settles(db, e)
<1> DEFINE m == queue[1]
           t == m.task
<1>0. Good(db) /\ db \in Database
  BY DEF IInv, Good
<1>1. m \in Reply /\ Ref(db, m) /\ Head(queue) = m
  <2>1. queue \in Seq(Reply)
    BY DEF IInv, TypeOK
  <2>2. 1 \in 1 .. Len(queue) /\ m \in Reply /\ Head(queue) = m
    BY <2>1
  <2> QED BY <2>2 DEF IInv, Refs
<1>2. t \in TaskId /\ m.method \in Methods /\ m.status \in TaskStatuses
  BY <1>1 DEF Reply
<1>3. CASE ~ Exists(db, t)
  <2>1. e = db
    BY <1>1, <1>3 DEF Outcomes
  <2>2. Kept(db, db)
    BY <1>0, KeptReflexive
  <2> QED BY <1>0, <2>1, <2>2, KeptSettles
<1>4. CASE Exists(db, t)
  <2>1. db.task[t].name \in Answered[m.method] /\ db.task[t].name # "deploy"
    BY <1>1, <1>2, <1>4 DEF Ref, Is, Exists, Answered, Methods
  <2>2. \A st \in TaskStatuses :
          st = m.status \/ (m.method = "deploy" /\ m.status = "ready" /\ st = "error")
            => Reported(db, req, orch, queue, t, st)
    BY <1>4, HeadReported
  <2> HIDE DEF m
  <2>3. ASSUME NEW x, SameTasks(db, x), NEW st \in TaskStatuses,
               st = m.status \/ (m.method = "deploy" /\ m.status = "ready" /\ st = "error")
        PROVE  LET f == UpdateTask(x, t, st)
               IN Accounts(f, req, orch, queue) /\ Settles(db, f) /\ Good(f)
    BY <1>0, <1>2, <1>4, <2>1, <2>2, <2>3, NodesThenUpdateAccounts
  <2>4. CASE e = db
    <3>1. Kept(db, db)
      BY <1>0, KeptReflexive
    <3> QED BY <1>0, <2>4, <3>1, KeptSettles
  <2>5. CASE m.method = "deploy" /\ e = DeployResp(db, m)
    <3>1. PICK x, st : /\ SameTasks(db, x)
                       /\ st = m.status \/ (m.status = "ready" /\ st = "error")
                       /\ e = UpdateTask(x, m.task, st)
      BY <1>0, <1>1, <2>5, DeployRespShape
    <3>2. st \in TaskStatuses
      BY <1>2, <3>1 DEF TaskStatuses
    <3> QED BY <2>3, <2>5, <3>1, <3>2
  <2>6. CASE e = ProvisionResp(db, m)
    <3>1. PICK x : SameTasks(db, x) /\ e = UpdateTask(x, m.task, m.status)
      BY <1>0, <1>1, <2>6, ProvisionRespShape
    <3> QED BY <1>2, <2>3, <3>1
  <2>7. ASSUME NEW r, NEW f
        PROVE  LET d1 == RemoveNodesResp(db, m, r, f)
               IN Accounts(d1, req, orch, queue) /\ Settles(db, d1) /\ Good(d1)
    <3>1. PICK x : /\ SameTasks(db, x)
                   /\ RemoveNodesResp(db, m, r, f) = UpdateTask(x, m.task, m.status)
      BY <1>0, <1>1, RemoveNodesRespShape
    <3> QED BY <1>2, <2>3, <3>1
  <2>8. ASSUME NEW r, NEW f, e = RemoveClusterResp(db, m, r, f)
        PROVE  Accounts(e, req, orch, queue) /\ Settles(db, e)
    <3> DEFINE d1 == RemoveNodesResp(db, m, r, f)
    <3>1. Accounts(d1, req, orch, queue) /\ Settles(db, d1) /\ Good(d1)
      BY <2>7
    <3>2. e \in {DeleteCluster(d1), SetCluster(d1, "error"), d1}
      BY <2>8 DEF RemoveClusterResp
    <3> HIDE DEF d1
    <3>3. Kept(d1, DeleteCluster(d1)) /\ DeleteCluster(d1).seq = d1.seq
          /\ Good(DeleteCluster(d1))
      BY <3>1, KeptDeleteCluster, DeleteClusterGood
    <3>4. LET c == SetCluster(d1, "error") IN Kept(d1, c) /\ c.seq = d1.seq /\ Good(c)
      <4>1. SameTasks(d1, SetCluster(d1, "error"))
        BY <3>1, SetClusterSame DEF Good, ClusterStatuses
      <4> QED BY <3>1, <4>1, KeptSame, SameTasksGood DEF SameTasks
    <3>5. Kept(d1, d1)
      BY <3>1, KeptReflexive
    <3>6. Kept(d1, e) /\ e.seq = d1.seq /\ Good(e)
      BY <3>1, <3>2, <3>3, <3>4, <3>5
    <3> QED BY <3>1, <3>6, KeptAccounts, KeptSettles, SettlesTransitive
  <2>9. CASE e = ResetEnvironmentResp(db, m)
    <3>1. PICK x : SameTasks(db, x) /\ e = UpdateTask(x, m.task, m.status)
      BY <1>0, <1>1, <2>9, ResetEnvironmentRespShape
    <3> QED BY <1>2, <2>3, <3>1
  <2>10. CASE m.method = "stop_deploy_task" /\ e = StopDeploymentResp(db, m)
    <3>1. CASE m.status = "ready"
      <4>1. db.task[t].name = "stop_deployment"
        BY <2>1, <2>10 DEF Answered, Methods
      <4> QED BY <1>0, <1>1, <1>4, <2>10, <3>1, <4>1, StopAccounts
    <3>2. CASE m.status # "ready"
      <4>1. e = UpdateTask(db, m.task, m.status)
        BY <2>10, <3>2 DEF StopDeploymentResp
      <4>2. SameTasks(db, db)
        BY <1>0 DEF SameTasks
      <4> QED BY <1>2, <2>3, <4>1, <4>2
    <3> QED BY <3>1, <3>2
  <2>11. \/ e = db
         \/ m.method = "deploy" /\ e = DeployResp(db, m)
         \/ e = ProvisionResp(db, m)
         \/ m.method = "stop_deploy_task" /\ e = StopDeploymentResp(db, m)
         \/ e = ResetEnvironmentResp(db, m)
         \/ \E r, f : e = RemoveNodesResp(db, m, r, f)
         \/ \E r, f : e = RemoveClusterResp(db, m, r, f)
    <3>1. CASE m.method \in {"deploy", "provision", "stop_deploy_task",
                             "reset_environment"}
      BY <1>1, <1>4, <3>1 DEF Outcomes, DeployOutcome
    <3>2. CASE m.method = "remove_nodes"
      BY <1>1, <1>4, <3>2 DEF Outcomes
    <3>3. CASE m.method = "remove_cluster"
      BY <1>1, <1>4, <3>3 DEF Outcomes
    <3> QED BY <1>2, <3>1, <3>2, <3>3 DEF Methods
  <2> QED BY <2>4, <2>5, <2>6, <2>7, <2>8, <2>9, <2>10, <2>11
<1> QED BY <1>3, <1>4

------------------------------------------------------------------------------
(***************************************************************************)
(* Every action keeps the accounts, and the rows evolve as in a TaskTable. *)
(***************************************************************************)
Accounted == Accounts(db', req', orch', queue') /\ Evolves(db, db')

LEMMA NoNewRows ==
  ASSUME NEW d, Good(d), NEW e, Good(e), e.seq = d.seq, NEW q, NEW r
  PROVE  NewRows(d, e, q, r) /\ NewRun(d, e)
<1>1. \A t \in Named(e, Reporting) : ~ (t > d.seq)
  BY GoodTypes, ReportingNames DEF Named
<1>2. \A t \in TaskId : ~ (t > d.seq /\ t <= e.seq)
  BY GoodTypes
<1>3. e.seq <= d.seq + 1
  BY GoodTypes
<1> QED BY <1>1, <1>2, <1>3 DEF NewRows, NewRun

LEMMA IdleMoves ==
  ASSUME NEW d, NEW e, NEW q
  PROVE  Moves(d, e, q, Idle) /\ Idle \in Request
<1>1. /\ Idle \in Request /\ Idle.sup = NoTask /\ Idle.pc \notin Making
      /\ Idle.msgs = {} /\ Idle.pc # "cast_delete"
  BY IdleOK DEF Idle, Making
<1>2. Holds(Idle) = {}
  BY <1>1 DEF Holds
<1>3. Bundle(e, Idle)
  BY <1>1, <1>2 DEF Bundle
<1> QED BY <1>1, <1>2, <1>3 DEF Moves

\* A request that holds no message yet.
LEMMA BareMoves ==
  ASSUME NEW d, NEW e, NEW q, NEW r, r.msgs = {},
         r.pc \notin Making \cup {"cast_delete"},
         r.sup = NoTask \/ (r.sup > d.seq /\ r.sup <= e.seq /\ r.sup # q.sup)
  PROVE  Moves(d, e, q, r)
<1>1. Holds(r) = {}
  BY DEF Holds
<1>2. Bundle(e, r)
  BY <1>1 DEF Bundle
<1> QED BY <1>1, <1>2 DEF Moves

\* A request that goes on with the messages it has.
LEMMA GoesOn ==
  ASSUME NEW d, NEW q, NEW r, Bundle(d, q),
         r.msgs = q.msgs, r.sup = q.sup, r.pc \notin Making \cup {"cast_delete"},
         q.pc \in Bundling => r.pc \in Bundling,
         r.pc \in SupPlaces => q.pc \in SupPlaces,
         r.pc \notin Checking
  PROVE  Moves(d, d, q, r)
<1>1. Holds(r) \subseteq Holds(q)
  BY DEF Holds
<1> HIDE DEF Holds
<1>2. Bundle(d, r)
  BY <1>1 DEF Bundle
<1> QED BY <1>1, <1>2 DEF Moves

\* The worker goes on, or returns, and touches no task row.
LEMMA QuietTurn ==
  ASSUME IInv, Accounts(db, req, orch, queue), NEW w \in Worker, NEW r \in Request,
         req' = [req EXCEPT ![w] = r], Moves(db, db, req[w], r),
         SameTasks(db, db'), orch' = orch, queue' = queue
  PROVE  Accounted
<1>1. Good(db) /\ Kept(db, db)
  BY KeptReflexive DEF IInv
<1>2. NewRows(db, db, req[w], r) /\ NewRun(db, db)
  BY <1>1, NoNewRows
<1>3. Accounts(db', req', orch, queue) /\ Evolves(db, db')
  BY <1>1, <1>2, Turn
<1> QED BY <1>3 DEF Accounted

\* Nothing but nodes, the cluster and the bounds are touched.
LEMMA NothingTurn ==
  ASSUME IInv, Accounts(db, req, orch, queue),
         SameTasks(db, db'), req' = req, orch' = orch, queue' = queue
  PROVE  Accounted
<1>1. Good(db) /\ Good(db') /\ Kept(db, db') /\ db'.seq = db.seq
  BY SameTasksGood, KeptSame DEF IInv, SameTasks
<1>2. Accounts(db', req, orch, queue) /\ Settles(db, db')
  BY <1>1, KeptAccounts, KeptSettles
<1> QED BY <1>2 DEF Accounted, Evolves

LEMMA Untouched ==
  ASSUME IInv
  PROVE  SameTasks(db, db)
BY DEF IInv, Good, SameTasks

LEMMA ReturnTurn ==
  ASSUME IInv, Accounts(db, req, orch, queue), NEW w \in Worker,
         Return(w), SameTasks(db, db'), orch' = orch, queue' = queue
  PROVE  Accounted
<1>1. req' = [req EXCEPT ![w] = Idle]
  BY DEF Return
<1>2. Moves(db, db, req[w], Idle) /\ Idle \in Request
  BY IdleMoves
<1> QED BY <1>1, <1>2, QuietTurn

\* The worker returns after it has deleted rows.
LEMMA ReturnDeleteTurn ==
  ASSUME IInv, Accounts(db, req, orch, queue), NEW w \in Worker,
         Return(w), Good(db'), Kept(db, db'), db'.seq = db.seq,
         orch' = orch, queue' = queue
  PROVE  Accounted
<1>1. req' = [req EXCEPT ![w] = Idle] /\ Good(db)
  BY DEF Return, IInv
<1>2. Moves(db, db', req[w], Idle) /\ Idle \in Request
  BY IdleMoves
<1>3. NewRows(db, db', req[w], Idle) /\ NewRun(db, db')
  BY <1>1, NoNewRows
<1>4. SameTasks(db', db')
  BY DEF SameTasks, Good
<1>5. Accounts(db', req', orch, queue) /\ Evolves(db, db')
  BY <1>1, <1>2, <1>3, <1>4, Turn
<1> QED BY <1>5 DEF Accounted

LEMMA QuietRequests ==
  ASSUME IInv, Accounts(db, req, orch, queue), NEW w \in Worker,
         \/ RequestFails(w) \/ ApplyAborted(w) \/ Crash(w)
         \/ ClusterDeletionRefuse(w)
         \/ StopRefuse(w) \/ UpdateRefuse(w) \/ ChooseRelease(w)
  PROVE  Accounted
<1>1. SameTasks(db, db)
  BY Untouched
<1>2. CASE RequestFails(w) \/ ApplyAborted(w) \/ Crash(w) \/ ClusterDeletionRefuse(w)
  <2>1. Return(w) /\ db' = db /\ orch' = orch /\ queue' = queue
    BY <1>2 DEF RequestFails, ApplyAborted, Crash, ClusterDeletionRefuse
  <2> QED BY <1>1, <2>1, ReturnTurn
<1>3. CASE StopRefuse(w) \/ UpdateRefuse(w)
  <2>1. db' = db /\ req' = req /\ orch' = orch /\ queue' = queue
    BY <1>3 DEF StopRefuse, UpdateRefuse
  <2> QED BY <1>1, <2>1, NothingTurn
<1>4. CASE ChooseRelease(w)
  <2>1. req' = req /\ orch' = orch /\ queue' = queue
    BY <1>4 DEF ChooseRelease
  <2>2. PICK chosen \in BOOLEAN : db' = [db EXCEPT !.release = chosen]
    BY <1>4 DEF ChooseRelease
  <2>3. SameTasks(db, db')
    BY <2>2, SetReleaseSame DEF IInv, Good
  <2> QED BY <2>1, <2>3, NothingTurn
<1> QED BY <1>2, <1>3, <1>4

\* A new task that has no supertask, after other tasks were deleted.
LEMMA TopRows ==
  ASSUME IInv, NEW d, Good(d), Kept(db, d), d.seq = db.seq,
         d.cluster # "deleted", db.seq < MaxTask,
         NEW name \in SubtaskNames \cup TopNames, name = "deploy" => Founding,
         NEW q, NEW r
  PROVE  LET e == CreateTask(d, name, NoTask)
         IN /\ Good(e) /\ Kept(db, e) /\ NewRun(db, e) /\ NewRows(db, e, q, r)
            /\ e.seq = db.seq + 1 /\ e.seq \in TaskId
            /\ e.task[e.seq] = [name |-> name, status |-> "running", parent |-> NoTask]
<1> DEFINE e == CreateTask(d, name, NoTask)
           row == [name |-> name, status |-> "running", parent |-> NoTask]
<1>0. Good(db) /\ db.seq \in Int
  BY GoodTypes DEF IInv
<1>1. NoTask \in TaskId \cup {NoTask}
  OBVIOUS
<1>2. /\ Good(e) /\ e.seq = d.seq + 1 /\ e.seq \in TaskId
      /\ e.task[e.seq] = row
      /\ \A t \in TaskId : t # e.seq => e.task[t] = d.task[t]
  BY <1>1, CreateTaskGood
<1> HIDE DEF e
<1>3. Kept(d, e)
  BY <1>2, KeptCreate
<1>4. Kept(db, e)
  BY <1>0, <1>2, <1>3, KeptTransitive
<1>5. \A t \in TaskId : t > db.seq => t = e.seq \/ e.task[t].name = "none"
  <2>1. \A t \in TaskId : t > e.seq => e.task[t].name = "none"
    BY <1>2, GoodTypes
  <2>2. \A t \in TaskId : t > db.seq => t = e.seq \/ t > e.seq
    BY <1>0, <1>2 DEF TaskId
  <2> QED BY <2>1, <2>2
<1>6. \A t \in TaskId : t > db.seq /\ t <= e.seq => t = e.seq
  BY <1>0, <1>2 DEF TaskId
<1>7. NewRun(db, e)
  BY <1>2, <1>6 DEF NewRun
<1>8. \A t \in Named(e, Reporting) : t > db.seq => e.task[t].parent = NoTask
  BY <1>2, <1>5, ReportingNames DEF Named
<1>9. e.seq <= db.seq + 1
  BY <1>0, <1>2
<1>10. NewRows(db, e, q, r)
  BY <1>8, <1>9 DEF NewRows
<1> QED BY <1>2, <1>4, <1>7, <1>10 DEF e

\* A new subtask of the supertask of request q, which becomes r.
LEMMA SubRows ==
  ASSUME IInv, NEW e, Good(e), Kept(db, e), e.seq = db.seq + 1, e.seq \in TaskId,
         NEW q, e.task[e.seq].parent = q.sup, e.task[e.seq].status = "running",
         e.task[e.seq].name # "deploy", NEW r,
         e.task[e.seq].name \in Reporting =>
           /\ r.sup = q.sup /\ q.pc \in SupPlaces /\ r.pc \notin Checking
           /\ e.task[e.seq].name = "deployment" => r.pc \notin SupPlaces
  PROVE  NewRun(db, e) /\ NewRows(db, e, q, r)
<1>0. Good(db) /\ db.seq \in Int
  BY GoodTypes DEF IInv
<1>1. \A t \in TaskId : t > db.seq => t = e.seq \/ e.task[t].name = "none"
  <2>1. \A t \in TaskId : t > e.seq => e.task[t].name = "none"
    BY GoodTypes
  <2>2. \A t \in TaskId : t > db.seq => t = e.seq \/ t > e.seq
    BY <1>0 DEF TaskId
  <2> QED BY <2>1, <2>2
<1>2. \A t \in TaskId : t > db.seq /\ t <= e.seq => t = e.seq
  BY <1>0 DEF TaskId
<1>3. NewRun(db, e)
  BY <1>2 DEF NewRun
<1>4. \A t \in Named(e, Reporting) :
        t > db.seq => t = e.seq /\ e.task[e.seq].name \in Reporting
  BY <1>1, ReportingNames DEF Named
<1>5. e.seq <= db.seq + 1
  BY <1>0
<1> QED BY <1>3, <1>4, <1>5 DEF NewRows

LEMMA CheckRows ==
  ASSUME IInv, NEW w \in Worker, req[w].sup \in TaskId,
         db.task[req[w].sup].name = "deploy", db.cluster # "deleted",
         db.seq < MaxTask, NEW r
  PROVE  LET e == CreateTask(db, "check_networks", req[w].sup)
         IN /\ Good(e) /\ Kept(db, e) /\ NewRun(db, e) /\ NewRows(db, e, req[w], r)
            /\ e.seq = db.seq + 1 /\ e.seq \in TaskId
            /\ e.task[e.seq] = [name |-> "check_networks", status |-> "running",
                                parent |-> req[w].sup]
<1> DEFINE p == req[w].sup
           e == CreateTask(db, "check_networks", p)
           row == [name |-> "check_networks", status |-> "running", parent |-> p]
<1>1. p \in TaskId \cup {NoTask} /\ "check_networks" \in SubtaskNames \cup TopNames
  BY DEF SubtaskNames, Checks
<1>2. /\ Good(db) /\ "check_networks" \in SubtaskNames
      /\ p # NoTask => "check_networks" \in SubtaskNames /\ db.task[p].name = "deploy"
  BY DEF SubtaskNames, Checks, IInv
<1>3. p = req[w].sup
  OBVIOUS
<1> HIDE DEF p
<1>4. /\ Good(e) /\ e.seq = db.seq + 1 /\ e.seq \in TaskId
      /\ e.task[e.seq] = row
      /\ \A t \in TaskId : t # e.seq => e.task[t] = db.task[t]
  BY <1>1, <1>2, CreateTaskGood
<1> HIDE DEF e
<1>5. Kept(db, e)
  BY <1>2, <1>4, KeptCreate
<1>6. NewRun(db, e) /\ NewRows(db, e, req[w], r)
  BY <1>3, <1>4, <1>5, ReportingNames, SubRows
<1> QED BY <1>3, <1>4, <1>5, <1>6 DEF e

LEMMA PartRows ==
  ASSUME IInv, NEW w \in Worker, req[w].sup \in TaskId,
         db.task[req[w].sup].name = "deploy", db.cluster # "deleted",
         db.seq < MaxTask, NEW name \in SubtaskNames \ {"check_networks"}, NEW r,
         name \in Reporting =>
           /\ r.sup = req[w].sup /\ req[w].pc \in SupPlaces /\ r.pc \notin Checking
           /\ name = "deployment" => r.pc \notin SupPlaces
  PROVE  LET e == NewPart(w, name)
         IN /\ Good(e) /\ Kept(db, e) /\ NewRun(db, e) /\ NewRows(db, e, req[w], r)
            /\ e.seq = db.seq + 1 /\ e.seq \in TaskId
            /\ e.task[e.seq] = [name |-> name, status |-> "running",
                                parent |-> req[w].sup]
<1> DEFINE p == req[w].sup
           c == CreateTask(db, name, p)
           e == DropChecks(c, p)
           row == [name |-> name, status |-> "running", parent |-> p]
<1>1. p \in TaskId \cup {NoTask} /\ name \in SubtaskNames \cup TopNames
  OBVIOUS
<1>2. /\ Good(db) /\ name \in SubtaskNames
      /\ p # NoTask => name \in SubtaskNames /\ db.task[p].name = "deploy"
  BY DEF IInv
<1>3. p = req[w].sup /\ NewPart(w, name) = e /\ p \in TaskId
  BY DEF NewPart
<1> HIDE DEF p
<1>4. /\ Good(c) /\ c.seq = db.seq + 1 /\ c.seq \in TaskId
      /\ c.task[c.seq] = row
      /\ \A t \in TaskId : t # c.seq => c.task[t] = db.task[t]
  BY <1>1, <1>2, CreateTaskGood
<1> HIDE DEF c
<1>5. Kept(db, c)
  BY <1>2, <1>4, KeptCreate
<1>6. c.seq \in Subtasks(c, p) /\ c.task[c.seq].name = name
  BY <1>4 DEF Subtasks, Exists, SubtaskNames, Checks
<1>7. Good(e) /\ e.seq = c.seq /\ e.task[c.seq] = c.task[c.seq]
  BY <1>3, <1>4, <1>6, DropChecksGood
<1>8. Kept(c, e)
  BY <1>3, <1>4, <1>7, KeptDropChecks
<1> HIDE DEF e
<1>9. Kept(db, e)
  BY <1>2, <1>4, <1>5, <1>7, <1>8, KeptTransitive
<1>10. e.seq = db.seq + 1 /\ e.seq \in TaskId /\ e.task[e.seq] = row
  BY <1>4, <1>7
<1>11. NewRun(db, e) /\ NewRows(db, e, req[w], r)
  <2>1. name # "deploy"
    BY DEF SubtaskNames, Checks
  <2> QED BY <1>3, <1>7, <1>9, <1>10, <2>1, SubRows
<1> QED BY <1>3, <1>7, <1>9, <1>10, <1>11

\* A request that holds one message, or is about to make its first, for a new
\* task.
LEMMA NewMoves ==
  ASSUME IInv, NEW e, NEW q, NEW r, db.seq < e.seq,
         \A t \in Holds(r) : t = e.seq,
         r.pc \in Making => r.msgs = {},
         \A m, n \in r.msgs : m = n,
         r.pc = "cast_delete" => r.sub = e.seq /\ r.msgs # {},
         r.sup = q.sup \/ r.sup = NoTask,
         r.sup = q.sup /\ r.sup # NoTask =>
           /\ r.pc \in SupPlaces => q.pc \in SupPlaces
           /\ r.pc \in Checking => q.pc \in Checking,
         e.task[e.seq].name # "deployment" \/ e.task[e.seq].name # "provision"
  PROVE  Moves(db, e, q, r)
<1>1. \A m \in r.msgs : m.task \in Holds(r)
  BY DEF Holds
<1>2. \A t \in Holds(r) : t > db.seq
  BY GoodTypes DEF IInv
<1> HIDE DEF Holds
<1>3. \A m \in r.msgs : m.task = e.seq
  BY <1>1
<1>4. \A m \in r.msgs, t \in Holds(r) :
        ~ (m.task \in Named(e, {"deployment"}) /\ t \in Named(e, {"provision"}))
  BY <1>3 DEF Named
<1>5. r.pc = "cast_delete" => \E m \in r.msgs : m.task = r.sub
  BY <1>3
<1>6. Bundle(e, r)
  BY <1>4, <1>5 DEF Bundle
<1> QED BY <1>2, <1>6 DEF Moves

LEMMA ApplyLockAccounted ==
  ASSUME IInv, Accounts(db, req, orch, queue), NEW w \in Worker, ApplyLock(w)
  PROVE  Accounted
<1> DEFINE rows == Named(db, {"deploy", "stop_deployment", "reset_environment"})
           r == [Idle EXCEPT !.pc = "locked", !.rows = rows]
<1>1. req' = [req EXCEPT ![w] = r] /\ db' = db /\ orch' = orch /\ queue' = queue
  BY DEF ApplyLock
<1>2. rows \in SUBSET TaskId
  BY DEF Named
<1> HIDE DEF rows
<1>3. r \in Request /\ r.pc = "locked" /\ r.msgs = {} /\ r.sup = NoTask
  BY <1>2 DEF Request, Idle, Places
<1> HIDE DEF r
<1>4. Moves(db, db, req[w], r)
  <2>1. r.pc \notin Making \cup {"cast_delete"}
    BY <1>3 DEF Making
  <2> QED BY <1>3, <2>1, BareMoves
<1>5. SameTasks(db, db')
  BY <1>1, Untouched
<1> QED BY <1>1, <1>3, <1>4, <1>5, QuietTurn

LEMMA ClusterDeletionLockAccounted ==
  ASSUME IInv, Accounts(db, req, orch, queue), NEW w \in Worker,
         ClusterDeletionLock(w)
  PROVE  Accounted
<1> DEFINE rows == Named(db, SubtaskNames \cup TopNames)
           r == [Idle EXCEPT !.pc = "delete_locked", !.rows = rows]
<1>1. req' = [req EXCEPT ![w] = r] /\ db' = db /\ orch' = orch /\ queue' = queue
  BY DEF ClusterDeletionLock
<1>2. rows \in SUBSET TaskId
  BY DEF Named
<1> HIDE DEF rows
<1>3. r \in Request /\ r.pc = "delete_locked" /\ r.msgs = {} /\ r.sup = NoTask
  BY <1>2 DEF Request, Idle, Places
<1> HIDE DEF r
<1>4. Moves(db, db, req[w], r)
  <2>1. r.pc \notin Making \cup {"cast_delete"}
    BY <1>3 DEF Making
  <2> QED BY <1>3, <2>1, BareMoves
<1>5. SameTasks(db, db')
  BY <1>1, Untouched
<1> QED BY <1>1, <1>3, <1>4, <1>5, QuietTurn

LEMMA ResetCheckAccounted ==
  ASSUME IInv, Accounts(db, req, orch, queue), NEW w \in Worker, ResetCheck(w)
  PROVE  Accounted
<1> DEFINE r == [Idle EXCEPT !.pc = "reset_delete"]
<1>1. /\ db' = db /\ orch' = orch /\ queue' = queue
      /\ req' = req \/ req' = [req EXCEPT ![w] = r]
  BY DEF ResetCheck
<1>2. SameTasks(db, db')
  BY <1>1, Untouched
<1>3. r \in Request /\ r.pc = "reset_delete" /\ r.msgs = {} /\ r.sup = NoTask
  BY DEF Request, Idle, Places
<1> HIDE DEF r
<1>4. Moves(db, db, req[w], r)
  <2>1. r.pc \notin Making \cup {"cast_delete"}
    BY <1>3 DEF Making
  <2> QED BY <1>3, <2>1, BareMoves
<1> QED BY <1>1, <1>2, <1>3, <1>4, QuietTurn, NothingTurn

\* Tasks without a supertask may be deleted by themselves.
LEMMA KeptDeleteTop ==
  ASSUME NEW d, Good(d), NEW names \in SUBSET TopNames,
         NEW S \in SUBSET Named(d, names)
  PROVE  LET e == DeleteTasks(d, S)
         IN Good(e) /\ Kept(d, e) /\ e.seq = d.seq /\ e.cluster = d.cluster
<1>1. S \in SUBSET TaskId
  BY DEF Named
<1>2. \A t \in S : d.task[t].parent = NoTask
  BY <1>1 DEF Good, Shape, Named, TopNames, SubtaskNames, Checks
<1> QED BY <1>1, <1>2, KeptDelete, DeleteTopTasks

LEMMA ApplyRefuseAccounted ==
  ASSUME IInv, Accounts(db, req, orch, queue), NEW w \in Worker, ApplyRefuse(w)
  PROVE  Accounted
<1>1. Return(w) /\ orch' = orch /\ queue' = queue
  BY DEF ApplyRefuse
<1>2. CASE db' = db
  BY <1>1, <1>2, Untouched, ReturnTurn
<1>3. CASE db' = DeleteTasks(db, PassedOver(w))
  <2>1. PassedOver(w) \in SUBSET Named(db, {"deploy"})
    BY DEF PassedOver, LockedRows, Exists, Named
  <2>2. {"deploy"} \in SUBSET TopNames
    BY DEF TopNames
  <2>3. Good(db') /\ Kept(db, db') /\ db'.seq = db.seq
    BY <1>3, <2>1, <2>2, RequestFacts, KeptDeleteTop
  <2> QED BY <1>1, <2>3, ReturnDeleteTurn
<1> QED BY <1>2, <1>3 DEF ApplyRefuse

\* A worker that holds no message goes on as r, after it has changed rows.
LEMMA RowsTurn ==
  ASSUME IInv, Accounts(db, req, orch, queue), NEW w \in Worker, NEW r \in Request,
         req' = [req EXCEPT ![w] = r], NEW e, Good(e), Kept(db, e), NewRun(db, e),
         NewRows(db, e, req[w], r), Moves(db, e, req[w], r),
         SameTasks(e, db'), orch' = orch, queue' = queue
  PROVE  Accounted
<1>1. Accounts(db', req', orch, queue) /\ Evolves(db, db')
  BY Turn
<1> QED BY <1>1 DEF Accounted

LEMMA ApplyCreateAccounted ==
  ASSUME IInv, Accounts(db, req, orch, queue), NEW w \in Worker, ApplyCreate(w)
  PROVE  Accounted
<1> DEFINE d1 == DeleteTasks(db, Obsolete(w))
<1>1. /\ db' = CreateTask(d1, "deploy", NoTask) /\ db.seq < MaxTask
      /\ orch' = orch /\ queue' = queue
      /\ req[w].pc = "locked" /\ db.cluster # "deleted"
  BY DEF ApplyCreate, At, Alive, Room
<1>2. PICK more \in RequiredForUpdate :
        req' = [req EXCEPT ![w] = [Idle EXCEPT !.pc = "check",
                                              !.sup = db.seq + 1,
                                              !.del = NodesToDelete(db),
                                              !.prov = NodesToProvision(db),
                                              !.dep = NodesToDeploy(db) \cup more]]
  BY DEF ApplyCreate
<1> DEFINE r == [Idle EXCEPT !.pc = "check",
                             !.sup = db.seq + 1,
                             !.del = NodesToDelete(db),
                             !.prov = NodesToProvision(db),
                             !.dep = NodesToDeploy(db) \cup more]
<1>3. LockedRows(w) \in SUBSET Named(db, TopNames)
  BY <1>1, RequestFacts DEF LockedRows, RequestOK, Is, Exists, Named
<1>4. Obsolete(w) \in SUBSET Named(db, TopNames)
  BY <1>3, ObsoleteTop DEF Obsolete
<1>5. Good(d1) /\ Kept(db, d1) /\ d1.seq = db.seq /\ d1.cluster = db.cluster
  BY <1>4, RequestFacts, KeptDeleteTop
<1> HIDE DEF d1
<1>6. /\ Good(db') /\ Kept(db, db') /\ NewRun(db, db') /\ NewRows(db, db', req[w], r)
      /\ db'.seq = db.seq + 1 /\ db'.seq \in TaskId
  <2>1. /\ "deploy" \in SubtaskNames \cup TopNames /\ d1.cluster # "deleted"
        /\ Founding
    BY <1>1, <1>5 DEF TopNames, Founding
  <2> HIDE DEF r
  <2> QED BY <1>1, <1>5, <2>1, TopRows
<1>7. /\ NodesToDelete(db) \in SUBSET Node /\ NodesToProvision(db) \in SUBSET Node
      /\ NodesToDeploy(db) \cup more \in SUBSET Node
  BY DEF NodesToDelete, NodesToProvision, NodesToDeploy, RequiredForUpdate,
         ClusterNodes
<1>8. r \in Request /\ r.pc = "check" /\ r.msgs = {} /\ r.sup = db.seq + 1
  BY <1>6, <1>7 DEF Request, Idle, Places
<1>9. req' = [req EXCEPT ![w] = r]
  BY <1>2
<1> HIDE DEF r
<1>10. Moves(db, db', req[w], r)
  <2>1. r.pc \notin Making \cup {"cast_delete"}
    BY <1>8 DEF Making
  <2>2. req[w].sup <= db.seq /\ req[w].sup \in Int
    <3>1. req[w].sup <= db.seq
      BY DEF Accounts, Sources, Owned
    <3>2. req[w].sup \in Int
      BY RequestFacts DEF Request, TaskId, NoTask
    <3> QED BY <3>1, <3>2
  <2>3. db.seq \in Int
    BY GoodTypes DEF IInv
  <2> QED BY <1>6, <1>8, <2>1, <2>2, <2>3, BareMoves
<1>11. SameTasks(db', db')
  BY <1>6 DEF SameTasks, Good
<1> QED BY <1>1, <1>6, <1>8, <1>9, <1>10, <1>11, RowsTurn

LEMMA AfterNames ==
  ASSUME NEW r
  PROVE  /\ AfterCheck(r) \in {"delete", "provision", "deploy", "start"}
         /\ AfterDelete(r) \in {"delete", "provision", "deploy", "start"}
         /\ AfterProvision(r) \in {"delete", "provision", "deploy", "start"}
BY DEF AfterCheck, AfterDelete, AfterProvision

LEMMA ChecksPassedAccounted ==
  ASSUME IInv, Accounts(db, req, orch, queue), NEW w \in Worker,
         req[w].pc \in {"check", "check_before"},
         Goto(w, AfterCheck(req[w])), db' = db, orch' = orch, queue' = queue
  PROVE  Accounted
<1> DEFINE r == [req[w] EXCEPT !.pc = AfterCheck(req[w])]
<1>1. req' = [req EXCEPT ![w] = r]
  BY DEF Goto
<1>2. AfterCheck(req[w]) \in Parts \cup Rest
  BY AfterPlaces
<1>3. req[w].pc \in SupPlaces
  BY DEF SupPlaces
<1>4. r \in Request
  BY <1>2, <1>3, RequestFacts, MoveOK
<1>5. r.msgs = req[w].msgs /\ r.sup = req[w].sup /\ r.pc = AfterCheck(req[w])
  BY RequestFacts DEF Request
<1> HIDE DEF r
<1>6. Moves(db, db, req[w], r)
  <2>1. r.pc \in {"delete", "provision", "deploy", "start"}
    BY <1>5, AfterNames
  <2>2. /\ r.pc \notin Making \cup {"cast_delete"} /\ r.pc \notin Checking
        /\ req[w].pc \notin Bundling
    BY <2>1 DEF Making, Checking, Bundling
  <2>3. Bundle(db, req[w])
    BY DEF Accounts, Sources, Owned
  <2> QED BY <1>3, <1>5, <2>2, <2>3, GoesOn
<1>7. SameTasks(db, db')
  BY Untouched
<1> QED BY <1>1, <1>4, <1>6, <1>7, QuietTurn

\* A task fails, and the request returns.
LEMMA FailsAccounted ==
  ASSUME IInv, Accounts(db, req, orch, queue), NEW w \in Worker, Return(w),
         NEW e, Good(e), Kept(db, e), NewRun(db, e), NewRows(db, e, req[w], Idle),
         NEW t \in TaskId, Exists(e, t), e.task[t].name # "deploy",
         e.task[t].parent \in {NoTask, req[w].sup},
         t \in Holds(req[w]) \/ t > db.seq \/ e.task[t].name \notin Progressing,
         e.seq > db.seq => t = e.seq,
         SameTasks(UpdateTask(e, t, "error"), db'), orch' = orch, queue' = queue
  PROVE  Accounted
<1>1. req' = [req EXCEPT ![w] = Idle]
  BY DEF Return
<1>2. Accounts(db', req', orch, queue) /\ Evolves(db, db')
  BY <1>1, FailTurn
<1> QED BY <1>2 DEF Accounted

\* As above, when nothing else is written.
LEMMA JustFailsAccounted ==
  ASSUME IInv, Accounts(db, req, orch, queue), NEW w \in Worker, Return(w),
         NEW e, Good(e), Kept(db, e), NewRun(db, e), NewRows(db, e, req[w], Idle),
         NEW t \in TaskId, Exists(e, t), e.task[t].name # "deploy",
         e.task[t].parent \in {NoTask, req[w].sup},
         t \in Holds(req[w]) \/ t > db.seq \/ e.task[t].name \notin Progressing,
         e.seq > db.seq => t = e.seq,
         db' = UpdateTask(e, t, "error"), orch' = orch, queue' = queue
  PROVE  Accounted
<1>1. Good(UpdateTask(e, t, "error"))
  BY UpdateTaskGood DEF TaskStatuses
<1>2. SameTasks(UpdateTask(e, t, "error"), db')
  BY <1>1 DEF SameTasks, Good
<1> QED BY <1>2, FailsAccounted

LEMMA ApplyCheckAccounted ==
  ASSUME IInv, Accounts(db, req, orch, queue), NEW w \in Worker, ApplyCheck(w)
  PROVE  Accounted
<1> DEFINE e == CreateTask(db, "check_networks", req[w].sup)
<1>0. /\ req[w].pc = "check" /\ req[w].sup \in TaskId
      /\ db.task[req[w].sup].name = "deploy" /\ db.cluster # "deleted"
  BY SupExists DEF ApplyCheck
<1>1. orch' = orch /\ queue' = queue
  BY DEF ApplyCheck
<1>2. CASE Goto(w, AfterCheck(req[w])) /\ db' = db
  BY <1>0, <1>1, <1>2, ChecksPassedAccounted
<1>3. CASE Room /\ Goto(w, "check_before") /\ db' = e
  <2> DEFINE r == [req[w] EXCEPT !.pc = "check_before"]
  <2>1. req' = [req EXCEPT ![w] = r]
    BY <1>3 DEF Goto
  <2>2. r \in Request
    <3>1. "check_before" \in Parts /\ req[w].pc \in SupPlaces
      BY <1>0 DEF Parts, SupPlaces
    <3> QED BY <3>1, RequestFacts, MoveOK
  <2>3. r.msgs = req[w].msgs /\ r.sup = req[w].sup /\ r.pc = "check_before"
    BY RequestFacts DEF Request
  <2> HIDE DEF r
  <2>4. /\ Good(e) /\ Kept(db, e) /\ NewRun(db, e) /\ NewRows(db, e, req[w], r)
    BY <1>0, <1>3, CheckRows DEF Room
  <2> HIDE DEF e
  <2>5. Moves(db, e, req[w], r)
    <3>1. /\ r.pc \notin Making \cup {"cast_delete"} /\ r.pc \notin Bundling
          /\ req[w].pc \notin Bundling /\ req[w].pc \in Checking
          /\ req[w].pc \in SupPlaces
      BY <1>0, <2>3 DEF Making, Bundling, Checking, SupPlaces
    <3>2. Holds(r) \subseteq Holds(req[w])
      BY <2>3, <3>1 DEF Holds
    <3>3. Bundle(db, req[w])
      BY DEF Accounts, Sources, Owned
    <3>4. /\ \A m \in req[w].msgs : m.task \in TaskId /\ m.task <= db.seq
          /\ \A t \in Holds(req[w]) : t \in TaskId /\ t <= db.seq
      BY GivenOut
    <3>5. Good(db)
      BY DEF IInv
    <3>6. Bundle(e, req[w])
      BY <2>4, <3>3, <3>4, <3>5, BundleKept
    <3> HIDE DEF Holds
    <3>7. Bundle(e, r)
      BY <2>3, <3>1, <3>2, <3>6 DEF Bundle
    <3> QED BY <2>3, <3>1, <3>2, <3>7 DEF Moves
  <2>6. SameTasks(e, db')
    BY <1>3, <2>4 DEF SameTasks, Good
  <2> QED BY <1>1, <2>1, <2>2, <2>4, <2>5, <2>6, RowsTurn
<1>4. CASE Room /\ Return(w) /\ db' = UpdateTask(e, db.seq + 1, "error")
  <2>1. /\ Good(e) /\ Kept(db, e) /\ NewRun(db, e) /\ NewRows(db, e, req[w], Idle)
        /\ e.seq = db.seq + 1 /\ e.seq \in TaskId
        /\ e.task[e.seq] = [name |-> "check_networks", status |-> "running",
                            parent |-> req[w].sup]
    <3>1. Idle = Idle
      OBVIOUS
    <3> QED BY <1>0, <1>4, <3>1, CheckRows DEF Room
  <2> HIDE DEF e
  <2>2. /\ Exists(e, e.seq) /\ e.task[e.seq].name = "check_networks"
        /\ e.task[e.seq].parent \in {NoTask, req[w].sup}
    BY <2>1 DEF Exists
  <2>3. e.seq > db.seq
    BY <2>1, GoodTypes DEF IInv
  <2> QED BY <1>1, <1>4, <2>1, <2>2, <2>3, JustFailsAccounted
<1> QED BY <1>2, <1>3, <1>4 DEF ApplyCheck

LEMMA ApplyCheckBeforeAccounted ==
  ASSUME IInv, Accounts(db, req, orch, queue), NEW w \in Worker, ApplyCheckBefore(w)
  PROVE  Accounted
<1> DEFINE e == NewPart(w, "check_before_deployment")
<1>0. /\ req[w].pc = "check_before" /\ req[w].sup \in TaskId
      /\ db.task[req[w].sup].name = "deploy" /\ db.cluster # "deleted"
  BY SupExists DEF ApplyCheckBefore
<1>1. orch' = orch /\ queue' = queue
  BY DEF ApplyCheckBefore
<1>2. CASE Goto(w, AfterCheck(req[w])) /\ db' = db
  BY <1>0, <1>1, <1>2, ChecksPassedAccounted
<1>3. CASE Room /\ Return(w) /\ db' = UpdateTask(e, db.seq + 1, "error")
  <2>1. /\ Good(e) /\ Kept(db, e) /\ NewRun(db, e) /\ NewRows(db, e, req[w], Idle)
        /\ e.seq = db.seq + 1 /\ e.seq \in TaskId
        /\ e.task[e.seq] = [name |-> "check_before_deployment", status |-> "running",
                            parent |-> req[w].sup]
    <3>1. /\ "check_before_deployment" \in SubtaskNames \ {"check_networks"}
          /\ "check_before_deployment" \notin Reporting
      BY DEF SubtaskNames, Checks, Reporting, Progressing
    <3> QED BY <1>0, <1>3, <3>1, PartRows DEF Room
  <2> HIDE DEF e
  <2>2. /\ Exists(e, e.seq) /\ e.task[e.seq].name = "check_before_deployment"
        /\ e.task[e.seq].parent \in {NoTask, req[w].sup}
    BY <2>1 DEF Exists
  <2>3. e.seq > db.seq
    BY <2>1, GoodTypes DEF IInv
  <2> QED BY <1>1, <1>3, <2>1, <2>2, <2>3, JustFailsAccounted
<1> QED BY <1>2, <1>3 DEF ApplyCheckBefore

LEMMA ApplyDeleteAccounted ==
  ASSUME IInv, Accounts(db, req, orch, queue), NEW w \in Worker, ApplyDelete(w)
  PROVE  Accounted
<1> DEFINE e == NewPart(w, "node_deletion")
           m == Msg("remove_nodes", db.seq + 1, ToErase(db), NoTask)
           r == [req[w] EXCEPT !.pc = "cast_delete", !.sub = db.seq + 1,
                                !.msgs = {m}]
<1>0. /\ req[w].pc = "delete" /\ req[w].sup \in TaskId
      /\ db.task[req[w].sup].name = "deploy" /\ db.cluster # "deleted"
  BY SupExists DEF ApplyDelete
<1>1. /\ orch' = orch /\ queue' = queue /\ Room
      /\ db' = EraseDiscovered(e) /\ req' = [req EXCEPT ![w] = r]
  BY DEF ApplyDelete
<1>2. db.seq + 1 \in TaskId
  <2>1. db.seq \in Int /\ db.seq >= 0 /\ db.seq < MaxTask
    BY <1>1, GoodTypes DEF Room, IInv
  <2> QED BY <2>1, MaxTaskAssumption DEF TaskId
<1>3. m \in Message /\ m.task = db.seq + 1
  BY <1>2, ToEraseType, MsgType DEF Methods
<1> HIDE DEF m
<1>4. /\ r \in Request /\ r.pc = "cast_delete" /\ r.msgs = {m}
      /\ r.sub = db.seq + 1 /\ r.sup = req[w].sup
  <2>1. "cast_delete" \in Places /\ {m} \in SUBSET Message
    BY <1>3 DEF Places
  <2>2. r \in Request
    BY <1>2, <2>1, RequestFacts DEF Request
  <2> QED BY <2>2, RequestFacts DEF Request
<1> HIDE DEF r
<1>5. /\ r.pc \notin Making /\ r.pc \notin Checking /\ r.pc \in SupPlaces
      /\ req[w].pc \in SupPlaces
  BY <1>0, <1>4 DEF Making, Checking, SupPlaces
<1>6. /\ Good(e) /\ Kept(db, e) /\ NewRun(db, e) /\ NewRows(db, e, req[w], r)
      /\ e.seq = db.seq + 1
      /\ e.task[e.seq] = [name |-> "node_deletion", status |-> "running",
                          parent |-> req[w].sup]
  <2>1. "node_deletion" \in SubtaskNames \ {"check_networks"}
    BY DEF SubtaskNames, Checks
  <2> QED BY <1>0, <1>1, <1>4, <1>5, <2>1, PartRows DEF Room
<1> HIDE DEF e
<1>7. Moves(db, e, req[w], r)
  <2>1. Holds(r) = {db.seq + 1}
    BY <1>3, <1>4, <1>5 DEF Holds
  <2>2. db.seq < e.seq
    BY <1>6, GoodTypes DEF IInv
  <2> HIDE DEF Holds
  <2> QED BY <1>4, <1>5, <1>6, <2>1, <2>2, NewMoves
<1>8. SameTasks(e, db')
  BY <1>1, <1>6, EraseDiscoveredSame DEF Good
<1> QED BY <1>1, <1>4, <1>6, <1>7, <1>8, RowsTurn

\* A worker gives the orchestrator its messages.
LEMMA CastAccounted ==
  ASSUME IInv, Accounts(db, req, orch, queue), NEW w \in Worker,
         NEW r \in Request, req' = [req EXCEPT ![w] = r],
         orch' = orch \cup req[w].msgs,
         r.msgs = {}, r.pc \notin Making \cup {"cast_delete"},
         \/ r.sup = NoTask
         \/ /\ r.sup = req[w].sup
            /\ r.pc \in SupPlaces => req[w].pc \in SupPlaces
            /\ r.pc \notin Checking
            /\ \A m \in req[w].msgs : m.task \notin Named(db, {"provision", "deployment"}),
         db' = db, queue' = queue
  PROVE  Accounted
<1>1. Accounts(db, req', orch', queue)
  BY CastAccounts
<1>2. Settles(db, db)
  BY Untouched, SettlesSame
<1> QED BY <1>1, <1>2 DEF Accounted, Evolves

\* The message of a deletion under way is for that deletion.
LEMMA DeletionMessages ==
  ASSUME IInv, Accounts(db, req, orch, queue), NEW w \in Worker, At(w, "cast_delete")
  PROVE  /\ req[w].pc = "cast_delete" /\ req[w].sub \in TaskId
         /\ Exists(db, req[w].sub) /\ db.task[req[w].sub].name = "node_deletion"
         /\ \A m \in req[w].msgs : m.task = req[w].sub
         /\ req[w].sub \in Holds(req[w])
<1>1. /\ req[w].pc = "cast_delete" /\ req[w].sub \in TaskId
      /\ Exists(db, req[w].sub) /\ db.task[req[w].sub].name = "node_deletion"
  <2>1. "cast_delete" \in SubPlaces /\ SubName["cast_delete"] = "node_deletion"
    BY DEF SubPlaces, SubName
  <2> QED BY <2>1, SubExists
<1>2. Bundle(db, req[w])
  BY DEF Accounts, Sources, Owned
<1>3. PICK n \in req[w].msgs : n.task = req[w].sub
  BY <1>1, <1>2 DEF Bundle
<1>4. req[w].pc \notin Bundling
  BY <1>1 DEF Bundling
<1>5. \A m, k \in req[w].msgs : m = k
  BY <1>2, <1>4 DEF Bundle
<1>6. \A m \in req[w].msgs : m.task = req[w].sub
  BY <1>3, <1>5
<1> QED BY <1>1, <1>3, <1>6 DEF Holds

LEMMA ApplyCastDeleteAccounted ==
  ASSUME IInv, Accounts(db, req, orch, queue), NEW w \in Worker, ApplyCastDelete(w)
  PROVE  Accounted
<1> DEFINE r == [req[w] EXCEPT !.pc = AfterDelete(req[w]), !.msgs = {}]
<1>0. At(w, "cast_delete")
  BY DEF ApplyCastDelete
<1>1. /\ req[w].pc = "cast_delete" /\ orch' = orch \cup req[w].msgs
      /\ db' = db /\ queue' = queue /\ req' = [req EXCEPT ![w] = r]
  BY DEF ApplyCastDelete, At
<1>2. AfterDelete(req[w]) \in Parts \cup Rest
  BY AfterPlaces
<1>3. req[w].pc \in SupPlaces
  BY <1>1 DEF SupPlaces
<1>4. r \in Request
  BY <1>2, <1>3, RequestFacts, MoveSentOK
<1>5. r.msgs = {} /\ r.sup = req[w].sup /\ r.pc = AfterDelete(req[w])
  BY RequestFacts DEF Request
<1> HIDE DEF r
<1>6. r.pc \notin Making \cup {"cast_delete"} /\ r.pc \notin Checking
  <2>1. r.pc \in {"delete", "provision", "deploy", "start"}
    BY <1>5, AfterNames
  <2> QED BY <2>1 DEF Making, Checking
<1>7. \A m \in req[w].msgs : m.task \notin Named(db, {"provision", "deployment"})
  <2>1. /\ db.task[req[w].sub].name = "node_deletion"
        /\ \A m \in req[w].msgs : m.task = req[w].sub
    BY <1>0, DeletionMessages
  <2> QED BY <2>1 DEF Named
<1> QED BY <1>1, <1>3, <1>4, <1>5, <1>6, <1>7, CastAccounted

\* The first or second subtask with a message: the one before it is a
\* provisioning, if there is one.
LEMMA PartMoves ==
  ASSUME IInv, Accounts(db, req, orch, queue), NEW w \in Worker,
         NEW e, Good(e), Kept(db, e), e.seq = db.seq + 1,
         e.task[e.seq].parent = req[w].sup, req[w].sup \in TaskId,
         req[w].pc \in {"provision", "deploy"},
         NEW r, r.pc \in {"provision_message", "deploy_message"},
         r.sub = e.seq, r.sup = req[w].sup, r.msgs = req[w].msgs
  PROVE  Moves(db, e, req[w], r)
<1> DEFINE q == req[w]
<1>0. /\ Good(db) /\ Owns(db, q, orch, queue) /\ Bundle(db, q)
      /\ db.seq \in Int
  BY GoodTypes DEF IInv, Accounts, Sources, Owned
<1>1. /\ r.pc \in Making /\ r.pc \notin Bundling /\ r.pc # "cast_delete"
      /\ q.pc \notin Making /\ q.pc \notin Bundling /\ q.pc \in SupPlaces
      /\ r.pc \notin Checking
  BY DEF Making, Bundling, SupPlaces, Checking
<1>2. /\ \A m \in q.msgs : m.task \in TaskId /\ m.task <= db.seq
      /\ \A t \in Holds(q) : t \in TaskId /\ t <= db.seq
  BY GivenOut
<1>3. Bundle(e, q)
  BY <1>0, <1>2, BundleKept
<1>4. \A t \in Holds(r) : t \in Holds(q) \/ t = e.seq
  BY DEF Holds
<1>5. \A m \in q.msgs : m.task \in Holds(q)
  BY DEF Holds
<1>6. r.sup # NoTask
  BY DEF TaskId, NoTask
<1> HIDE DEF Holds
<1>7. ASSUME NEW m \in r.msgs, NEW t \in Holds(r),
             m.task \in Named(e, {"deployment"}), t \in Named(e, {"provision"}),
             Together(e, t, m.task)
      PROVE  m.other = t
  <2>1. CASE t \in Holds(q)
    BY <1>3, <1>7, <2>1 DEF Bundle
  <2>2. CASE t = e.seq
    <3>1. e.task[m.task].parent = q.sup /\ e.task[m.task].name = "deployment"
      BY <1>7, <2>2 DEF Together, Named
    <3>2. e.task[m.task] = db.task[m.task]
      BY <1>2, <3>1 DEF Kept
    <3>3. m.task \in Named(db, {"provision", "deployment"})
      BY <1>2, <3>1, <3>2 DEF Named
    <3> QED BY <1>0, <1>1, <1>6, <3>1, <3>2, <3>3 DEF Owns
  <2> QED BY <1>4, <1>7, <2>1, <2>2
<1>8. Bundle(e, r)
  <2>1. \A m \in r.msgs : m.task # r.sub
    BY <1>0, <1>2
  <2>2. \A m, n \in r.msgs : r.pc \notin Bundling \/ m.task = n.task => m = n
    BY <1>0, <1>1 DEF Bundle
  <2> QED BY <1>1, <1>7, <2>1, <2>2 DEF Bundle
<1>9. e.seq > db.seq
  BY <1>0
<1> QED BY <1>1, <1>4, <1>8, <1>9 DEF Moves

LEMMA ApplySubtaskAccounted ==
  ASSUME IInv, Accounts(db, req, orch, queue), NEW w \in Worker,
         NEW pc \in {"provision", "deploy"}, NEW name, NEW next,
         \/ name = "provision" /\ next = "provision_message"
         \/ name = "deployment" /\ next = "deploy_message",
         ApplySubtask(w, pc, name, next)
  PROVE  Accounted
<1> DEFINE e == NewPart(w, name)
           r == [req[w] EXCEPT !.pc = next, !.sub = db.seq + 1]
<1>0. /\ req[w].pc = pc /\ req[w].sup \in TaskId
      /\ db.task[req[w].sup].name = "deploy" /\ db.cluster # "deleted"
  BY SupExists DEF ApplySubtask
<1>1. /\ orch' = orch /\ queue' = queue /\ db.seq < MaxTask
      /\ db' = e /\ req' = [req EXCEPT ![w] = r]
  BY DEF ApplySubtask, Room
<1>2. db.seq + 1 \in TaskId
  <2>1. db.seq \in Int /\ db.seq >= 0
    BY GoodTypes DEF IInv
  <2> QED BY <1>1, <2>1, MaxTaskAssumption DEF TaskId
<1>3. /\ r \in Request /\ r.pc = next /\ r.sub = db.seq + 1
      /\ r.sup = req[w].sup /\ r.msgs = req[w].msgs
  <2>1. next \in Places
    BY DEF Places
  <2>2. r \in Request
    BY <1>2, <2>1, RequestFacts DEF Request
  <2> QED BY <2>2, RequestFacts DEF Request
<1> HIDE DEF r
<1>4. /\ Good(e) /\ Kept(db, e) /\ NewRun(db, e) /\ NewRows(db, e, req[w], r)
      /\ e.seq = db.seq + 1
      /\ e.task[e.seq] = [name |-> name, status |-> "running",
                          parent |-> req[w].sup]
  <2>1. name \in SubtaskNames \ {"check_networks"}
    BY DEF SubtaskNames, Checks
  <2>2. /\ req[w].pc \in SupPlaces /\ r.pc \notin Checking
        /\ name = "deployment" => r.pc \notin SupPlaces
    BY <1>0, <1>3 DEF Checking, SupPlaces
  <2> QED BY <1>0, <1>1, <1>3, <2>1, <2>2, PartRows
<1> HIDE DEF e
<1>5. Moves(db, e, req[w], r)
  BY <1>0, <1>3, <1>4, PartMoves
<1>6. SameTasks(e, db')
  BY <1>1, <1>4 DEF SameTasks, Good
<1> QED BY <1>1, <1>3, <1>4, <1>5, <1>6, RowsTurn

LEMMA ApplyPartAccounted ==
  ASSUME IInv, Accounts(db, req, orch, queue), NEW w \in Worker,
         ApplyProvision(w) \/ ApplyDeploy(w)
  PROVE  Accounted
BY ApplySubtaskAccounted DEF ApplyProvision, ApplyDeploy

\* The task whose message a request is about to make.
LEMMA MakingFacts ==
  ASSUME IInv, Accounts(db, req, orch, queue), NEW w \in Worker,
         NEW pc \in Making, At(w, pc)
  PROVE  /\ req[w].pc = pc /\ req[w].sub \in TaskId /\ Exists(db, req[w].sub)
         /\ db.task[req[w].sub].name # "deploy"
         /\ db.task[req[w].sub].name =
              IF pc = "deploy_message" THEN "deployment" ELSE "provision"
         /\ req[w].sub \in Holds(req[w])
         /\ db.task[req[w].sub].parent \in {NoTask, req[w].sup}
<1>1. pc \in SubPlaces
      /\ SubName[pc] = IF pc = "deploy_message" THEN "deployment" ELSE "provision"
  BY DEF Making, SubPlaces, SubName
<1>2. /\ req[w].pc = pc /\ req[w].sub \in TaskId /\ Exists(db, req[w].sub)
      /\ db.task[req[w].sub].name = SubName[pc] /\ SubName[pc] # "deploy"
  BY <1>1, SubExists
<1>3. req[w].sub \in Holds(req[w])
  BY <1>2 DEF Holds
<1>4. req[w].sub \in Named(db, Reporting)
  BY <1>1, <1>2, ReportingNames DEF Named
<1>5. db.task[req[w].sub].parent \in {NoTask, req[w].sup}
  BY <1>3, <1>4 DEF Accounts, Sources, Owned
<1> QED BY <1>1, <1>2, <1>3, <1>5

\* Making the message fails: so does the task, and the request returns.
LEMMA MessageFailsAccounted ==
  ASSUME IInv, Accounts(db, req, orch, queue), NEW w \in Worker,
         NEW pc \in Making, At(w, pc), NEW d, SameTasks(db, d),
         Return(w), SameTasks(UpdateTask(d, req[w].sub, "error"), db'),
         orch' = orch, queue' = queue
  PROVE  Accounted
<1>1. Good(db) /\ Good(d) /\ Kept(db, d) /\ d.seq = db.seq /\ d.task = db.task
  BY SameTasksGood, KeptSame DEF IInv, SameTasks
<1>2. NewRun(db, d) /\ NewRows(db, d, req[w], Idle)
  BY <1>1, NoNewRows
<1> DEFINE t == req[w].sub
<1>3. /\ t \in TaskId /\ Exists(d, t) /\ d.task[t].name # "deploy"
      /\ d.task[t].parent \in {NoTask, req[w].sup} /\ t \in Holds(req[w])
  BY <1>1, MakingFacts DEF Exists
<1>4. ~ (d.seq > db.seq)
  BY <1>1, GoodTypes
<1>5. SameTasks(UpdateTask(d, t, "error"), db')
  OBVIOUS
<1> HIDE DEF t
<1> QED BY <1>1, <1>2, <1>3, <1>4, <1>5, FailsAccounted

\* The first message of a request is made.
LEMMA MadeMoves ==
  ASSUME IInv, Accounts(db, req, orch, queue), NEW w \in Worker,
         req[w].pc \in Making, NEW m, m.task = req[w].sub,
         NEW r, r.msgs = {m}, r.sup = req[w].sup,
         r.pc \notin Making \cup {"cast_delete"},
         r.pc \in SupPlaces => req[w].pc \in SupPlaces, r.pc \notin Checking
  PROVE  Moves(db, db, req[w], r)
<1>1. Holds(r) = {m.task} /\ m.task \in Holds(req[w])
  BY DEF Holds
<1> HIDE DEF Holds
<1>2. Bundle(db, r)
  BY <1>1 DEF Bundle, Named
<1> QED BY <1>1, <1>2 DEF Moves

LEMMA ApplyProvisionMessageAccounted ==
  ASSUME IInv, Accounts(db, req, orch, queue), NEW w \in Worker,
         ApplyProvisionMessage(w)
  PROVE  Accounted
<1> DEFINE m == Msg("provision", req[w].sub, req[w].prov, NoTask)
           r == [req[w] EXCEPT !.pc = "provision_kept", !.msgs = {m}]
<1>0. At(w, "provision_message") /\ "provision_message" \in Making
  BY DEF ApplyProvisionMessage, Making
<1>1. CASE MessageFails(w, db)
  <2>1. SameTasks(db, db)
    BY Untouched
  <2>2. Good(UpdateTask(db, req[w].sub, "error"))
    BY <1>0, MakingFacts, UpdateTaskGood DEF IInv, TaskStatuses
  <2>3. SameTasks(UpdateTask(db, req[w].sub, "error"), db')
    BY <1>1, <2>2 DEF MessageFails, SameTasks, Good
  <2> QED BY <1>0, <1>1, <2>1, <2>3, MessageFailsAccounted DEF MessageFails
<1>2. CASE req' = [req EXCEPT ![w] = r] /\ UNCHANGED <<db, orch, queue, budget>>
  <2>1. req[w].sub \in TaskId /\ req[w].pc = "provision_message"
    BY <1>0, MakingFacts
  <2>2. m \in Message /\ m.task = req[w].sub
    <3>1. req[w].prov \in SUBSET Node
      BY RequestFacts DEF Request
    <3> QED BY <2>1, <3>1, MsgType DEF Methods
  <2> HIDE DEF m
  <2>3. r \in Request /\ r.pc = "provision_kept" /\ r.msgs = {m} /\ r.sup = req[w].sup
    <3>1. "provision_kept" \in Places /\ {m} \in SUBSET Message
      BY <2>2 DEF Places
    <3>2. r \in Request
      BY <3>1, RequestFacts DEF Request
    <3> QED BY <3>2, RequestFacts DEF Request
  <2> HIDE DEF r
  <2>4. /\ r.pc \notin Making \cup {"cast_delete"} /\ r.pc \notin Checking
        /\ req[w].pc \in SupPlaces /\ req[w].pc \in Making
    BY <2>1, <2>3 DEF Making, Checking, SupPlaces
  <2>5. Moves(db, db, req[w], r)
    BY <2>2, <2>3, <2>4, MadeMoves
  <2> QED BY <1>2, <2>3, <2>5, Untouched, QuietTurn
<1> QED BY <1>1, <1>2 DEF ApplyProvisionMessage

\* The message of a deployment joins that of the provisioning it waits for.
LEMMA JoinedMoves ==
  ASSUME IInv, Accounts(db, req, orch, queue), NEW w \in Worker,
         At(w, "deploy_message"), NEW m, m.task = req[w].sub,
         \A n \in req[w].msgs : m.other = n.task,
         NEW r, r.msgs = req[w].msgs \cup {m}, r.sup = req[w].sup,
         r.pc = "deploy_kept"
  PROVE  Moves(db, db, req[w], r)
<1> DEFINE q == req[w]
<1>0. /\ q.pc = "deploy_message" /\ db.task[q.sub].name = "deployment"
      /\ q.sub \in Holds(q) /\ Bundle(db, q)
  <2>1. "deploy_message" \in Making
    BY DEF Making
  <2> QED BY <2>1, MakingFacts DEF Accounts, Sources, Owned
<1>1. /\ r.pc \notin Making /\ r.pc # "cast_delete" /\ r.pc \notin SupPlaces
      /\ r.pc \notin Checking /\ q.pc \in Making /\ q.pc \notin Bundling
      /\ r.pc \in Bundling
  BY <1>0 DEF Making, SupPlaces, Checking, Bundling
<1>2. \A t \in Holds(r) : t = q.sub \/ \E n \in q.msgs : t = n.task
  BY <1>1 DEF Holds
<1>3. Holds(r) \subseteq Holds(q)
  BY <1>1 DEF Holds
<1> HIDE DEF Holds
<1>4. /\ \A n \in q.msgs : n.task # q.sub
      /\ \A n, k \in q.msgs : n = k
  BY <1>0, <1>1 DEF Bundle
<1>5. \A n, k \in r.msgs : n.task = k.task => n = k
  BY <1>4
<1>6. ASSUME NEW n \in r.msgs, NEW t \in Holds(r),
             n.task \in Named(db, {"deployment"}), t \in Named(db, {"provision"})
      PROVE  n.other = t
  <2>1. t # q.sub
    BY <1>0, <1>6 DEF Named
  <2>2. PICK k \in q.msgs : t = k.task
    BY <1>2, <1>6, <2>1
  <2>3. n.task # t
    BY <1>6 DEF Named
  <2>4. n = m
    BY <1>4, <1>6, <2>2, <2>3
  <2> QED BY <2>2, <2>4
<1>7. Bundle(db, r)
  BY <1>1, <1>5, <1>6 DEF Bundle
<1> QED BY <1>1, <1>3, <1>7 DEF Moves

LEMMA ApplyDeployMessageAccounted ==
  ASSUME IInv, Accounts(db, req, orch, queue), NEW w \in Worker,
         ApplyDeployMessage(w)
  PROVE  Accounted
<1> DEFINE S == req[w].dep
           d == IF Known(db, S) = S THEN ToProvisioned(db, S) ELSE db
           joined == {m.task : m \in req[w].msgs}
           other == IF joined = {} THEN NoTask ELSE CHOOSE t \in joined : TRUE
           msg == Msg("deploy", req[w].sub, S, other)
           r == [req[w] EXCEPT !.pc = "deploy_kept", !.msgs = req[w].msgs \cup {msg}]
<1>0. At(w, "deploy_message") /\ "deploy_message" \in Making
  BY DEF ApplyDeployMessage, Making
<1>1. SameTasks(db, d)
  <2>1. SameTasks(db, ToProvisioned(db, S))
    BY RequestFacts, ToProvisionedSame
  <2> QED BY <2>1, Untouched
<1>2. /\ req[w].pc = "deploy_message" /\ req[w].sub \in TaskId
      /\ Exists(db, req[w].sub) /\ db.task[req[w].sub].name # "deploy"
  BY <1>0, MakingFacts
<1>3. \/ MessageFails(w, d)
      \/ /\ db' = ClearAddition(d, S) /\ req' = [req EXCEPT ![w] = r]
         /\ UNCHANGED <<orch, queue, budget>>
  BY DEF ApplyDeployMessage
<1>4. CASE MessageFails(w, d)
  <2> HIDE DEF d
  <2>1. Good(d) /\ Exists(d, req[w].sub) /\ d.task[req[w].sub].name # "deploy"
    BY <1>1, <1>2, SameTasksGood DEF IInv, SameTasks, Exists
  <2>2. Good(UpdateTask(d, req[w].sub, "error"))
    BY <1>2, <2>1, UpdateTaskGood DEF TaskStatuses
  <2>3. SameTasks(UpdateTask(d, req[w].sub, "error"), db')
    BY <1>4, <2>2 DEF MessageFails, SameTasks, Good
  <2> QED BY <1>0, <1>1, <1>4, <2>3, MessageFailsAccounted DEF MessageFails
<1>5. CASE /\ db' = ClearAddition(d, S) /\ req' = [req EXCEPT ![w] = r]
           /\ UNCHANGED <<orch, queue, budget>>
  <2>1. SameTasks(db, db')
    <3> HIDE DEF d
    <3>1. SameTasks(d, db')
      BY <1>1, <1>5, ClearAdditionSame DEF SameTasks
    <3> QED BY <1>1, <3>1, SameTasksTransitive
  <2>2. /\ other \in TaskId \cup {NoTask}
        /\ \A n, k \in req[w].msgs : n = k
        /\ \A n \in req[w].msgs : other = n.task
    <3>1. joined \subseteq TaskId
      BY RequestFacts DEF Request, Message
    <3>2. \A n, k \in req[w].msgs : n = k
      <4>1. Bundle(db, req[w]) /\ req[w].pc \notin Bundling
        BY <1>2 DEF Accounts, Sources, Owned, Bundling
      <4> QED BY <4>1 DEF Bundle
    <3>3. \A t \in joined, n \in req[w].msgs : t = n.task
      BY <3>2
    <3>4. \A n \in req[w].msgs : n.task \in joined
      OBVIOUS
    <3> HIDE DEF joined
    <3> QED BY <3>1, <3>2, <3>3, <3>4
  <2> HIDE DEF other, d
  <2>3. msg \in Message /\ msg.task = req[w].sub /\ msg.other = other
    <3>1. S \in SUBSET Node
      BY RequestFacts DEF Request
    <3>2. msg \in Message /\ msg.task = req[w].sub
      BY <1>2, <2>2, <3>1, MsgType DEF Methods
    <3> QED BY <3>2 DEF Msg
  <2> HIDE DEF msg
  <2>4. /\ r \in Request /\ r.pc = "deploy_kept" /\ r.sup = req[w].sup
        /\ r.msgs = req[w].msgs \cup {msg}
    <3>1. /\ "deploy_kept" \in Places
          /\ req[w].msgs \cup {msg} \in SUBSET Message
      BY <2>3, RequestFacts DEF Places, Request
    <3>2. r \in Request
      BY <3>1, RequestFacts DEF Request
    <3> QED BY <3>2, RequestFacts DEF Request
  <2> HIDE DEF r
  <2>5. Moves(db, db, req[w], r)
    BY <1>0, <2>2, <2>3, <2>4, JoinedMoves
  <2> QED BY <1>5, <2>1, <2>4, <2>5, QuietTurn
<1> QED BY <1>3, <1>4, <1>5

\* A request goes on, with its messages, to a place where nothing is made.
LEMMA GoOnAccounted ==
  ASSUME IInv, Accounts(db, req, orch, queue), NEW w \in Worker,
         NEW pc \in {"delete", "provision", "deploy", "start", "mark_cluster",
                     "cast", "reset_create", "cast_reset"},
         NEW r \in Request, r.msgs = req[w].msgs, r.sup = req[w].sup, r.pc = pc,
         req' = [req EXCEPT ![w] = r],
         req[w].pc \in Bundling => r.pc \in Bundling,
         r.pc \in SupPlaces => req[w].pc \in SupPlaces,
         SameTasks(db, db'), orch' = orch, queue' = queue
  PROVE  Accounted
<1>1. r.pc \notin Making \cup {"cast_delete"} /\ r.pc \notin Checking
  BY DEF Making, Checking
<1>2. Bundle(db, req[w])
  BY DEF Accounts, Sources, Owned
<1>3. Moves(db, db, req[w], r)
  BY <1>1, <1>2, GoesOn
<1> QED BY <1>3, QuietTurn

LEMMA ApplyKeepMessageAccounted ==
  ASSUME IInv, Accounts(db, req, orch, queue), NEW w \in Worker,
         ApplyKeepMessage(w)
  PROVE  Accounted
<1> DEFINE pc == IF req[w].pc = "provision_kept" THEN AfterProvision(req[w]) ELSE "start"
           r == [req[w] EXCEPT !.pc = pc]
<1>1. /\ req[w].pc \in {"provision_kept", "deploy_kept"}
      /\ req' = [req EXCEPT ![w] = r]
      /\ db' = db /\ orch' = orch /\ queue' = queue
  BY DEF ApplyKeepMessage, At, Goto
<1>2. pc \in {"delete", "provision", "deploy", "start"} /\ pc \in Parts \cup Rest
  BY AfterPlaces, AfterNames DEF Rest
<1>3. /\ pc \in SupPlaces => req[w].pc \in SupPlaces
      /\ req[w].pc \in Bundling => pc \in Bundling
  BY <1>1 DEF SupPlaces, Bundling
<1> HIDE DEF pc
<1>4. r \in Request
  BY <1>2, <1>3, PartPlaces, RequestFacts, MoveOK
<1>5. r.msgs = req[w].msgs /\ r.sup = req[w].sup /\ r.pc = pc
  BY RequestFacts DEF Request
<1> HIDE DEF r
<1> QED BY <1>1, <1>2, <1>3, <1>4, <1>5, Untouched, GoOnAccounted

\* It does so when it marks the nodes, and then the cluster.
LEMMA ToMarkAccounted ==
  ASSUME IInv, Accounts(db, req, orch, queue), NEW w \in Worker,
         NEW pc \in {"mark_cluster", "cast"}, Goto(w, pc),
         SameTasks(db, db'), orch' = orch, queue' = queue
  PROVE  Accounted
<1> DEFINE r == [req[w] EXCEPT !.pc = pc]
<1>1. r \in Request
  <2>1. pc \in Places
    BY DEF Places
  <2> QED BY <2>1, RequestFacts DEF Request
<1>2. r.msgs = req[w].msgs /\ r.sup = req[w].sup /\ r.pc = pc
  BY RequestFacts DEF Request
<1>3. req' = [req EXCEPT ![w] = r]
  BY DEF Goto
<1> HIDE DEF r
<1>4. r.pc \in Bundling /\ r.pc \notin SupPlaces
  BY <1>2 DEF Bundling, SupPlaces
<1> QED BY <1>1, <1>2, <1>3, <1>4, GoOnAccounted

LEMMA ApplyStartAccounted ==
  ASSUME IInv, Accounts(db, req, orch, queue), NEW w \in Worker,
         ApplyStart(w) \/ ApplyMarkCluster(w)
  PROVE  Accounted
<1>1. PICK pc \in {"mark_cluster", "cast"} : Goto(w, pc)
  BY DEF ApplyStart, ApplyMarkCluster
<1>2. orch' = orch /\ queue' = queue
  BY DEF ApplyStart, ApplyMarkCluster
<1>3. SameTasks(db, db')
  BY RequestFacts, SetNodeStatusSame, SetClusterSame
     DEF ApplyStart, ApplyMarkCluster, NodeStatuses, ClusterStatuses
<1> QED BY <1>1, <1>2, <1>3, ToMarkAccounted

LEMMA SelectMarkAccounted ==
  ASSUME IInv, Accounts(db, req, orch, queue), NEW w \in Worker, SelectMark(w)
  PROVE  Accounted
<1> DEFINE d == MarkProvisioning(db, req[w].prov)
<1>1. /\ db' = SetNodeStatus(d, req[w].dep, "deploying") /\ Goto(w, "cast")
      /\ orch' = orch /\ queue' = queue
  BY DEF SelectMark
<1>2. SameTasks(db, d)
  BY RequestFacts, MarkProvisioningSame
<1> HIDE DEF d
<1>3. SameTasks(d, db')
  BY <1>1, <1>2, SetNodeStatusSame DEF SameTasks, NodeStatuses
<1>4. SameTasks(db, db')
  BY <1>2, <1>3, SameTasksTransitive
<1> QED BY <1>1, <1>4, ToMarkAccounted

\* The worker casts its messages and returns.
LEMMA LastCastAccounted ==
  ASSUME IInv, Accounts(db, req, orch, queue), NEW w \in Worker,
         ApplyCast(w) \/ ClusterDeletionCast(w)
  PROVE  Accounted
<1> DEFINE r == Idle
<1>1. /\ req' = [req EXCEPT ![w] = r] /\ orch' = orch \cup req[w].msgs
      /\ db' = db /\ queue' = queue
  BY DEF ApplyCast, ClusterDeletionCast, Return
<1>2. /\ r \in Request /\ r.msgs = {} /\ r.pc \notin Making \cup {"cast_delete"}
      /\ r.sup = NoTask
  BY IdleOK DEF Idle, Making
<1> HIDE DEF r
<1> QED BY <1>1, <1>2, CastAccounted

LEMMA SelectToProvisionAccounted ==
  ASSUME IInv, Accounts(db, req, orch, queue), NEW w \in Worker,
         SelectToProvision(w)
  PROVE  Accounted
<1>1. PICK S \in SUBSET ClusterNodes(db) :
        req' = [req EXCEPT ![w] = [Idle EXCEPT !.pc = "select_message",
                                               !.sub = db.seq + 1, !.prov = S]]
  BY DEF SelectToProvision
<1> DEFINE r == [Idle EXCEPT !.pc = "select_message", !.sub = db.seq + 1,
                             !.prov = S]
<1>2. /\ db' = CreateTask(db, "provision", NoTask) /\ db.seq < MaxTask
      /\ db.cluster # "deleted" /\ orch' = orch /\ queue' = queue
  BY Accepted DEF SelectToProvision, Room
<1>3. /\ Good(db') /\ Kept(db, db') /\ NewRun(db, db') /\ NewRows(db, db', req[w], r)
      /\ db'.seq = db.seq + 1 /\ db'.seq \in TaskId
      /\ db'.task[db'.seq] = [name |-> "provision", status |-> "running",
                              parent |-> NoTask]
  <2>1. "provision" \in SubtaskNames \cup TopNames
    BY DEF SubtaskNames
  <2>2. Good(db) /\ Kept(db, db)
    BY KeptReflexive DEF IInv
  <2> HIDE DEF r
  <2> QED BY <1>2, <2>1, <2>2, TopRows
<1>4. S \in SUBSET Node
  BY DEF ClusterNodes
<1>5. /\ r \in Request /\ r.pc = "select_message" /\ r.msgs = {} /\ r.sup = NoTask
      /\ r.sub = db.seq + 1
  BY <1>3, <1>4 DEF Request, Places, Idle
<1>6. req' = [req EXCEPT ![w] = r]
  BY <1>1
<1> HIDE DEF r
<1>7. Moves(db, db', req[w], r)
  <2>1. r.pc # "cast_delete" /\ r.pc \notin SupPlaces /\ r.pc \notin Checking
    BY <1>5 DEF SupPlaces, Checking
  <2>2. \A t \in Holds(r) : t = db'.seq
    BY <1>3, <1>5 DEF Holds
  <2>3. db.seq < db'.seq
    BY <1>3, GoodTypes DEF IInv
  <2> HIDE DEF Holds
  <2> QED BY <1>3, <1>5, <2>1, <2>2, <2>3, NewMoves
<1>8. SameTasks(db', db')
  BY <1>3 DEF SameTasks, Good
<1> QED BY <1>2, <1>3, <1>5, <1>6, <1>7, <1>8, RowsTurn

LEMMA SelectMessageAccounted ==
  ASSUME IInv, Accounts(db, req, orch, queue), NEW w \in Worker, SelectMessage(w)
  PROVE  Accounted
<1> DEFINE m == Msg("provision", req[w].sub, req[w].prov, NoTask)
           r == [req[w] EXCEPT !.pc = "select_mark", !.msgs = {m}]
           d == UpdateTask(db, req[w].sub, "error")
<1>0. At(w, "select_message") /\ "select_message" \in Making
  BY DEF SelectMessage, Making
<1>1. /\ req[w].sub \in TaskId /\ Exists(db, req[w].sub)
      /\ db.task[req[w].sub].name # "deploy" /\ req[w].pc = "select_message"
  BY <1>0, MakingFacts
<1>2. orch' = orch /\ queue' = queue
  BY DEF SelectMessage
<1>3. CASE db' = MarkProvisioning(d, req[w].prov) /\ Return(w)
  <2>1. Good(d)
    BY <1>1, UpdateTaskGood DEF IInv, TaskStatuses
  <2>2. SameTasks(d, db')
    <3> HIDE DEF d
    <3> QED BY <1>3, <2>1, MarkProvisioningSame DEF Good
  <2>3. SameTasks(db, db)
    BY Untouched
  <2> QED BY <1>0, <1>2, <1>3, <2>2, <2>3, MessageFailsAccounted
<1>4. CASE db' = db /\ req' = [req EXCEPT ![w] = r]
  <2>1. m \in Message /\ m.task = req[w].sub
    <3>1. req[w].prov \in SUBSET Node
      BY RequestFacts DEF Request
    <3> QED BY <1>1, <3>1, MsgType DEF Methods
  <2> HIDE DEF m
  <2>2. r \in Request /\ r.pc = "select_mark" /\ r.msgs = {m} /\ r.sup = req[w].sup
    <3>1. "select_mark" \in Places /\ {m} \in SUBSET Message
      BY <2>1 DEF Places
    <3>2. r \in Request
      BY <3>1, RequestFacts DEF Request
    <3> QED BY <3>2, RequestFacts DEF Request
  <2> HIDE DEF r
  <2>3. /\ r.pc \notin Making \cup {"cast_delete"} /\ r.pc \notin Checking
        /\ r.pc \notin SupPlaces /\ req[w].pc \in Making
    BY <1>1, <2>2 DEF Making, Checking, SupPlaces
  <2>4. Moves(db, db, req[w], r)
    BY <2>1, <2>2, <2>3, MadeMoves
  <2> QED BY <1>2, <1>4, <2>2, <2>4, Untouched, QuietTurn
<1> QED BY <1>3, <1>4 DEF SelectMessage

\* A deployment of selected nodes, or an update.
LEMMA StartNewAccounted ==
  ASSUME IInv, Accounts(db, req, orch, queue), NEW w \in Worker,
         db.seq < MaxTask, db.cluster # "deleted", NEW name \in {"deployment", "update"},
         NEW d, SameTasks(CreateTask(db, name, NoTask), d),
         NEW S \in SUBSET Node, StartNew(w, d, S), orch' = orch, queue' = queue
  PROVE  Accounted
<1> DEFINE c == CreateTask(db, name, NoTask)
           m == Msg("deploy", d.seq, S, NoTask)
           r == [Idle EXCEPT !.pc = "select_mark", !.sub = d.seq, !.dep = S,
                             !.msgs = {m}]
<1>1. \A s : /\ Good(c) /\ Kept(db, c) /\ NewRun(db, c) /\ NewRows(db, c, req[w], s)
             /\ c.seq = db.seq + 1 /\ c.seq \in TaskId
             /\ c.task[c.seq] = [name |-> name, status |-> "running", parent |-> NoTask]
  <2>1. name \in SubtaskNames \cup TopNames
    BY DEF SubtaskNames, TopNames
  <2>2. Good(db) /\ Kept(db, db)
    BY KeptReflexive DEF IInv
  <2> QED BY <2>1, <2>2, TopRows
<1>2. SameTasks(c, d)
  OBVIOUS
<1> HIDE DEF c
<1>3. d.task = c.task /\ d.seq = c.seq /\ Good(d)
  BY <1>1, <1>2, SameTasksGood DEF SameTasks
<1>4. \A names : Named(d, names) = Named(c, names)
  BY <1>3 DEF Named
<1>5. Kept(db, d) /\ NewRun(db, d) /\ \A s : NewRows(db, d, req[w], s)
  BY <1>1, <1>3, <1>4 DEF Kept, NewRun, NewRows
<1>6. /\ d.seq = db.seq + 1 /\ d.seq \in TaskId /\ d.seq > db.seq
      /\ Exists(d, d.seq) /\ d.task[d.seq].name = name
      /\ d.task[d.seq].parent = NoTask
  BY <1>1, <1>3, GoodTypes DEF Exists, IInv
<1>7. CASE /\ db' = SetNodeStatus(UpdateTask(d, d.seq, "error"), S, "deploying")
           /\ Return(w)
  <2> DEFINE e == UpdateTask(d, d.seq, "error")
  <2>1. Good(e)
    <3>1. d.task[d.seq].name # "deploy" /\ "error" \in TaskStatuses
      BY <1>6 DEF TaskStatuses
    <3> QED BY <1>3, <1>6, <3>1, UpdateTaskGood
  <2>2. SameTasks(e, db')
    <3> HIDE DEF e
    <3>1. db' = SetNodeStatus(e, S, "deploying")
      BY <1>7 DEF e
    <3> QED BY <2>1, <3>1, SetNodeStatusSame DEF Good, NodeStatuses
  <2>3. d.task[d.seq].name # "deploy"
    BY <1>6
  <2> QED BY <1>3, <1>5, <1>6, <1>7, <2>2, <2>3, FailsAccounted
<1>8. CASE db' = ClearAddition(d, S) /\ req' = [req EXCEPT ![w] = r]
  <2>1. SameTasks(d, db')
    BY <1>3, <1>8, ClearAdditionSame DEF Good
  <2>2. m \in Message /\ m.task = d.seq
    BY <1>6, MsgType DEF Methods
  <2> HIDE DEF m
  <2>3. r \in Request /\ r.pc = "select_mark" /\ r.msgs = {m} /\ r.sup = NoTask
    BY <1>6, <2>2 DEF Request, Idle, Places
  <2> HIDE DEF r
  <2>4. Moves(db, d, req[w], r)
    <3>1. /\ r.pc \notin Making /\ r.pc # "cast_delete" /\ r.pc \notin SupPlaces
          /\ r.pc \notin Checking
      BY <2>3 DEF Making, SupPlaces, Checking
    <3>2. \A t \in Holds(r) : t = d.seq
      BY <2>2, <2>3, <3>1 DEF Holds
    <3> HIDE DEF Holds
    <3> QED BY <1>6, <2>3, <3>1, <3>2, NewMoves
  <2> QED BY <1>3, <1>5, <1>8, <2>1, <2>3, <2>4, RowsTurn
<1> QED BY <1>7, <1>8 DEF StartNew

LEMMA SelectToDeployAccounted ==
  ASSUME IInv, Accounts(db, req, orch, queue), NEW w \in Worker, SelectToDeploy(w)
  PROVE  Accounted
<1> DEFINE c == CreateTask(db, "deployment", NoTask)
<1>1. PICK S \in SUBSET ClusterNodes(db) : StartNew(w, ToProvisioned(c, S), S)
  BY DEF SelectToDeploy
<1>2. /\ db.seq < MaxTask /\ db.cluster # "deleted" /\ orch' = orch /\ queue' = queue
  BY Accepted DEF SelectToDeploy, Room
<1>3. Good(c)
  <2>1. "deployment" \in SubtaskNames \cup TopNames
    BY DEF SubtaskNames
  <2> QED BY <1>2, <2>1, NewTopTask DEF IInv
<1>4. SameTasks(c, ToProvisioned(c, S))
  <2> HIDE DEF c
  <2> QED BY <1>3, ToProvisionedSame DEF Good
<1>5. S \in SUBSET Node
  BY DEF ClusterNodes
<1> QED BY <1>1, <1>2, <1>4, <1>5, StartNewAccounted

LEMMA UpdateCreateAccounted ==
  ASSUME IInv, Accounts(db, req, orch, queue), NEW w \in Worker, UpdateCreate(w)
  PROVE  Accounted
<1> DEFINE c == CreateTask(db, "update", NoTask)
           d1 == SetCluster(c, "update")
<1>1. PICK S \in ToUpgrade :
        StartNew(w, SetNodeStatus(GiveRoles(d1, S), S, "provisioned"), S)
  BY DEF UpdateCreate
<1>2. /\ db.seq < MaxTask /\ db.cluster # "deleted" /\ orch' = orch /\ queue' = queue
  BY Accepted DEF UpdateCreate, Room
<1>3. Good(c)
  <2>1. "update" \in SubtaskNames \cup TopNames
    BY DEF TopNames
  <2> QED BY <1>2, <2>1, NewTopTask DEF IInv
<1> DEFINE d2 == GiveRoles(d1, S)
           d == SetNodeStatus(d2, S, "provisioned")
<1>4. StartNew(w, d, S)
  BY <1>1
<1>5. SameTasks(c, d)
  <2> HIDE DEF c
  <2>1. SameTasks(c, d1)
    BY <1>3, SetClusterSame DEF Good, ClusterStatuses
  <2> HIDE DEF d1
  <2>2. SameTasks(d1, d2)
    BY <2>1, GiveRolesSame DEF SameTasks
  <2> HIDE DEF d2
  <2>3. SameTasks(d2, d)
    BY <2>2, SetNodeStatusSame DEF SameTasks, NodeStatuses
  <2> HIDE DEF d
  <2> QED BY <2>1, <2>2, <2>3, SameTasksTransitive
<1>6. S \in SUBSET Node
  BY DEF ToUpgrade, NodesToUpgrade, ClusterNodes
<1> HIDE DEF d
<1> QED BY <1>2, <1>4, <1>5, <1>6, StartNewAccounted

\* A request that goes on with the messages it has, after rows have changed.
LEMMA KeepMoves ==
  ASSUME IInv, Accounts(db, req, orch, queue), NEW w \in Worker,
         NEW e, Good(e), Kept(db, e),
         NEW r, r.msgs = req[w].msgs, r.sup = req[w].sup,
         NEW pc \in {"reset_create", "cast_reset", "stop_deployment"}, r.pc = pc,
         req[w].pc \notin Bundling
  PROVE  Moves(db, e, req[w], r)
<1> DEFINE q == req[w]
<1>1. /\ r.pc \notin Making /\ r.pc # "cast_delete" /\ r.pc \notin Checking
      /\ r.pc \notin SupPlaces /\ r.pc \notin Bundling
  BY DEF Making, Checking, SupPlaces, Bundling
<1>2. Holds(r) \subseteq Holds(q)
  BY <1>1 DEF Holds
<1>3. Good(db) /\ Bundle(db, q)
  BY DEF IInv, Accounts, Sources, Owned
<1>4. /\ \A m \in q.msgs : m.task \in TaskId /\ m.task <= db.seq
      /\ \A t \in Holds(q) : t \in TaskId /\ t <= db.seq
  BY GivenOut
<1>5. Bundle(e, q)
  BY <1>3, <1>4, BundleKept
<1> HIDE DEF Holds
<1>6. Bundle(e, r)
  BY <1>1, <1>2, <1>5 DEF Bundle
<1> QED BY <1>1, <1>2, <1>6 DEF Moves

LEMMA StopCreateAccounted ==
  ASSUME IInv, Accounts(db, req, orch, queue), NEW w \in Worker, StopCreate(w)
  PROVE  Accounted
<1> DEFINE d1 == DeleteTasks(db, FirstOf(StopTasks))
           R1 == FirstOf(Named(db, {"provision"}))
           R2 == FirstOf(Named(db, {"deployment"}))
           r == [Idle EXCEPT !.pc = "stop_provision", !.sub = db.seq + 1,
                             !.rows = R1, !.next = R2]
<1>1. /\ db' = CreateTask(d1, "stop_deployment", NoTask)
      /\ db.seq < MaxTask /\ db.cluster # "deleted"
      /\ req' = [req EXCEPT ![w] = r] /\ orch' = orch /\ queue' = queue
  BY Accepted DEF StopCreate, Room
<1>2. Good(d1) /\ Kept(db, d1) /\ d1.seq = db.seq /\ d1.cluster = db.cluster
  <2>1. {"stop_deployment"} \in SUBSET TopNames
    BY DEF TopNames
  <2>2. FirstOf(StopTasks) \in SUBSET Named(db, {"stop_deployment"})
    BY DEF FirstOf, StopTasks
  <2> QED BY <2>1, <2>2, RequestFacts, KeptDeleteTop
<1> HIDE DEF d1
<1>3. /\ Good(db') /\ Kept(db, db') /\ NewRun(db, db') /\ NewRows(db, db', req[w], r)
      /\ db'.seq = db.seq + 1 /\ db'.seq \in TaskId
  <2>1. "stop_deployment" \in SubtaskNames \cup TopNames /\ d1.cluster # "deleted"
    BY <1>1, <1>2 DEF TopNames
  <2> HIDE DEF r
  <2> QED BY <1>1, <1>2, <2>1, TopRows
<1>4. R1 \in SUBSET TaskId /\ R2 \in SUBSET TaskId
  BY DEF FirstOf, Named
<1> HIDE DEF R1, R2
<1>5. r \in Request /\ r.pc = "stop_provision" /\ r.msgs = {} /\ r.sup = NoTask
  BY <1>3, <1>4 DEF Request, Places, Idle
<1> HIDE DEF r
<1>6. Moves(db, db', req[w], r)
  <2>1. r.pc \notin Making \cup {"cast_delete"}
    BY <1>5 DEF Making
  <2> QED BY <1>5, <2>1, BareMoves
<1>7. SameTasks(db', db')
  BY <1>3 DEF SameTasks, Good
<1> QED BY <1>1, <1>3, <1>5, <1>6, <1>7, RowsTurn

\* The task of a request whose task is not one that is reported on.
LEMMA QuietSub ==
  ASSUME IInv, NEW w \in Worker,
         NEW pc \in {"stop_provision", "stop_deployment", "cast_reset",
                     "erase_cluster", "cast_cluster"}, At(w, pc)
  PROVE  /\ req[w].pc = pc /\ req[w].sub \in TaskId /\ Exists(db, req[w].sub)
         /\ db.task[req[w].sub].name \in TopNames \ {"deploy", "update"}
         /\ db.task[req[w].sub].name \notin Reporting
         /\ db.task[req[w].sub].name # "deploy"
         /\ db.task[req[w].sub].parent = NoTask
<1>1. pc \in SubPlaces /\ SubName[pc] \in TopNames \ {"deploy", "update"}
  BY DEF SubPlaces, SubName, TopNames
<1>2. /\ req[w].pc = pc /\ req[w].sub \in TaskId /\ Exists(db, req[w].sub)
      /\ db.task[req[w].sub].name = SubName[pc]
  BY <1>1, SubExists
<1>3. SubName[pc] \notin Reporting /\ SubName[pc] \notin SubtaskNames
  BY <1>1 DEF Reporting, Progressing, TopNames, SubtaskNames, Checks
<1>4. db.task[req[w].sub].parent = NoTask
  BY <1>2, <1>3 DEF IInv, Good, Shape
<1> QED BY <1>1, <1>2, <1>3, <1>4

\* Such a task fails and the request returns.
LEMMA QuietFailsAccounted ==
  ASSUME IInv, Accounts(db, req, orch, queue), NEW w \in Worker,
         NEW pc \in {"stop_provision", "stop_deployment", "cast_reset",
                     "erase_cluster", "cast_cluster"}, At(w, pc),
         Return(w), db' = UpdateTask(db, req[w].sub, "error"),
         orch' = orch, queue' = queue
  PROVE  Accounted
<1> DEFINE t == req[w].sub
<1>1. Good(db) /\ Kept(db, db) /\ ~ (db.seq > db.seq)
  BY KeptReflexive, GoodTypes DEF IInv
<1>2. NewRun(db, db) /\ NewRows(db, db, req[w], Idle)
  BY <1>1, NoNewRows
<1>3. /\ t \in TaskId /\ Exists(db, t) /\ db.task[t].name # "deploy"
      /\ db.task[t].parent \in {NoTask, req[w].sup}
      /\ db.task[t].name \notin Progressing
  BY QuietSub, ReportingNames
<1>4. db' = UpdateTask(db, t, "error")
  OBVIOUS
<1> HIDE DEF t
<1> QED BY <1>1, <1>2, <1>3, <1>4, JustFailsAccounted

LEMMA StopGoneAccounted ==
  ASSUME IInv, Accounts(db, req, orch, queue), NEW w \in Worker, StopGone(w)
  PROVE  Accounted
<1>1. PICK pc \in {"stop_provision", "stop_deployment"} : At(w, pc)
  BY DEF StopGone
<1>2. /\ Return(w) /\ db' = UpdateTask(db, req[w].sub, "error")
      /\ orch' = orch /\ queue' = queue
  BY DEF StopGone, MessageFails
<1> QED BY <1>1, <1>2, QuietFailsAccounted

\* Messages of tasks that are not reported on, cast after a step that leaves the
\* rows alone.
LEMMA QuietCastAccounted ==
  ASSUME IInv, Accounts(db, req, orch, queue), NEW w \in Worker, NEW r \in Request,
         req' = [req EXCEPT ![w] = r], Moves(db, db, req[w], r),
         NEW X, \A m \in X : m.task \notin Named(db, Reporting),
         orch' = orch \cup X, db' = db, queue' = queue
  PROVE  Accounted
<1>1. Good(db) /\ Kept(db, db) /\ SameTasks(db, db)
  BY KeptReflexive, Untouched DEF IInv
<1>2. NewRows(db, db, req[w], r) /\ NewRun(db, db)
  BY <1>1, NoNewRows
<1>3. Accounts(db, req', orch, queue) /\ Evolves(db, db)
  BY <1>1, <1>2, Turn
<1>4. Accounts(db, req', orch', queue)
  BY <1>3, QuietCastAccounts
<1> QED BY <1>3, <1>4 DEF Accounted

LEMMA StopCastAccounted ==
  ASSUME IInv, Accounts(db, req, orch, queue), NEW w \in Worker, StopCast(w)
  PROVE  Accounted
<1> DEFINE X == {StopMessage(w, t) : t \in req[w].rows}
<1>1. PICK pc \in {"stop_provision", "stop_deployment"} : At(w, pc)
  BY DEF StopCast
<1>2. db' = db /\ queue' = queue /\ orch' = orch \cup X
  BY DEF StopCast
<1>3. \A m \in X : m.task \notin Named(db, Reporting)
  <2>1. \A m \in X : m.task = req[w].sub
    BY DEF StopMessage, Msg
  <2>2. req[w].sub \notin Named(db, Reporting)
    BY <1>1, QuietSub DEF Named
  <2> QED BY <2>1, <2>2
<1> HIDE DEF X
<1>4. req[w].pc \in {"stop_provision", "stop_deployment"}
  BY <1>1 DEF At
<1>5. CASE Return(w)
  <2>1. Moves(db, db, req[w], Idle) /\ Idle \in Request
    BY IdleMoves
  <2> QED BY <1>2, <1>3, <1>5, <2>1, QuietCastAccounted DEF Return
<1>6. CASE req' = [req EXCEPT ![w] = [@ EXCEPT !.pc = "stop_deployment",
                                              !.rows = req[w].next, !.next = {}]]
  <2> DEFINE r == [req[w] EXCEPT !.pc = "stop_deployment",
                                 !.rows = req[w].next, !.next = {}]
  <2>1. r \in Request
    <3>1. "stop_deployment" \in Places
      BY DEF Places
    <3> QED BY <3>1, RequestFacts DEF Request
  <2>2. r.pc = "stop_deployment" /\ r.msgs = req[w].msgs /\ r.sup = req[w].sup
    BY RequestFacts DEF Request
  <2>3. req' = [req EXCEPT ![w] = r]
    BY <1>6
  <2> HIDE DEF r
  <2>4. Moves(db, db, req[w], r)
    <3>1. Good(db) /\ Kept(db, db) /\ req[w].pc \notin Bundling
      BY <1>4, KeptReflexive DEF IInv, Bundling
    <3> QED BY <2>2, <3>1, KeepMoves
  <2> QED BY <1>2, <1>3, <2>1, <2>3, <2>4, QuietCastAccounted
<1> QED BY <1>5, <1>6 DEF StopCast

LEMMA ResetDeleteAccounted ==
  ASSUME IInv, Accounts(db, req, orch, queue), NEW w \in Worker, ResetDelete(w)
  PROVE  Accounted
<1> DEFINE S == Named(db, {"deploy", "deployment", "stop_deployment"})
           r == [req[w] EXCEPT !.pc = "reset_create"]
<1>1. /\ db' = DeleteTasks(db, S) /\ req' = [req EXCEPT ![w] = r]
      /\ req[w].pc = "reset_delete" /\ orch' = orch /\ queue' = queue
  BY DEF ResetDelete, At, Goto
<1>2. S \in SUBSET TaskId
  BY DEF Named
<1>3. \A t \in S : db.task[t].parent = NoTask \/ db.task[t].parent \in S
  <2> SUFFICES ASSUME NEW t \in S, db.task[t].parent # NoTask
               PROVE  db.task[t].parent \in S
    OBVIOUS
  <2>1. db.task[t].parent \in TaskId
    BY <1>2, RequestFacts, RowTypes DEF TaskRow
  <2>2. db.task[db.task[t].parent].name = "deploy"
    BY <1>2, RequestFacts DEF Good, Shape
  <2> QED BY <2>1, <2>2 DEF Named
<1> HIDE DEF S
<1>4. Good(db') /\ Kept(db, db') /\ db'.seq = db.seq
  BY <1>1, <1>2, <1>3, RequestFacts, DeleteTasksGood, KeptDelete
<1>5. r \in Request /\ r.pc = "reset_create" /\ r.msgs = req[w].msgs /\ r.sup = req[w].sup
  <2>1. "reset_create" \in Places
    BY DEF Places
  <2>2. r \in Request
    BY <2>1, RequestFacts DEF Request
  <2> QED BY <2>2, RequestFacts DEF Request
<1> HIDE DEF r
<1>6. Moves(db, db', req[w], r)
  <2>1. req[w].pc \notin Bundling
    BY <1>1 DEF Bundling
  <2> QED BY <1>4, <1>5, <2>1, KeepMoves
<1>7. NewRows(db, db', req[w], r) /\ NewRun(db, db')
  BY <1>4, NoNewRows DEF IInv
<1>8. SameTasks(db', db')
  BY <1>4 DEF SameTasks, Good
<1> QED BY <1>1, <1>4, <1>5, <1>6, <1>7, <1>8, RowsTurn

LEMMA ResetCreateAccounted ==
  ASSUME IInv, Accounts(db, req, orch, queue), NEW w \in Worker, ResetCreate(w)
  PROVE  Accounted
<1> DEFINE r == [req[w] EXCEPT !.pc = "cast_reset", !.sub = db.seq + 1]
<1>1. /\ db' = CreateTask(db, "reset_environment", NoTask)
      /\ req' = [req EXCEPT ![w] = r] /\ req[w].pc = "reset_create"
      /\ db.cluster # "deleted" /\ db.seq < MaxTask
      /\ orch' = orch /\ queue' = queue
  BY DEF ResetCreate, At, Alive, Room
<1>2. /\ Good(db') /\ Kept(db, db') /\ NewRun(db, db') /\ NewRows(db, db', req[w], r)
      /\ db.seq + 1 \in TaskId
  <2>1. "reset_environment" \in SubtaskNames \cup TopNames
    BY DEF TopNames
  <2>2. Good(db) /\ Kept(db, db)
    BY KeptReflexive DEF IInv
  <2> HIDE DEF r
  <2> QED BY <1>1, <2>1, <2>2, TopRows
<1>3. r \in Request /\ r.pc = "cast_reset" /\ r.msgs = req[w].msgs /\ r.sup = req[w].sup
  <2>1. "cast_reset" \in Places
    BY DEF Places
  <2>2. r \in Request
    BY <1>2, <2>1, RequestFacts DEF Request
  <2> QED BY <2>2, RequestFacts DEF Request
<1> HIDE DEF r
<1>4. Moves(db, db', req[w], r)
  <2>1. req[w].pc \notin Bundling
    BY <1>1 DEF Bundling
  <2> QED BY <1>2, <1>3, <2>1, KeepMoves
<1>5. SameTasks(db', db')
  BY <1>2 DEF SameTasks, Good
<1> QED BY <1>1, <1>2, <1>3, <1>4, <1>5, RowsTurn

LEMMA ResetCastAccounted ==
  ASSUME IInv, Accounts(db, req, orch, queue), NEW w \in Worker, ResetCast(w)
  PROVE  Accounted
<1> DEFINE m == Msg("reset_environment", req[w].sub, ClusterNodes(db), NoTask)
           X == {m}
<1>1. /\ At(w, "cast_reset") /\ orch' = orch \cup X /\ db' = db /\ queue' = queue
      /\ req' = [req EXCEPT ![w] = Idle]
  BY DEF ResetCast, Return
<1>2. \A k \in X : k.task \notin Named(db, Reporting)
  BY <1>1, QuietSub DEF Msg, Named
<1> HIDE DEF X
<1>3. Moves(db, db, req[w], Idle) /\ Idle \in Request
  BY IdleMoves
<1> QED BY <1>1, <1>2, <1>3, QuietCastAccounted

LEMMA ClusterDeletionCreateAccounted ==
  ASSUME IInv, Accounts(db, req, orch, queue), NEW w \in Worker,
         ClusterDeletionCreate(w)
  PROVE  Accounted
<1> DEFINE d1 == DeleteTasks(db, DeletionsSeen(w))
           d2 == MarkForDeletion(d1)
           d3 == SetCluster(d2, "remove")
           r == [Idle EXCEPT !.pc = "erase_cluster", !.sub = db.seq + 1]
<1>1. /\ db' = CreateTask(d3, "cluster_deletion", NoTask)
      /\ db.seq < MaxTask /\ req' = [req EXCEPT ![w] = r]
      /\ orch' = orch /\ queue' = queue /\ db.cluster # "deleted"
  BY DEF ClusterDeletionCreate, Room, At, Alive
<1>2. Good(db) /\ Good(d1) /\ Kept(db, d1) /\ d1.seq = db.seq /\ d1.cluster = db.cluster
  <2>1. {"cluster_deletion"} \in SUBSET TopNames
    BY DEF TopNames
  <2>2. DeletionsSeen(w) \in SUBSET Named(db, {"cluster_deletion"})
    BY DEF DeletionsSeen, Deletions
  <2> QED BY <2>1, <2>2, RequestFacts, KeptDeleteTop
<1> HIDE DEF d1
<1>3. SameTasks(d1, d3)
  <2>1. SameTasks(d1, d2)
    BY <1>2, MarkForDeletionSame DEF Good
  <2> HIDE DEF d2
  <2>2. SameTasks(d2, d3)
    BY <2>1, SetClusterSame DEF SameTasks, ClusterStatuses
  <2> HIDE DEF d3
  <2> QED BY <2>1, <2>2, SameTasksTransitive
<1> HIDE DEF d3
<1>4. Good(d3) /\ Kept(db, d3) /\ d3.seq = db.seq /\ d3.cluster # "deleted"
  <2>1. Good(d3) /\ Kept(d1, d3)
    BY <1>2, <1>3, SameTasksGood, KeptSame
  <2>2. Kept(db, d3)
    BY <1>2, <2>1, KeptTransitive
  <2> QED BY <1>1, <1>2, <1>3, <2>1, <2>2 DEF SameTasks
<1>5. /\ Good(db') /\ Kept(db, db') /\ NewRun(db, db') /\ NewRows(db, db', req[w], r)
      /\ db.seq + 1 \in TaskId
  <2>1. "cluster_deletion" \in SubtaskNames \cup TopNames
    BY DEF TopNames
  <2> HIDE DEF r
  <2> QED BY <1>1, <1>4, <2>1, TopRows
<1>6. r \in Request /\ r.pc = "erase_cluster" /\ r.msgs = {} /\ r.sup = NoTask
  BY <1>5 DEF Request, Places, Idle
<1> HIDE DEF r
<1>7. Moves(db, db', req[w], r)
  <2>1. r.pc \notin Making \cup {"cast_delete"}
    BY <1>6 DEF Making
  <2> QED BY <1>6, <2>1, BareMoves
<1>8. SameTasks(db', db')
  BY <1>5 DEF SameTasks, Good
<1> QED BY <1>1, <1>5, <1>6, <1>7, <1>8, RowsTurn

LEMMA ClusterDeletionEraseAccounted ==
  ASSUME IInv, Accounts(db, req, orch, queue), NEW w \in Worker,
         ClusterDeletionErase(w)
  PROVE  Accounted
<1> DEFINE m == Msg("remove_cluster", req[w].sub, ToErase(db), NoTask)
           r == [req[w] EXCEPT !.pc = "cast_cluster", !.msgs = {m}]
<1>1. /\ req[w].pc = "erase_cluster" /\ req[w].sub \in TaskId
      /\ req[w].sub \notin Named(db, Reporting)
  BY QuietSub DEF ClusterDeletionErase, Named
<1>2. orch' = orch /\ queue' = queue
  BY DEF ClusterDeletionErase
<1>3. CASE db' = DeleteCluster(db) /\ Return(w)
  <2>1. Good(db') /\ Kept(db, db') /\ db'.seq = db.seq
    BY <1>3, RequestFacts, DeleteClusterGood, KeptDeleteCluster
  <2> QED BY <1>2, <1>3, <2>1, ReturnDeleteTurn
<1>4. CASE db' = EraseDiscovered(db) /\ req' = [req EXCEPT ![w] = r]
  <2>1. SameTasks(db, db')
    BY <1>4, RequestFacts, EraseDiscoveredSame
  <2>2. m \in Message /\ m.task = req[w].sub
    BY <1>1, ToEraseType, MsgType DEF Methods
  <2> HIDE DEF m
  <2>3. /\ r \in Request /\ r.pc = "cast_cluster" /\ r.sup = req[w].sup
        /\ r.msgs = {m}
    <3>1. "cast_cluster" \in Places /\ {m} \in SUBSET Message
      BY <2>2 DEF Places
    <3>2. r \in Request
      BY <3>1, RequestFacts DEF Request
    <3> QED BY <3>2, RequestFacts DEF Request
  <2> HIDE DEF r
  <2>4. Moves(db, db, req[w], r)
    <3>1. /\ r.pc \notin Making /\ r.pc # "cast_delete" /\ r.pc \notin SupPlaces
          /\ r.pc \notin Checking
      BY <2>3 DEF Making, SupPlaces, Checking
    <3>2. Holds(r) = {req[w].sub}
      BY <2>2, <2>3, <3>1 DEF Holds
    <3> HIDE DEF Holds
    <3>3. Bundle(db, r)
      BY <2>3, <3>1, <3>2, <1>1, <2>2, ReportingNames DEF Bundle, Named
    <3> QED BY <1>1, <2>3, <3>1, <3>2, <3>3 DEF Moves
  <2> QED BY <1>2, <1>4, <2>1, <2>3, <2>4, QuietTurn
<1> QED BY <1>3, <1>4 DEF ClusterDeletionErase

LEMMA ElsewhereAccounted ==
  ASSUME IInv, Accounts(db, req, orch, queue), Elsewhere
  PROVE  Accounted
<1>1. PICK S \in {ObsoleteTasks, Deletions} : db' = DeleteTasks(db, S)
  BY DEF Elsewhere
<1>2. req' = req /\ orch' = orch /\ queue' = queue
  BY DEF Elsewhere
<1>3. S \in SUBSET Named(db, TopNames)
  BY <1>1, ObsoleteTop DEF Deletions, Named, TopNames
<1>4. Good(db) /\ Good(db') /\ Kept(db, db') /\ db'.seq = db.seq
  BY <1>1, <1>3, KeptDeleteTop DEF IInv
<1>5. Accounts(db', req, orch, queue) /\ Settles(db, db')
  BY <1>4, KeptAccounts, KeptSettles
<1> QED BY <1>2, <1>5 DEF Accounted, Evolves

LEMMA AssignAccounted ==
  ASSUME IInv, Accounts(db, req, orch, queue), NEW w \in Worker, NEW n \in Node,
         Assign(w, n) \/ Unassign(w, n)
  PROVE  Accounted
<1>1. PICK row \in NodeRow : /\ db' = SetNodes(db, [db.node EXCEPT ![n] = row])
                             /\ req' = req /\ orch' = orch /\ queue' = queue
  <2> DEFINE a == [db.node[n] EXCEPT !.assigned = TRUE, !.pending_addition = TRUE,
                                     !.pending_roles = TRUE]
             u == IF db.node[n].status = "discover"
                    THEN [db.node[n] EXCEPT !.assigned = FALSE]
                    ELSE [db.node[n] EXCEPT !.pending_deletion = TRUE]
  <2>1. a \in NodeRow /\ u \in NodeRow
    BY RequestFacts, RowTypes DEF NodeRow
  <2>2. \/ db' = SetNodes(db, [db.node EXCEPT ![n] = a])
        \/ db' = SetNodes(db, [db.node EXCEPT ![n] = u])
    BY DEF Assign, Unassign
  <2>3. req' = req /\ orch' = orch /\ queue' = queue
    BY DEF Assign, Unassign
  <2> HIDE DEF a, u
  <2> QED BY <2>1, <2>2, <2>3
<1> DEFINE rows == [db.node EXCEPT ![n] = row]
<1>2. rows \in [Node -> NodeRow]
  BY RequestFacts DEF Database
<1>3. db' = SetNodes(db, rows)
  BY <1>1
<1> HIDE DEF rows
<1>4. SameTasks(db, db')
  BY <1>2, <1>3, SetNodesSame DEF IInv, Good
<1> QED BY <1>1, <1>4, NothingTurn

\* The orchestrator reports.
LEMMA SendAccounted ==
  ASSUME IInv, Accounts(db, req, orch, queue), NEW m \in orch, ~ Joined(m),
         NEW st, NEW good, NEW bad, Send(m, st, good, bad),
         st = "running" => ~ m.told /\ m.method \in {"provision", "deploy"},
         \A n \in orch' : \/ n \in orch \ {m}
                          \/ /\ st = "running" /\ n.told
                             /\ n = [m EXCEPT !.told = TRUE],
         db' = db, req' = req
  PROVE  Accounted
<1> DEFINE a == [method |-> m.method, task |-> m.task, status |-> st,
                 good |-> good, bad |-> bad]
<1>1. queue' = Append(queue, a)
  BY DEF Send
<1>2. a.task = m.task /\ a.status = st /\ a.method = m.method
  OBVIOUS
<1> HIDE DEF a
<1>3. Accounts(db, req, orch', queue')
  BY <1>1, <1>2, SendAccounts
<1>4. Settles(db, db)
  BY Untouched, SettlesSame
<1> QED BY <1>3, <1>4 DEF Accounted, Evolves

LEMMA ProgressAccounted ==
  ASSUME IInv, Accounts(db, req, orch, queue), NEW m \in orch, Progress(m)
  PROVE  Accounted
<1> DEFINE o == [m EXCEPT !.told = TRUE]
<1>1. PICK bad \in SUBSET m.nodes : Send(m, "running", m.nodes \ bad, bad)
  BY DEF Progress
<1>2. /\ orch' = (orch \ {m}) \cup {o} /\ db' = db /\ req' = req
      /\ ~ m.told /\ m.method \in {"provision", "deploy"} /\ ~ Joined(m)
  BY DEF Progress
<1>3. o.told
  BY DEF IInv, TypeOK, Message
<1> DEFINE X == orch'
<1>4. \A n \in X : n \in orch \ {m} \/ (n.told /\ n = o)
  BY <1>2, <1>3
<1> QED BY <1>1, <1>2, <1>4, SendAccounted

LEMMA FinishAccounted ==
  ASSUME IInv, Accounts(db, req, orch, queue), NEW m \in orch, Finish(m)
  PROVE  Accounted
<1>1. PICK a \in Answers(m) :
        /\ Send(m, a[1], a[2], a[3])
        /\ orch' = {o \in orch \ {m} :
                     ~ (m.method = "stop_deploy_task" /\ a[1] = "ready"
                          /\ o.method # "stop_deploy_task" /\ o.task = m.other)}
  BY DEF Finish
<1>2. db' = db /\ req' = req /\ ~ Joined(m)
  BY DEF Finish
<1>3. a[1] # "running"
  BY DEF Answers
<1>4. orch' \subseteq orch \ {m}
  BY <1>1
<1> QED BY <1>1, <1>2, <1>3, <1>4, SendAccounted

\* The reply at the head of the queue is handled: once, or again.
LEMMA ConsumeAccounted ==
  ASSUME IInv, Accounts(db, req, orch, queue), Consume \/ ConsumeUnacknowledged
  PROVE  Accounted
<1>1. /\ queue # <<>> /\ req' = req /\ orch' = orch
      /\ db' \in Outcomes(db, Head(queue))
      /\ queue' = Tail(queue) \/ queue' = queue
  BY DEF Consume, ConsumeUnacknowledged
<1>2. Accounts(db', req, orch, queue) /\ Settles(db, db')
  BY <1>1, HeadAccounts
<1>3. Accounts(db', req, orch, Tail(queue))
  BY <1>1, <1>2, TailAccounts DEF IInv, TypeOK
<1> QED BY <1>1, <1>2, <1>3 DEF Accounted, Evolves

\* The deletion whose message the broker refused: nothing is to come of it.
LEMMA DeletionRefusedAccounted ==
  ASSUME IInv, Accounts(db, req, orch, queue), NEW w \in Worker, At(w, "cast_delete"),
         db' = UpdateTask(db, req[w].sub, "error"), orch' = orch, queue' = queue,
         req' = [req EXCEPT ![w] =
           [@ EXCEPT !.pc = AfterDelete(req[w]), !.msgs = {}]]
  PROVE  Accounted
<1> DEFINE r == [req[w] EXCEPT !.pc = AfterDelete(req[w]), !.msgs = {}]
           t == req[w].sub
           rq == req'
<1>1. /\ req[w].pc = "cast_delete" /\ t \in TaskId /\ Exists(db, t)
      /\ db.task[t].name = "node_deletion" /\ t \in Holds(req[w])
  BY DeletionMessages
<1>2. req[w].pc \in SupPlaces
  BY <1>1 DEF SupPlaces
<1>3. r \in Request
  <2>1. AfterDelete(req[w]) \in Parts \cup Rest
    BY AfterPlaces
  <2> QED BY <1>2, <2>1, RequestFacts, MoveSentOK
<1>4. r.msgs = {} /\ r.sup = req[w].sup /\ r.pc = AfterDelete(req[w])
  BY RequestFacts DEF Request
<1>5. req' = [req EXCEPT ![w] = r] /\ rq = [req EXCEPT ![w] = r]
  OBVIOUS
<1> HIDE DEF r
<1>6. r.pc \notin Making /\ r.pc # "cast_delete" /\ r.pc \notin Checking
  <2>1. r.pc \in {"delete", "provision", "deploy", "start"}
    BY <1>4, AfterNames
  <2> QED BY <2>1 DEF Making, Checking
<1>7. Holds(r) = {}
  BY <1>4, <1>6 DEF Holds
<1>8. Good(db) /\ Kept(db, db) /\ SameTasks(db, db)
  BY KeptReflexive, Untouched DEF IInv
<1>9. NewRows(db, db, req[w], r) /\ NewRun(db, db)
  BY <1>8, NoNewRows
<1>10. Moves(db, db, req[w], r)
  <2> HIDE DEF Holds
  <2>1. Bundle(db, r)
    BY <1>4, <1>6, <1>7 DEF Bundle
  <2> QED BY <1>2, <1>4, <1>6, <1>7, <2>1 DEF Moves
<1>11. Accounts(db, rq, orch, queue)
  BY <1>3, <1>5, <1>8, <1>9, <1>10, Turn
<1>12. rq[w] = r /\ \A v \in Worker : v # w => rq[v] = req[v]
  BY <1>5, RequestFacts
<1> HIDE DEF rq, t
<1>13. t \in Named(db, Reporting) /\ t \notin Named(db, Progressing)
  BY <1>1 DEF Named, Reporting, Progressing, t
<1>14. Clear(rq, orch, queue, t)
  <2>1. Once(db, req, orch, queue)
    BY DEF Accounts, Sources
  <2> HIDE DEF Holds
  <2>2. Held(req, t)
    BY <1>1 DEF Held, t
  <2>3. ~ Sent(orch, t) /\ ~ Queued(queue, t)
    BY <1>13, <2>1, <2>2 DEF Once
  <2>4. \A v \in Worker : t \in Holds(req[v]) => v = w
    BY <1>1, <1>13, <2>1 DEF Once, t
  <2>5. ~ Held(rq, t)
    BY <1>7, <1>12, <2>4 DEF Held
  <2> QED BY <2>3, <2>5 DEF Clear, Queued
<1>15. Reported(db, rq, orch, queue, t, "error")
  BY <1>1, <1>13, <1>14 DEF Reported, t
<1>16. db.task[t].name # "deploy" /\ "error" \in TaskStatuses
  BY <1>1 DEF TaskStatuses, t
<1>17. /\ Accounts(UpdateTask(db, t, "error"), rq, orch, queue)
       /\ Settles(db, UpdateTask(db, t, "error"))
  BY <1>1, <1>8, <1>11, <1>15, <1>16, UpdateAccounts DEF t
<1> QED BY <1>17 DEF Accounted, Evolves, rq, t

LEMMA CastRefusedAccounted ==
  ASSUME IInv, Accounts(db, req, orch, queue), NEW w \in Worker, CastRefused(w)
  PROVE  Accounted
<1>1. db' = UpdateTask(db, req[w].sub, "error") /\ orch' = orch /\ queue' = queue
  BY DEF CastRefused
<1>2. CASE req[w].pc = "cast_delete"
  <2>1. At(w, "cast_delete")
    BY <1>2 DEF CastRefused, At
  <2>2. req' = [req EXCEPT ![w] =
          [@ EXCEPT !.pc = AfterDelete(req[w]), !.msgs = {}]]
    BY <1>2 DEF CastRefused
  <2> QED BY <1>1, <2>1, <2>2, DeletionRefusedAccounted
<1>3. CASE req[w].pc # "cast_delete"
  <2>1. PICK pc \in {"stop_provision", "stop_deployment", "cast_reset",
                     "cast_cluster"} : At(w, pc)
    BY <1>3 DEF CastRefused, At
  <2>2. Return(w)
    BY <1>3 DEF CastRefused
  <2> QED BY <1>1, <2>1, <2>2, QuietFailsAccounted
<1> QED BY <1>2, <1>3

LEMMA NewRequestAccounted ==
  ASSUME IInv, Accounts(db, req, orch, queue), NEW w \in Worker, NewRequest(w)
  PROVE  Accounted
BY ApplyLockAccounted, QuietRequests, StopCreateAccounted, SelectToProvisionAccounted,
   SelectToDeployAccounted, UpdateCreateAccounted, ResetCheckAccounted,
   ClusterDeletionLockAccounted, AssignAccounted DEF NewRequest

LEMMA ContinueAccounted ==
  ASSUME IInv, Accounts(db, req, orch, queue), NEW w \in Worker, Continue(w)
  PROVE  Accounted
BY ApplyRefuseAccounted, ApplyCreateAccounted, ApplyCheckAccounted,
   ApplyCheckBeforeAccounted, ApplyDeleteAccounted, ApplyCastDeleteAccounted,
   ApplyPartAccounted, ApplyProvisionMessageAccounted, ApplyDeployMessageAccounted,
   ApplyKeepMessageAccounted, ApplyStartAccounted, LastCastAccounted,
   QuietRequests, StopGoneAccounted, StopCastAccounted, SelectMessageAccounted,
   SelectMarkAccounted, ResetDeleteAccounted, ResetCreateAccounted,
   ResetCastAccounted, ClusterDeletionCreateAccounted,
   ClusterDeletionEraseAccounted DEF Continue

LEMMA NextAccounted ==
  ASSUME IInv, Accounts(db, req, orch, queue), [Next]_vars
  PROVE  Accounted
<1>1. CASE \E w \in Worker : NewRequest(w) \/ Continue(w) \/ CastRefused(w) \/ Crash(w)
  BY <1>1, NewRequestAccounted, ContinueAccounted, CastRefusedAccounted, QuietRequests
<1>2. CASE \E m \in orch : Progress(m) \/ Finish(m)
  BY <1>2, ProgressAccounted, FinishAccounted
<1>3. CASE Consume \/ ConsumeUnacknowledged \/ Elsewhere
  BY <1>3, ConsumeAccounted, ElsewhereAccounted
<1>4. CASE UNCHANGED vars
  BY <1>4, Untouched, NothingTurn DEF vars
<1> QED BY <1>1, <1>2, <1>3, <1>4 DEF Next

------------------------------------------------------------------------------
(***************************************************************************)
(* The refinement.                                                         *)
(***************************************************************************)

\* Any nodes of the environment, workers, kinds of requests and bounds: where
\* Spec starts, and where the instances of MCInit do.
AnyInit ==
  \E S \in SUBSET Node, W \in SUBSET Worker, K \in SUBSET Requests,
     requests \in 0 .. MaxRequests, faults \in 0 .. MaxFaults :
    InitOf(S, W, K, requests, faults)

AnySpec == AnyInit /\ [][Next]_vars

LEMMA InitIsAny ==
  ASSUME Init
  PROVE  AnyInit
<1>1. MaxRequests \in 0 .. MaxRequests /\ MaxFaults \in 0 .. MaxFaults
  BY BoundsAssumption
<1> QED BY <1>1 DEF Init, AnyInit

LEMMA MCInitIsAny ==
  ASSUME MCInit
  PROVE  AnyInit
<1>1. /\ MaxRequests \in 0 .. MaxRequests /\ MaxRequests - 1 \in 0 .. MaxRequests
      /\ MaxFaults \in 0 .. MaxFaults /\ 0 \in 0 .. MaxFaults
  BY BoundsAssumption, RequestAllowed
<1>2. /\ Usual \in SUBSET Requests /\ Selecting \cup {"stop"} \in SUBSET Requests
      /\ Updating \in SUBSET Requests /\ Mixed \in SUBSET Requests
      /\ Deleting \in SUBSET Requests
  BY KindsAllowed DEF Usual, Selecting, Updating, Mixed, Deleting, RequestKinds
<1>3. /\ \A w \in Worker : {w} \in SUBSET Worker
      /\ \A n \in Node : {n} \in SUBSET Node
      /\ Worker \in SUBSET Worker /\ Node \in SUBSET Node
  OBVIOUS
<1> DEFINE K2 == Selecting \cup {"stop"}
           less == MaxRequests - 1
<1>4. MCInit <=>
  \/ \E w \in Worker : InitOf(Node, {w}, Usual, less, MaxFaults)
  \/ \E w \in Worker, n \in Node : InitOf({n}, {w}, Usual, MaxRequests, 0)
  \/ \E n \in Node : InitOf({n}, Worker, Usual, less, 0)
  \/ \E w \in Worker : InitOf(Node, {w}, K2, less, 0)
  \/ \E w \in Worker, n \in Node : InitOf({n}, {w}, Updating, MaxRequests, 0)
  \/ \E w \in Worker, n \in Node : InitOf({n}, {w}, Mixed, less, MaxFaults)
  \/ \E n \in Node : InitOf({n}, Worker, K2, less, 0)
  \/ \E n \in Node : InitOf({n}, Worker, Deleting, MaxRequests, 0)
  BY DEF MCInit
<1>5. K2 \in SUBSET Requests /\ less \in 0 .. MaxRequests
  BY <1>1, <1>2
<1> HIDE DEF K2, less
<1>6. CASE \E w \in Worker : InitOf(Node, {w}, Usual, less, MaxFaults)
  BY <1>1, <1>2, <1>3, <1>5, <1>6 DEF AnyInit
<1>7. CASE \E w \in Worker, n \in Node : InitOf({n}, {w}, Usual, MaxRequests, 0)
  BY <1>1, <1>2, <1>3, <1>7 DEF AnyInit
<1>8. CASE \E n \in Node : InitOf({n}, Worker, Usual, less, 0)
  BY <1>1, <1>2, <1>3, <1>5, <1>8 DEF AnyInit
<1>9. CASE \E w \in Worker : InitOf(Node, {w}, K2, less, 0)
  BY <1>1, <1>3, <1>5, <1>9 DEF AnyInit
<1>10. CASE \E w \in Worker, n \in Node : InitOf({n}, {w}, Updating, MaxRequests, 0)
  BY <1>1, <1>2, <1>3, <1>10 DEF AnyInit
<1>11. CASE \E w \in Worker, n \in Node : InitOf({n}, {w}, Mixed, less, MaxFaults)
  BY <1>1, <1>2, <1>3, <1>5, <1>11 DEF AnyInit
<1>12. CASE \E n \in Node : InitOf({n}, Worker, K2, less, 0)
  BY <1>1, <1>3, <1>5, <1>12 DEF AnyInit
<1>13. CASE \E n \in Node : InitOf({n}, Worker, Deleting, MaxRequests, 0)
  BY <1>1, <1>2, <1>3, <1>13 DEF AnyInit
<1> QED BY <1>4, <1>6, <1>7, <1>8, <1>9, <1>10, <1>11, <1>12, <1>13

\* No row, no message and no reply yet.
LEMMA InitAccounts ==
  ASSUME AnyInit
  PROVE  IInv /\ Accounts(db, req, orch, queue)
<1>1. PICK S \in SUBSET Node, W \in SUBSET Worker, K \in SUBSET Requests,
           requests \in 0 .. MaxRequests, faults \in 0 .. MaxFaults :
        InitOf(S, W, K, requests, faults)
  BY DEF AnyInit
<1>2. IInv
  BY <1>1, InitOfIInv
<1>3. /\ req = [w \in Worker |-> IF w \in W THEN Idle ELSE Off]
      /\ orch = {} /\ queue = <<>>
      /\ db.seq = 0 /\ db.task = [t \in TaskId |-> NoRow]
  BY <1>1 DEF InitOf
<1>4. /\ \A names : "none" \notin names => Named(db, names) = {}
      /\ \A p \in TaskId : Subtasks(db, p) = {}
  BY <1>3 DEF Named, Subtasks, Exists, NoRow
<1>5. /\ Named(db, Reporting) = {} /\ Named(db, Progressing) = {}
      /\ Named(db, {"deployment"}) = {} /\ Named(db, {"provision"}) = {}
      /\ Named(db, {"provision", "deployment"}) = {}
  BY <1>4 DEF Reporting, Progressing
<1>6. \A w \in Worker : req[w].sup = NoTask
  <2>1. Idle.sup = NoTask /\ Off.sup = NoTask
    BY DEF Idle, Off
  <2> QED BY <1>3, <2>1
<1>7. \A w \in Worker : Bundle(db, req[w])
  <2>1. ASSUME NEW r \in {Idle, Off} PROVE Bundle(db, r)
    <3>1. /\ r.msgs = {} /\ r.pc \in {"idle", "off"}
      BY <2>1 DEF Idle, Off
    <3> QED BY <3>1 DEF Bundle, Making
  <2> QED BY <1>3, <2>1
<1>8. NoTask <= db.seq
  BY <1>3 DEF NoTask
<1> HIDE DEF Holds
<1>9. Once(db, req, orch, queue) /\ Waits(db, req, orch, queue) /\ Single(db)
  BY <1>5 DEF Once, Waits, Single
<1>10. Owned(db, req, orch, queue)
  BY <1>5, <1>6, <1>7, <1>8 DEF Owned, Owns
<1>11. Reports(queue)
  BY <1>3 DEF Reports
<1>12. Families(db, req, orch, queue) /\ Running(db, req, orch, queue)
  BY <1>4, <1>5 DEF Families, Running
<1> QED BY <1>2, <1>9, <1>10, <1>11, <1>12 DEF Accounts, Sources

LEMMA NextInvariant ==
  ASSUME IInv, Accounts(db, req, orch, queue), [Next]_vars
  PROVE  IInv' /\ Accounts(db, req, orch, queue)' /\ Evolves(db, db')
BY NextKeeps, NextAccounted DEF Accounted

\* A step of the rows is a step of the table.
LEMMA EvolvesInTable ==
  ASSUME IInv, Evolves(db, db')
  PROVE  Table!Update \/ Table!Create
<1>1. \A t \in TaskId : /\ [u \in TaskId |-> db.task[u].status][t] = db.task[t].status
                        /\ [u \in TaskId |-> db.task[u].status]'[t] = db'.task[t].status
  BY DEF TaskId
<1>2. ASSUME NEW t \in TaskId, Turns(db, db', t)
      PROVE  Table!Evolves(t)
  BY <1>1, <1>2 DEF Turns, Table!Evolves, Table!Ended
<1>3. CASE Settles(db, db')
  BY <1>2, <1>3 DEF Settles, Table!Update, TaskId
<1>4. CASE Adds(db, db')
  BY <1>1, <1>2, <1>4 DEF Adds, Table!Create, TaskId
<1> QED BY <1>3, <1>4 DEF Evolves

\* The inductive invariant: where every task's message and reports are, what a
\* failed family has that failed for good, and what of the tasks runs.
THEOREM AlwaysAccounted == AnySpec => [](IInv /\ Accounts(db, req, orch, queue))
<1>1. AnyInit => IInv /\ Accounts(db, req, orch, queue)
  BY InitAccounts
<1>2. IInv /\ Accounts(db, req, orch, queue) /\ [Next]_vars
        => (IInv /\ Accounts(db, req, orch, queue))'
  BY NextInvariant
<1> QED BY <1>1, <1>2, PTL DEF AnySpec

\* From wherever the instances start.
THEOREM AnyRowsImplementTable == AnySpec => ImplementsTaskTable
<1>1. AnyInit => Table!Init
  BY DEF AnyInit, InitOf, Table!Init, NoRow, TaskId
<1>2. IInv /\ Accounts(db, req, orch, queue) /\ [Next]_vars
        => [Table!Update \/ Table!Create]_(Table!tableVars)
  BY NextInvariant, EvolvesInTable
<1> QED BY <1>1, <1>2, AlwaysAccounted, PTL DEF AnySpec, ImplementsTaskTable, Table!Spec

\* The rows of the tasks implement a TaskTable, for any nodes, workers, requests
\* and faults: no finished task runs again, no removed one comes back. A late
\* progress report of an aborted subtask (provision_resp, deploy_resp) meets a
\* family one of whose parts has failed for good, and Task.update aborts it anew.
THEOREM RowsImplementTable == Spec => ImplementsTaskTable
BY InitIsAny, AnyRowsImplementTable, PTL DEF Spec, AnySpec

------------------------------------------------------------------------------
(***************************************************************************)
(* Requests in turn: while one worker serves them all.                     *)
(***************************************************************************)

\* What a request does to the requests: it is the only one to move on, of a
\* worker that serves, and holds the lock on the tasks only if it just took it.
Serves(w) ==
  /\ req[w].pc # "off" /\ req'[w].pc # "off"
  /\ \A v \in Worker : v # w => req'[v] = req[v]
  /\ req'[w].pc = "locked" => ApplyLock(w)

LEMMA ServesMoves ==
  ASSUME IInv, NEW w \in Worker, req[w].pc # "off",
         NEW r, req' = [req EXCEPT ![w] = r], r.pc \notin {"off", "locked"}
  PROVE  Serves(w)
<1>1. req'[w] = r /\ \A v \in Worker : v # w => req'[v] = req[v]
  BY RequestFacts
<1> QED BY <1>1 DEF Serves

LEMMA ServesReturns ==
  ASSUME IInv, NEW w \in Worker, req[w].pc # "off", Return(w)
  PROVE  Serves(w)
<1>1. Idle.pc \notin {"off", "locked"}
  BY DEF Idle
<1> QED BY <1>1, ServesMoves DEF Return

LEMMA ServesGoes ==
  ASSUME IInv, NEW w \in Worker, req[w].pc # "off", NEW pc \in Places,
         Goto(w, pc), pc \notin {"off", "locked"}
  PROVE  Serves(w)
<1>1. [req[w] EXCEPT !.pc = pc].pc = pc
  BY RequestFacts DEF Request
<1> QED BY <1>1, ServesMoves DEF Goto

LEMMA ServesStays ==
  ASSUME IInv, NEW w \in Worker, req[w].pc = "idle", req' = req
  PROVE  Serves(w)
BY DEF Serves

LEMMA NewRequestServes ==
  ASSUME IInv, NEW w \in Worker, NewRequest(w)
  PROVE  Serves(w)
<1>1. req[w].pc = "idle"
  BY DEF NewRequest, ApplyLock, StopRefuse, StopCreate, SelectToProvision,
         SelectToDeploy, ChooseRelease, UpdateRefuse, UpdateCreate, ResetCheck,
         ClusterDeletionLock, Assign, Unassign, Accept
<1>2. CASE req' = req
  BY <1>1, <1>2, ServesStays
<1>3. CASE ApplyLock(w)
  <2>1. PICK r \in {[Idle EXCEPT !.pc = "locked",
                       !.rows = Named(db, {"deploy", "stop_deployment",
                                           "reset_environment"})]} :
          req' = [req EXCEPT ![w] = r]
    BY <1>3 DEF ApplyLock
  <2>2. r.pc = "locked"
    BY <2>1 DEF Idle
  <2>3. req'[w] = r /\ \A v \in Worker : v # w => req'[v] = req[v]
    BY <2>1, RequestFacts
  <2> QED BY <1>1, <1>3, <2>2, <2>3 DEF Serves
<1>4. CASE StopCreate(w)
  <2> DEFINE r == [Idle EXCEPT !.pc = "stop_provision", !.sub = db.seq + 1,
                    !.rows = FirstOf(Named(db, {"provision"})),
                    !.next = FirstOf(Named(db, {"deployment"}))]
  <2>1. req' = [req EXCEPT ![w] = r] /\ r.pc = "stop_provision"
    BY <1>4 DEF StopCreate, Idle
  <2> HIDE DEF r
  <2> QED BY <1>1, <2>1, ServesMoves
<1>5. CASE SelectToProvision(w)
  <2>1. PICK S \in SUBSET ClusterNodes(db) :
          req' = [req EXCEPT ![w] = [Idle EXCEPT !.pc = "select_message",
                                              !.sub = db.seq + 1, !.prov = S]]
    BY <1>5 DEF SelectToProvision
  <2> DEFINE r == [Idle EXCEPT !.pc = "select_message", !.sub = db.seq + 1, !.prov = S]
  <2>2. req' = [req EXCEPT ![w] = r] /\ r.pc = "select_message"
    BY <2>1 DEF Idle
  <2> HIDE DEF r
  <2> QED BY <1>1, <2>2, ServesMoves
<1>6. CASE SelectToDeploy(w) \/ UpdateCreate(w)
  <2>1. PICK d, S : StartNew(w, d, S)
    BY <1>6 DEF SelectToDeploy, UpdateCreate
  <2> DEFINE r == [Idle EXCEPT !.pc = "select_mark", !.sub = d.seq, !.dep = S,
                       !.msgs = {Msg("deploy", d.seq, S, NoTask)}]
  <2>2. Return(w) \/ req' = [req EXCEPT ![w] = r]
    BY <2>1 DEF StartNew
  <2>3. r.pc = "select_mark"
    BY DEF Idle
  <2> HIDE DEF r
  <2> QED BY <1>1, <2>2, <2>3, ServesMoves, ServesReturns
<1>7. CASE ResetCheck(w) /\ req' # req
  <2> DEFINE r == [Idle EXCEPT !.pc = "reset_delete"]
  <2>1. req' = [req EXCEPT ![w] = r] /\ r.pc = "reset_delete"
    BY <1>7 DEF ResetCheck, Idle
  <2> HIDE DEF r
  <2> QED BY <1>1, <2>1, ServesMoves
<1>8. CASE ClusterDeletionLock(w)
  <2> DEFINE r == [Idle EXCEPT !.pc = "delete_locked",
                               !.rows = Named(db, SubtaskNames \cup TopNames)]
  <2>1. req' = [req EXCEPT ![w] = r] /\ r.pc = "delete_locked"
    BY <1>8 DEF ClusterDeletionLock, Idle
  <2> HIDE DEF r
  <2> QED BY <1>1, <2>1, ServesMoves
<1>9. \/ req' = req \/ ApplyLock(w) \/ StopCreate(w) \/ SelectToProvision(w)
      \/ SelectToDeploy(w) \/ UpdateCreate(w) \/ ResetCheck(w)
      \/ ClusterDeletionLock(w)
  BY DEF NewRequest, StopRefuse, ChooseRelease, UpdateRefuse, Assign, Unassign
<1> QED BY <1>2, <1>3, <1>4, <1>5, <1>6, <1>7, <1>8, <1>9

LEMMA ContinueServes ==
  ASSUME IInv, NEW w \in Worker, Continue(w)
  PROVE  Serves(w)
<1>1. req[w].pc # "off"
  BY DEF Continue, ApplyRefuse, ApplyCreate, ApplyCheck, ApplyCheckBefore, ApplyDelete,
         ApplyCastDelete, ApplyProvision, ApplyDeploy, ApplySubtask,
         ApplyProvisionMessage, ApplyDeployMessage, ApplyAborted, ApplyKeepMessage,
         ApplyStart, ApplyMarkCluster, ApplyCast, StopGone, StopCast, SelectMessage,
         SelectMark, ResetDelete, ResetCreate, ResetCast, ClusterDeletionRefuse,
         ClusterDeletionCreate, ClusterDeletionErase, ClusterDeletionCast,
         RequestFails, Busy, At
<1>2. CASE Return(w)
  BY <1>1, <1>2, ServesReturns
<1>3. CASE \E pc \in {"check_before", "delete", "provision", "deploy", "start",
                      "mark_cluster", "cast", "reset_create"} : Goto(w, pc)
  <2>1. PICK pc \in {"check_before", "delete", "provision", "deploy", "start",
                     "mark_cluster", "cast", "reset_create"} : Goto(w, pc)
    BY <1>3
  <2>2. pc \in Places /\ pc \notin {"off", "locked"}
    BY DEF Places
  <2> QED BY <1>1, <2>1, <2>2, ServesGoes
<1>4. \/ Return(w)
      \/ \E pc \in {"check_before", "delete", "provision", "deploy", "start",
                      "mark_cluster", "cast", "reset_create"} : Goto(w, pc)
      \/ ApplyCreate(w) \/ ApplyDelete(w) \/ ApplyCastDelete(w)
      \/ ApplyProvision(w) \/ ApplyDeploy(w)
      \/ ApplyProvisionMessage(w) \/ ApplyDeployMessage(w)
      \/ StopCast(w) \/ SelectMessage(w) \/ ResetCreate(w)
      \/ ClusterDeletionCreate(w) \/ ClusterDeletionErase(w)
  <2>1. \/ AfterCheck(req[w]) \in {"delete", "provision", "deploy", "start"}
        /\ AfterProvision(req[w]) \in {"delete", "provision", "deploy", "start"}
    BY AfterNames
  <2>2. CASE \/ ApplyRefuse(w) \/ ApplyAborted(w) \/ ApplyCast(w) \/ StopGone(w)
             \/ ResetCast(w) \/ ClusterDeletionRefuse(w) \/ ClusterDeletionCast(w)
             \/ RequestFails(w)
    BY <2>2 DEF ApplyRefuse, ApplyAborted, ApplyCast, StopGone, MessageFails, ResetCast,
                ClusterDeletionRefuse, ClusterDeletionCast, RequestFails
  <2>3. CASE ApplyCheck(w) \/ ApplyCheckBefore(w)
    BY <2>3, AfterNames DEF ApplyCheck, ApplyCheckBefore
  <2>4. CASE \/ ApplyKeepMessage(w) \/ ApplyStart(w) \/ ApplyMarkCluster(w)
             \/ SelectMark(w) \/ ResetDelete(w)
    BY <2>4, AfterNames DEF ApplyKeepMessage, ApplyStart, ApplyMarkCluster, SelectMark,
                            ResetDelete
  <2> QED BY <2>2, <2>3, <2>4 DEF Continue
<1>6. CASE ApplyCreate(w)
  <2>1. PICK more : req' = [req EXCEPT ![w] =
                              [Idle EXCEPT !.pc = "check", !.sup = db.seq + 1,
                                           !.del = NodesToDelete(db),
                                           !.prov = NodesToProvision(db),
                                           !.dep = NodesToDeploy(db) \cup more]]
    BY <1>6 DEF ApplyCreate
  <2> DEFINE r == [Idle EXCEPT !.pc = "check", !.sup = db.seq + 1,
                               !.del = NodesToDelete(db),
                               !.prov = NodesToProvision(db),
                               !.dep = NodesToDeploy(db) \cup more]
  <2>2. req' = [req EXCEPT ![w] = r] /\ r.pc = "check"
    BY <2>1 DEF Idle
  <2> HIDE DEF r
  <2> QED BY <1>1, <2>2, ServesMoves
<1>7. CASE ApplyDelete(w)
  <2> DEFINE r == [req[w] EXCEPT !.pc = "cast_delete", !.sub = db.seq + 1,
                 !.msgs = {Msg("remove_nodes", db.seq + 1, ToErase(db), NoTask)}]
  <2>1. req' = [req EXCEPT ![w] = r] /\ r.pc = "cast_delete"
    BY <1>7, RequestFacts DEF ApplyDelete, Request
  <2> HIDE DEF r
  <2> QED BY <1>1, <2>1, ServesMoves
<1>8. CASE ApplyCastDelete(w)
  <2> DEFINE r == [req[w] EXCEPT !.pc = AfterDelete(req[w]), !.msgs = {}]
  <2>1. req' = [req EXCEPT ![w] = r] /\ r.pc = AfterDelete(req[w])
    BY <1>8, RequestFacts DEF ApplyCastDelete, Request
  <2> HIDE DEF r
  <2>2. r.pc \in {"delete", "provision", "deploy", "start"}
    BY <2>1, AfterNames
  <2> QED BY <1>1, <2>1, <2>2, ServesMoves
<1>9. CASE ApplyProvision(w) \/ ApplyDeploy(w)
  <2>1. PICK next \in {"provision_message", "deploy_message"} :
          req' = [req EXCEPT ![w] = [@ EXCEPT !.pc = next, !.sub = db.seq + 1]]
    BY <1>9 DEF ApplyProvision, ApplyDeploy, ApplySubtask
  <2> DEFINE r == [req[w] EXCEPT !.pc = next, !.sub = db.seq + 1]
  <2>2. req' = [req EXCEPT ![w] = r] /\ r.pc = next
    BY <2>1, RequestFacts DEF Request
  <2> HIDE DEF r
  <2> QED BY <1>1, <2>2, ServesMoves
<1>10. CASE /\ ApplyProvisionMessage(w) \/ ApplyDeployMessage(w) \/ SelectMessage(w)
            /\ ~ Return(w)
  <2>1. PICK pc \in {"provision_kept", "deploy_kept", "select_mark"} :
          \E X : req' = [req EXCEPT ![w] = [@ EXCEPT !.pc = pc, !.msgs = X]]
    BY <1>10 DEF ApplyProvisionMessage, ApplyDeployMessage, SelectMessage, MessageFails
  <2>3. PICK X : req' = [req EXCEPT ![w] = [@ EXCEPT !.pc = pc, !.msgs = X]]
    BY <2>1
  <2> DEFINE r == [req[w] EXCEPT !.pc = pc, !.msgs = X]
  <2>2. req' = [req EXCEPT ![w] = r] /\ r.pc = pc
    BY <2>3, RequestFacts DEF Request
  <2> HIDE DEF r
  <2> QED BY <1>1, <2>2, ServesMoves
<1>11. CASE StopCast(w) /\ ~ Return(w)
  <2> DEFINE r == [req[w] EXCEPT !.pc = "stop_deployment", !.rows = req[w].next,
                                 !.next = {}]
  <2>1. req' = [req EXCEPT ![w] = r] /\ r.pc = "stop_deployment"
    BY <1>11, RequestFacts DEF StopCast, Request
  <2> HIDE DEF r
  <2> QED BY <1>1, <2>1, ServesMoves
<1>12. CASE ResetCreate(w)
  <2> DEFINE r == [req[w] EXCEPT !.pc = "cast_reset", !.sub = db.seq + 1]
  <2>1. req' = [req EXCEPT ![w] = r] /\ r.pc = "cast_reset"
    BY <1>12, RequestFacts DEF ResetCreate, Request
  <2> HIDE DEF r
  <2> QED BY <1>1, <2>1, ServesMoves
<1>13. CASE ClusterDeletionErase(w) /\ ~ Return(w)
  <2> DEFINE r == [req[w] EXCEPT !.pc = "cast_cluster",
                           !.msgs = {Msg("remove_cluster", req[w].sub,
                                         ToErase(db), NoTask)}]
  <2>1. req' = [req EXCEPT ![w] = r] /\ r.pc = "cast_cluster"
    BY <1>13, RequestFacts DEF ClusterDeletionErase, Request
  <2> HIDE DEF r
  <2> QED BY <1>1, <2>1, ServesMoves
<1>14. CASE ClusterDeletionCreate(w)
  <2> DEFINE r == [Idle EXCEPT !.pc = "erase_cluster", !.sub = db.seq + 1]
  <2>1. req' = [req EXCEPT ![w] = r] /\ r.pc = "erase_cluster"
    BY <1>14 DEF ClusterDeletionCreate, Idle
  <2> HIDE DEF r
  <2> QED BY <1>1, <2>1, ServesMoves
<1> QED BY <1>2, <1>3, <1>4, <1>6, <1>7, <1>8, <1>9, <1>10, <1>11, <1>12, <1>13, <1>14

LEMMA FaultServes ==
  ASSUME IInv, NEW w \in Worker, CastRefused(w) \/ Crash(w)
  PROVE  Serves(w)
<1>1. req[w].pc # "off"
  BY DEF CastRefused, Crash, Busy, At
<1>2. CASE Return(w)
  BY <1>1, <1>2, ServesReturns
<1>3. CASE CastRefused(w) /\ ~ Return(w)
  <2> DEFINE r == [req[w] EXCEPT !.pc = AfterDelete(req[w]), !.msgs = {}]
  <2>1. req' = [req EXCEPT ![w] = r] /\ r.pc = AfterDelete(req[w])
    BY <1>3, RequestFacts DEF CastRefused, Request
  <2> HIDE DEF r
  <2>2. r.pc \in {"delete", "provision", "deploy", "start"}
    BY <2>1, AfterNames
  <2> QED BY <1>1, <2>1, <2>2, ServesMoves
<1> QED BY <1>2, <1>3 DEF Crash

\* Everything else leaves the requests alone, and adds no row.
LEMMA OthersSettle ==
  ASSUME IInv, Accounts(db, req, orch, queue),
         \/ \E m \in orch : Progress(m) \/ Finish(m)
         \/ Consume \/ ConsumeUnacknowledged \/ Elsewhere
         \/ UNCHANGED vars
  PROVE  req' = req /\ Settles(db, db')
<1>1. CASE (\E m \in orch : Progress(m) \/ Finish(m)) \/ UNCHANGED vars
  <2>1. req' = req /\ db' = db
    BY <1>1 DEF Progress, Finish, vars
  <2> QED BY <2>1, Untouched, SettlesSame
<1>2. CASE Consume \/ ConsumeUnacknowledged
  <2>1. req' = req /\ queue # <<>> /\ db' \in Outcomes(db, Head(queue))
    BY <1>2 DEF Consume, ConsumeUnacknowledged
  <2> QED BY <2>1, HeadAccounts
<1>3. CASE Elsewhere
  <2>1. PICK S \in {ObsoleteTasks, Deletions} : db' = DeleteTasks(db, S)
    BY <1>3 DEF Elsewhere
  <2>2. S \in SUBSET Named(db, TopNames)
    BY <2>1, ObsoleteTop DEF Deletions, Named, TopNames
  <2>3. Good(db) /\ Good(db') /\ Kept(db, db') /\ db'.seq = db.seq
    BY <2>1, <2>2, KeptDeleteTop DEF IInv
  <2>4. req' = req
    BY <1>3 DEF Elsewhere
  <2> QED BY <2>3, <2>4, KeptSettles
<1> QED BY <1>1, <1>2, <1>3

\* What ApplyLock locks.
Locking == {"deploy", "stop_deployment", "reset_environment"}

\* The inductive invariant: what the one worker that serves has locked are all
\* the tasks that can keep a deployment from starting.
InTurn ==
  \A w \in Worker : (\A v \in Worker \ {w} : req[v] = Off) =>
    /\ OneDeployment /\ ObsoleteGone
    /\ req[w].pc = "locked" => Named(db, Locking) \subseteq req[w].rows

\* The rows that remain are named, and run, as they did.
LEMMA TurnsNames ==
  ASSUME NEW d, NEW e, NEW t \in TaskId, Turns(d, e, t)
  PROVE  /\ \A names : "none" \notin names /\ t \in Named(e, names) => t \in Named(d, names)
         /\ e.task[t].status = "running" => d.task[t].status = "running"
BY DEF Turns, Named

LEMMA SettlesInTurn ==
  ASSUME OneDeployment, ObsoleteGone, Settles(db, db')
  PROVE  OneDeployment' /\ ObsoleteGone' /\ Named(db', Locking) \subseteq Named(db, Locking)
<1>1. \A t \in TaskId :
        /\ \A names : "none" \notin names /\ t \in Named(db', names) => t \in Named(db, names)
        /\ db'.task[t].status = "running" => db.task[t].status = "running"
  BY TurnsNames DEF Settles
<1>2. "none" \notin Locking /\ \A names : Named(db', names) \subseteq TaskId
  BY DEF Locking, Named
<1>3. OneDeployment'
  BY <1>1, <1>2 DEF OneDeployment
<1>4. ObsoleteGone'
  BY <1>1, <1>2 DEF ObsoleteGone
<1> QED BY <1>1, <1>2, <1>3, <1>4

\* A row is added that is not a deployment.
LEMMA AddsInTurn ==
  ASSUME IInv, IInv', OneDeployment, ObsoleteGone, Adds(db, db'), ~ Founding
  PROVE  OneDeployment' /\ ObsoleteGone'
<1> DEFINE n == db'.seq
<1>1. n = db.seq + 1 /\ db.seq \in Int /\ n \in Int
  BY GoodTypes DEF Adds, IInv
<1>2. \A t \in TaskId \ {n} :
        /\ \A names : "none" \notin names /\ t \in Named(db', names) => t \in Named(db, names)
        /\ db'.task[t].status = "running" => db.task[t].status = "running"
  BY TurnsNames DEF Adds
<1>3. db'.task[n].name # "deploy"
  BY DEF Adds
<1> HIDE DEF n
<1>4. \A t \in Named(db', {"deploy"}) :
        /\ t \in Named(db, {"deploy"}) /\ t \in TaskId \ {n}
        /\ db'.task[t].status = "running" => db.task[t].status = "running"
  <2>1. \A t \in Named(db', {"deploy"}) : t \in TaskId \ {n}
    BY <1>3 DEF Named
  <2> QED BY <1>2, <2>1
<1>5. OneDeployment'
  BY <1>4 DEF OneDeployment
<1>6. \A u \in Named(db, {"deploy"}) : u < n
  <2>1. \A u \in TaskId : db.task[u].name # "none" => u <= db.seq /\ u \in Int
    BY GoodTypes DEF IInv, Good, Shape
  <2> QED BY <1>1, <2>1 DEF Named
<1>7. \A t \in Named(db', {"stop_deployment", "reset_environment"}) :
        t = n \/ t \in Named(db, {"stop_deployment", "reset_environment"})
  BY <1>2 DEF Named
<1>8. ObsoleteGone'
  BY <1>4, <1>6, <1>7 DEF ObsoleteGone
<1> QED BY <1>5, <1>8

\* The deployment that is added is the only one that runs, and the obsolete tasks
\* are gone.
LEMMA CreateInTurn ==
  ASSUME IInv, NEW w \in Worker, ApplyCreate(w), Named(db, Locking) \subseteq req[w].rows
  PROVE  OneDeployment' /\ ObsoleteGone'
<1> DEFINE S == Obsolete(w)
           d == DeleteTasks(db, S)
           n == d.seq + 1
<1>1. /\ db' = CreateTask(d, "deploy", NoTask) /\ db.seq < MaxTask
      /\ req[w].pc = "locked" /\ db.cluster # "deleted" /\ ~ DeployStarted(w)
  BY DEF ApplyCreate, At, Alive, Room
<1>2. \A t \in Named(db, Locking) : t \in LockedRows(w)
  BY DEF LockedRows, Named, Exists, Locking
<1>3. \A t \in Named(db, {"deploy"}) : db.task[t].status # "running"
  BY <1>1, <1>2 DEF DeployStarted, Named, Locking
<1>4. \A t \in Named(db, {"stop_deployment", "reset_environment"}) : t \in S
  BY <1>2 DEF Obsolete, ObsoleteTasks, Named, Locking
<1>5. S \in SUBSET Named(db, TopNames)
  <2>1. LockedRows(w) \in SUBSET Named(db, TopNames)
    BY <1>1, RequestFacts DEF LockedRows, RequestOK, Is, Exists, Named
  <2> QED BY <2>1, ObsoleteTop DEF Obsolete
<1>6. Good(d) /\ d.seq = db.seq /\ d.cluster = db.cluster /\ db \in Database
  BY <1>5, RequestFacts, KeptDeleteTop
<1>7. \A t \in TaskId : d.task[t].name # "none" => d.task[t] = db.task[t] /\ t \notin S
  <2>1. S \in SUBSET TaskId
    BY <1>5 DEF Named
  <2>2. \A t \in TaskId : d.task[t] = IF t \in S \/ db.task[t].parent \in S THEN NoRow
                                                                           ELSE db.task[t]
    BY <1>6, <2>1, DeleteTasksRows
  <2> QED BY <2>2 DEF NoRow
<1> HIDE DEF S, d
<1>8. /\ db'.task[n].name = "deploy" /\ n \in TaskId
      /\ \A t \in TaskId : t # n => db'.task[t] = d.task[t]
  <2>1. /\ NoTask \in TaskId \cup {NoTask} /\ "deploy" \in SubtaskNames \cup TopNames
        /\ d.cluster # "deleted" /\ d.seq < MaxTask
    BY <1>1, <1>6 DEF TopNames
  <2>2. /\ db'.seq = d.seq + 1 /\ db'.seq \in TaskId
        /\ db'.task[db'.seq] = [name |-> "deploy", status |-> "running",
                                parent |-> NoTask]
        /\ \A t \in TaskId : t # db'.seq => db'.task[t] = d.task[t]
    BY <1>1, <1>6, <2>1, CreateTaskGood
  <2> QED BY <2>2
<1> HIDE DEF n
<1>9. \A t \in Named(db', {"deploy"}) : t = n \/ db'.task[t].status # "running"
  BY <1>3, <1>7, <1>8 DEF Named
<1>10. Named(db', {"stop_deployment", "reset_environment"}) = {}
  BY <1>4, <1>7, <1>8 DEF Named
<1> QED BY <1>9, <1>10 DEF OneDeployment, ObsoleteGone

LEMMA NextInTurn ==
  ASSUME IInv, Accounts(db, req, orch, queue), InTurn, [Next]_vars
  PROVE  InTurn'
<1> SUFFICES ASSUME NEW w \in Worker, \A v \in Worker \ {w} : req'[v] = Off
             PROVE  /\ OneDeployment' /\ ObsoleteGone'
                    /\ req'[w].pc = "locked" => Named(db', Locking) \subseteq req'[w].rows
  BY DEF InTurn
<1>0. Off.pc = "off"
  BY DEF Off, Idle
<1>1. \/ Serves(w)
      \/ req' = req /\ Settles(db, db')
  <2>1. CASE \E u \in Worker : NewRequest(u) \/ Continue(u) \/ CastRefused(u) \/ Crash(u)
    <3>1. PICK u \in Worker : Serves(u)
      BY <2>1, NewRequestServes, ContinueServes, FaultServes
    <3>2. u = w
      BY <1>0, <3>1 DEF Serves
    <3> QED BY <3>1, <3>2
  <2>2. CASE \/ \E m \in orch : Progress(m) \/ Finish(m)
             \/ Consume \/ ConsumeUnacknowledged \/ Elsewhere
             \/ UNCHANGED vars
    BY <2>2, OthersSettle
  <2> QED BY <2>1, <2>2 DEF Next
<1>2. \A v \in Worker \ {w} : req[v] = Off
  BY <1>1 DEF Serves
<1>3. /\ OneDeployment /\ ObsoleteGone
      /\ req[w].pc = "locked" => Named(db, Locking) \subseteq req[w].rows
  BY <1>2 DEF InTurn
<1>4. CASE req' = req /\ Settles(db, db')
  BY <1>3, <1>4, SettlesInTurn
<1>5. CASE Serves(w)
  <2>1. IInv' /\ Evolves(db, db')
    BY NextInvariant
  <2>2. CASE ApplyLock(w)
    <3>1. db' = db /\ req'[w].rows = Named(db, Locking)
      <4> DEFINE r == [Idle EXCEPT !.pc = "locked", !.rows = Named(db, Locking)]
      <4>1. req' = [req EXCEPT ![w] = r] /\ db' = db
        BY <2>2 DEF ApplyLock, Locking
      <4>2. r.rows = Named(db, Locking)
        BY DEF Idle
      <4> HIDE DEF r
      <4> QED BY <4>1, <4>2, RequestFacts
    <3> QED BY <1>3, <3>1 DEF OneDeployment, ObsoleteGone
  <2>3. CASE ~ ApplyLock(w)
    <3>1. req'[w].pc # "locked"
      BY <1>5, <2>3 DEF Serves
    <3>2. CASE Settles(db, db')
      BY <1>3, <3>1, <3>2, SettlesInTurn
    <3>3. CASE Adds(db, db') /\ ~ Founding
      BY <1>3, <2>1, <3>1, <3>3, AddsInTurn
    <3>4. CASE Founding
      <4>1. PICK u \in Worker : ApplyCreate(u)
        BY <3>4 DEF Founding
      <4>2. req[u].pc = "locked" /\ u = w
        BY <1>0, <1>2, <4>1 DEF ApplyCreate, At
      <4> QED BY <1>3, <3>1, <4>1, <4>2, CreateInTurn
    <3> QED BY <2>1, <3>2, <3>3, <3>4 DEF Evolves
  <2> QED BY <2>2, <2>3
<1> QED BY <1>1, <1>4, <1>5

LEMMA AlwaysInTurn == AnySpec => []InTurn
<1>1. AnyInit => InTurn
  <2> SUFFICES ASSUME AnyInit PROVE InTurn
    OBVIOUS
  <2>1. db.task = [t \in TaskId |-> NoRow]
    BY DEF AnyInit, InitOf
  <2>2. \A names : "none" \notin names => Named(db, names) = {}
    BY <2>1 DEF Named, NoRow
  <2>3. \A v \in Worker : req[v].pc # "locked"
    BY DEF AnyInit, InitOf, Off, Idle
  <2>4. Named(db, {"deploy"}) = {}
    BY <2>2
  <2> QED BY <2>3, <2>4 DEF InTurn, OneDeployment, ObsoleteGone
<1>2. IInv /\ Accounts(db, req, orch, queue) /\ InTurn /\ [Next]_vars => InTurn'
  BY NextInTurn
<1> QED BY <1>1, <1>2, AlwaysAccounted, PTL DEF AnySpec

\* While one worker serves the requests, at most one deployment of the environment
\* runs (DeploymentAlreadyStarted in _remove_obsolete_tasks), whatever replies,
\* crashes and redeliveries come in between.
THEOREM OneDeploymentAlways == MCSpec => []OneDeploymentInTurn
<1>1. InTurn => OneDeploymentInTurn
  BY DEF InTurn, OneDeploymentInTurn, Alone
<1> QED BY <1>1, MCInitIsAny, AlwaysInTurn, PTL DEF MCSpec, AnySpec

\* While one worker serves the requests, every stop or reset there is has been
\* asked for after the deployment there is (_remove_obsolete_tasks): no reply to an
\* older one deletes its tasks.
THEOREM ObsoleteGoneAlways == MCSpec => []ObsoleteGoneInTurn
<1>1. InTurn => ObsoleteGoneInTurn
  BY DEF InTurn, ObsoleteGoneInTurn, Alone
<1> QED BY <1>1, MCInitIsAny, AlwaysInTurn, PTL DEF MCSpec, AnySpec

\* The rows of the checked instances implement a TaskTable.
THEOREM CheckedRowsImplementTable == MCSpec => ImplementsTaskTable
BY MCInitIsAny, AnyRowsImplementTable, PTL DEF MCSpec, AnySpec

------------------------------------------------------------------------------
(***************************************************************************)
(* The pending release: only the end of an update, and who chooses it,     *)
(* touch it.                                                               *)
(***************************************************************************)
LEMMA TasksKeepRelease ==
  ASSUME NEW d, NEW S, NEW st
  PROVE  /\ KeepsRelease(d, DeleteTasks(d, S)) /\ KeepsRelease(d, SetStatus(d, S, st))
         /\ KeepsRelease(d, DropChecks(d, S))
BY SetsKeepRelease DEF DeleteTasks, SetStatus, DropChecks

LEMMA StepsKeepRelease ==
  ASSUME NEW d, NEW S, NEW T, NEW st, NEW w, NEW name
  PROVE  /\ KeepsRelease(d, ToProvisioned(d, S)) /\ KeepsRelease(d, MarkProvisioning(d, S))
         /\ KeepsRelease(d, DeleteCluster(d)) /\ KeepsRelease(db, NewPart(w, name))
<1>1. KeepsRelease(d, ToProvisioned(d, S))
  <2> DEFINE e == GiveRoles(d, S)
             X == S \cap NodesIn(d, {"deploying"})
  <2>1. ToProvisioned(d, S) = SetNodeStatus(e, X, "provisioned")
    BY DEF ToProvisioned
  <2> HIDE DEF e, X
  <2>2. KeepsRelease(e, SetNodeStatus(e, X, "provisioned"))
    BY NodesKeepRelease
  <2>3. KeepsRelease(d, e)
    BY NodesKeepRelease DEF e
  <2> QED BY <2>1, <2>2, <2>3, KeepsReleaseTransitive
<1>2. KeepsRelease(d, MarkProvisioning(d, S))
  <2> DEFINE e == ClearAddition(d, S)
  <2>1. MarkProvisioning(d, S) = SetNodeStatus(e, S, "provisioning")
    BY DEF MarkProvisioning
  <2> HIDE DEF e
  <2>2. KeepsRelease(e, SetNodeStatus(e, S, "provisioning"))
    BY NodesKeepRelease
  <2>3. KeepsRelease(d, e)
    BY NodesKeepRelease DEF e
  <2> QED BY <2>1, <2>2, <2>3, KeepsReleaseTransitive
<1>3. KeepsRelease(d, DeleteCluster(d))
  <2> DEFINE e == DeleteNodes(d, ClusterNodes(d))
             f == DeleteTasks(e, TaskId)
  <2>1. DeleteCluster(d) = SetCluster(f, "deleted")
    BY DEF DeleteCluster
  <2>2. KeepsRelease(d, e)
    BY NodesKeepRelease
  <2> HIDE DEF e
  <2>3. KeepsRelease(e, f)
    BY TasksKeepRelease
  <2> HIDE DEF f
  <2>4. KeepsRelease(f, SetCluster(f, "deleted"))
    BY SetsKeepRelease
  <2> QED BY <2>1, <2>2, <2>3, <2>4, KeepsReleaseTransitive
<1>4. KeepsRelease(db, NewPart(w, name))
  <2> DEFINE e == CreateTask(db, name, req[w].sup)
             p == req[w].sup
  <2>1. NewPart(w, name) = DropChecks(e, p)
    BY DEF NewPart
  <2>2. KeepsRelease(db, e)
    BY SetsKeepRelease
  <2> HIDE DEF e, p
  <2>3. KeepsRelease(e, DropChecks(e, p))
    BY TasksKeepRelease
  <2> QED BY <2>1, <2>2, <2>3, KeepsReleaseTransitive
<1> QED BY <1>1, <1>2, <1>3, <1>4

\* Task._update_cluster_data.
LEMMA DataKeepsRelease ==
  ASSUME NEW d, NEW t, d.task[t].name # "update" \/ d.task[t].status # "ready"
  PROVE  KeepsRelease(d, UpdateClusterData(d, t))
<1>1. \A x, st : KeepsRelease(d, SetCluster(SetNodeStatus(d, x, "ready"), st))
  BY SetsKeepRelease, NodesKeepRelease, KeepsReleaseTransitive
<1>2. \A x, y, st : KeepsRelease(d, SetCluster(NodesToError(d, x, y), st))
  BY SetsKeepRelease, NodesKeepRelease, KeepsReleaseTransitive
<1>3. KeepsRelease(d, d) /\ \A st : KeepsRelease(d, SetCluster(d, st))
  BY SetsKeepRelease
<1> QED BY <1>1, <1>2, <1>3 DEF UpdateClusterData

LEMMA OneKeepsRelease ==
  ASSUME NEW d \in Database, NEW t \in TaskId, NEW st \in TaskStatuses,
         d.task[t].name # "update" \/ st # "ready"
  PROVE  KeepsRelease(d, UpdateOne(d, t, st))
<1> DEFINE e == SetStatus(d, {t}, st)
<1>1. /\ e.task[t].name = d.task[t].name
      /\ e.task[t].status = IF t \in {t} THEN st ELSE d.task[t].status
  BY SetStatusRows DEF SameShape
<1>2. KeepsRelease(d, e)
  BY TasksKeepRelease
<1>3. UpdateOne(d, t, st) = UpdateClusterData(e, t)
  BY DEF UpdateOne
<1> HIDE DEF e
<1>4. KeepsRelease(e, UpdateClusterData(e, t))
  BY <1>1, DataKeepsRelease
<1> QED BY <1>2, <1>3, <1>4, KeepsReleaseTransitive

LEMMA UpdateKeepsRelease ==
  ASSUME NEW d, Good(d), NEW t \in TaskId, NEW st \in TaskStatuses,
         Exists(d, t), d.task[t].name # "update" \/ st # "ready"
  PROVE  KeepsRelease(d, UpdateTask(d, t, st))
<1> DEFINE p == d.task[t].parent
           d1 == UpdateOne(d, t, st)
<1>1. d \in Database /\ d1 \in Database /\ SameShape(d, d1)
  BY UpdateOneRows DEF Good, SameShape
<1>2. KeepsRelease(d, d1)
  BY <1>1, OneKeepsRelease
<1>3. UpdateTask(d, t, st) = IF p = NoTask THEN d1 ELSE UpdateParent(d1, p)
  BY DEF UpdateTask
<1>4. CASE p # NoTask
  <2> DEFINE X == {u \in Subtasks(d1, p) : d1.task[u].status \notin {"ready", "error"}}
             d2 == SetStatus(d1, X, "error")
  <2>1. p \in TaskId /\ d.task[p].name = "deploy"
    BY <1>4, GoodTypes
  <2>2. d1.task[p].name = "deploy" /\ "ready" \in TaskStatuses /\ "error" \in TaskStatuses
    BY <1>1, <2>1 DEF SameShape, TaskStatuses
  <2> HIDE DEF d1, p
  <2>3. d2 \in Database /\ d2.task[p].name = "deploy"
    BY <1>1, <2>1, <2>2, SetStatusRows DEF SameShape
  <2>4. KeepsRelease(d1, d2)
    BY TasksKeepRelease
  <2>5. UpdateParent(d1, p) \in {UpdateOne(d1, p, "ready"), UpdateOne(d2, p, "error"), d1}
    <3>1. X = Subtasks(d1, p) \ {u \in Subtasks(d1, p) :
                                   d1.task[u].status \in {"ready", "error"}}
      OBVIOUS
    <3> HIDE DEF X
    <3> QED BY <3>1 DEF UpdateParent
  <2> HIDE DEF d2
  <2>6. KeepsRelease(d1, UpdateOne(d1, p, "ready"))
    BY <1>1, <2>1, <2>2, OneKeepsRelease
  <2>7. KeepsRelease(d2, UpdateOne(d2, p, "error"))
    BY <2>1, <2>2, <2>3, OneKeepsRelease
  <2>8. KeepsRelease(d, UpdateParent(d1, p))
    BY <1>2, <2>4, <2>5, <2>6, <2>7, KeepsReleaseTransitive
  <2> QED BY <1>3, <1>4, <2>8
<1> QED BY <1>2, <1>3, <1>4

\* What fails the task of a request touches no release.
LEMMA FailKeepsRelease ==
  ASSUME IInv, NEW w \in Worker, NEW pc \in SubPlaces, At(w, pc),
         NEW d, SameTasks(db, d), KeepsRelease(db, d)
  PROVE  KeepsRelease(db, UpdateTask(d, req[w].sub, "error"))
<1> DEFINE t == req[w].sub
<1>1. t \in TaskId /\ Exists(db, t) /\ Good(db)
  BY SubExists DEF IInv
<1>2. Good(d) /\ Exists(d, t) /\ "error" \in TaskStatuses
  BY <1>1, SameTasksGood DEF SameTasks, Exists, TaskStatuses
<1> HIDE DEF t
<1>3. KeepsRelease(d, UpdateTask(d, t, "error"))
  BY <1>1, <1>2, UpdateKeepsRelease
<1> QED BY <1>3, KeepsReleaseTransitive DEF t

\* The check that fails the deployment.
LEMMA CheckKeepsRelease ==
  ASSUME IInv, NEW w \in Worker,
         \/ ApplyCheck(w) /\ db' = UpdateTask(CreateTask(db, "check_networks", req[w].sup),
                                              db.seq + 1, "error")
         \/ /\ ApplyCheckBefore(w)
            /\ db' = UpdateTask(NewPart(w, "check_before_deployment"), db.seq + 1, "error"),
         Room
  PROVE  KeepsRelease(db, db')
<1>1. PICK e : /\ e \in {CreateTask(db, "check_networks", req[w].sup),
                         NewPart(w, "check_before_deployment")}
               /\ db' = UpdateTask(e, db.seq + 1, "error")
  OBVIOUS
<1>2. PICK pc \in {"check", "check_before"} : At(w, pc)
  BY DEF ApplyCheck, ApplyCheckBefore
<1>3. /\ req[w].sup \in TaskId /\ db.task[req[w].sup].name = "deploy"
      /\ Good(db)
  BY <1>2, SupExists DEF IInv
<1>4. db.cluster # "deleted"
  <2>1. db.task[req[w].sup].name # "none"
    BY <1>3
  <2> QED BY <1>3, <2>1 DEF Good, Gone
<1>5. db.seq < MaxTask
  BY DEF Room
<1>6. /\ Good(e) /\ e.seq = db.seq + 1 /\ e.seq \in TaskId
      /\ e.task[e.seq].name \in Checks
  <2> DEFINE c == CreateTask(db, "check_networks", req[w].sup)
             b == NewPart(w, "check_before_deployment")
  <2>1. /\ Good(c) /\ c.seq = db.seq + 1 /\ c.seq \in TaskId
        /\ c.task[c.seq] = [name |-> "check_networks", status |-> "running",
                            parent |-> req[w].sup]
    <3>1. Idle = Idle
      OBVIOUS
    <3> QED BY <1>3, <1>4, <1>5, <3>1, CheckRows
  <2>2. /\ Good(b) /\ b.seq = db.seq + 1 /\ b.seq \in TaskId
        /\ b.task[b.seq] = [name |-> "check_before_deployment", status |-> "running",
                            parent |-> req[w].sup]
    <3>1. /\ "check_before_deployment" \in SubtaskNames \ {"check_networks"}
          /\ "check_before_deployment" \notin Reporting
      BY DEF SubtaskNames, Checks, Reporting, Progressing
    <3>2. Idle = Idle
      OBVIOUS
    <3> QED BY <1>3, <1>4, <1>5, <3>1, <3>2, PartRows
  <2>3. e = c \/ e = b
    BY <1>1
  <2> HIDE DEF c, b
  <2>4. c.task[c.seq].name \in Checks /\ b.task[b.seq].name \in Checks
    BY <2>1, <2>2 DEF Checks
  <2> QED BY <2>1, <2>2, <2>3, <2>4
<1>7. KeepsRelease(db, e)
  BY <1>1, SetsKeepRelease, StepsKeepRelease
<1>8. /\ e.task[e.seq].name # "update" /\ Exists(e, e.seq)
      /\ "error" \in TaskStatuses
  BY <1>6 DEF Checks, Exists, TaskStatuses
<1>9. KeepsRelease(e, UpdateTask(e, e.seq, "error"))
  BY <1>6, <1>8, UpdateKeepsRelease
<1> QED BY <1>1, <1>6, <1>7, <1>9, KeepsReleaseTransitive

LEMMA ContinueKeepsRelease ==
  ASSUME IInv, NEW w \in Worker, Continue(w)
  PROVE  KeepsRelease(db, db')
<1>0. db \in Database /\ SameTasks(db, db) /\ KeepsRelease(db, db)
  BY SetsKeepRelease DEF IInv, Good, SameTasks
<1>1. CASE \/ ApplyCastDelete(w) \/ ApplyAborted(w) \/ ApplyKeepMessage(w)
           \/ ApplyCast(w) \/ StopCast(w) \/ ResetCast(w)
           \/ ClusterDeletionRefuse(w) \/ ClusterDeletionCast(w) \/ RequestFails(w)
  <2>1. db' = db
    BY <1>1 DEF ApplyCastDelete, ApplyAborted, ApplyKeepMessage, ApplyCast, StopCast,
       ResetCast, ClusterDeletionRefuse, ClusterDeletionCast, RequestFails
  <2> QED BY <1>0, <2>1
<1>2. CASE ApplyRefuse(w)
  BY <1>0, <1>2, TasksKeepRelease DEF ApplyRefuse
<1>3. CASE ApplyCreate(w)
  <2> DEFINE d == DeleteTasks(db, Obsolete(w))
  <2>1. db' = CreateTask(d, "deploy", NoTask) /\ KeepsRelease(db, d)
    BY <1>3, TasksKeepRelease DEF ApplyCreate
  <2> HIDE DEF d
  <2>2. KeepsRelease(d, CreateTask(d, "deploy", NoTask))
    BY SetsKeepRelease
  <2> QED BY <2>1, <2>2, KeepsReleaseTransitive
<1>4. CASE ApplyCheck(w) \/ ApplyCheckBefore(w)
  <2>1. \/ db' = db
        \/ db' = CreateTask(db, "check_networks", req[w].sup)
        \/ /\ Room
           /\ \/ /\ ApplyCheck(w)
                 /\ db' = UpdateTask(CreateTask(db, "check_networks", req[w].sup),
                                     db.seq + 1, "error")
              \/ /\ ApplyCheckBefore(w)
                 /\ db' = UpdateTask(NewPart(w, "check_before_deployment"),
                                     db.seq + 1, "error")
    BY <1>4 DEF ApplyCheck, ApplyCheckBefore
  <2> QED BY <1>0, <2>1, SetsKeepRelease, CheckKeepsRelease
<1>5. CASE ApplyDelete(w)
  <2> DEFINE d == NewPart(w, "node_deletion")
  <2>1. db' = EraseDiscovered(d) /\ KeepsRelease(db, d)
    BY <1>5, StepsKeepRelease DEF ApplyDelete
  <2> HIDE DEF d
  <2>2. KeepsRelease(d, EraseDiscovered(d))
    BY NodesKeepRelease
  <2> QED BY <2>1, <2>2, KeepsReleaseTransitive
<1>6. CASE ApplyProvision(w) \/ ApplyDeploy(w)
  BY <1>6, StepsKeepRelease DEF ApplyProvision, ApplyDeploy, ApplySubtask
<1>7. CASE ApplyProvisionMessage(w) \/ StopGone(w)
  <2>1. PICK pc \in SubPlaces : At(w, pc)
    BY <1>7 DEF ApplyProvisionMessage, StopGone, SubPlaces
  <2>2. db' = db \/ db' = UpdateTask(db, req[w].sub, "error")
    BY <1>7 DEF ApplyProvisionMessage, StopGone, MessageFails
  <2> QED BY <1>0, <2>1, <2>2, FailKeepsRelease
<1>8. CASE ApplyDeployMessage(w)
  <2> DEFINE S == req[w].dep
             d == IF Known(db, S) = S THEN ToProvisioned(db, S) ELSE db
  <2>1. At(w, "deploy_message") /\ "deploy_message" \in SubPlaces
    BY <1>8 DEF ApplyDeployMessage, SubPlaces
  <2>2. db' = UpdateTask(d, req[w].sub, "error") \/ db' = ClearAddition(d, S)
    BY <1>8 DEF ApplyDeployMessage, MessageFails
  <2>3. SameTasks(db, d) /\ KeepsRelease(db, d)
    BY <1>0, ToProvisionedSame, StepsKeepRelease
  <2> HIDE DEF d, S
  <2>4. KeepsRelease(d, ClearAddition(d, S))
    BY NodesKeepRelease
  <2>5. KeepsRelease(db, UpdateTask(d, req[w].sub, "error"))
    BY <2>1, <2>3, FailKeepsRelease
  <2> QED BY <2>2, <2>3, <2>4, <2>5, KeepsReleaseTransitive
<1>9. CASE ApplyStart(w) \/ ApplyMarkCluster(w)
  BY <1>9, NodesKeepRelease, SetsKeepRelease DEF ApplyStart, ApplyMarkCluster
<1>10. CASE SelectMessage(w)
  <2> DEFINE d == UpdateTask(db, req[w].sub, "error")
             S == req[w].prov
  <2>1. db' = db \/ db' = MarkProvisioning(d, S)
    BY <1>10 DEF SelectMessage
  <2>2. At(w, "select_message") /\ "select_message" \in SubPlaces
    BY <1>10 DEF SelectMessage, SubPlaces
  <2>3. KeepsRelease(db, d)
    BY <1>0, <2>2, FailKeepsRelease
  <2> HIDE DEF d, S
  <2>4. KeepsRelease(d, MarkProvisioning(d, S))
    BY StepsKeepRelease
  <2> QED BY <1>0, <2>1, <2>3, <2>4, KeepsReleaseTransitive
<1>11. CASE SelectMark(w)
  <2> DEFINE d == MarkProvisioning(db, req[w].prov)
             S == req[w].dep
  <2>1. db' = SetNodeStatus(d, S, "deploying") /\ KeepsRelease(db, d)
    BY <1>11, StepsKeepRelease DEF SelectMark
  <2> HIDE DEF d, S
  <2>2. KeepsRelease(d, SetNodeStatus(d, S, "deploying"))
    BY NodesKeepRelease
  <2> QED BY <2>1, <2>2, KeepsReleaseTransitive
<1>12. CASE ResetDelete(w) \/ ResetCreate(w)
  BY <1>12, TasksKeepRelease, SetsKeepRelease DEF ResetDelete, ResetCreate
<1>13. CASE ClusterDeletionErase(w)
  <2>1. db' = DeleteCluster(db) \/ db' = EraseDiscovered(db)
    BY <1>13 DEF ClusterDeletionErase
  <2> QED BY <2>1, NodesKeepRelease, StepsKeepRelease
<1>14. CASE ClusterDeletionCreate(w)
  <2> DEFINE d1 == DeleteTasks(db, DeletionsSeen(w))
             d2 == MarkForDeletion(d1)
             d3 == SetCluster(d2, "remove")
  <2>1. db' = CreateTask(d3, "cluster_deletion", NoTask) /\ KeepsRelease(db, d1)
    BY <1>14, TasksKeepRelease DEF ClusterDeletionCreate
  <2> HIDE DEF d1
  <2>2. KeepsRelease(d1, d2)
    BY NodesKeepRelease
  <2> HIDE DEF d2
  <2>3. KeepsRelease(d2, d3)
    BY SetsKeepRelease
  <2> HIDE DEF d3
  <2>4. KeepsRelease(d3, CreateTask(d3, "cluster_deletion", NoTask))
    BY SetsKeepRelease
  <2> QED BY <2>1, <2>2, <2>3, <2>4, KeepsReleaseTransitive
<1> QED BY <1>1, <1>2, <1>3, <1>4, <1>5, <1>6, <1>7, <1>8, <1>9, <1>10, <1>11,
           <1>12, <1>13, <1>14 DEF Continue

\* An update that ends well makes the cluster operational, and touches no node.
LEMMA UpdateEnds ==
  ASSUME NEW d \in Database, NEW t \in TaskId, d.task[t].name = "update"
  PROVE  LET e == UpdateOne(d, t, "ready")
         IN /\ e.cluster = "operational" /\ NodesIn(e, {"error"}) = NodesIn(d, {"error"})
            /\ t \in Named(e, {"update"}) /\ e.task[t].status = "ready"
<1> DEFINE d1 == SetStatus(d, {t}, "ready")
           rows == [u \in TaskId |-> IF u \in {t} THEN [d.task[u] EXCEPT !.status = "ready"]
                                                  ELSE d.task[u]]
           e == [SetCluster(d1, "operational") EXCEPT !.release = FALSE]
<1>1. "ready" \in TaskStatuses
  BY DEF TaskStatuses
<1>2. /\ d1 \in Database /\ d1.task[t].name = "update"
      /\ d1.task[t].status = IF t \in {t} THEN "ready" ELSE d.task[t].status
  BY <1>1, SetStatusRows DEF SameShape
<1>3. rows \in [TaskId -> TaskRow]
  <2>1. \A u \in TaskId : /\ d.task[u] \in TaskRow
                          /\ [d.task[u] EXCEPT !.status = "ready"] \in TaskRow
    BY <1>1, RowTypes DEF TaskRow
  <2> QED BY <2>1
<1>4. d1.node = d.node
  <2>1. d1 = SetTasks(d, rows)
    BY DEF SetStatus
  <2> HIDE DEF rows
  <2> QED BY <1>3, <2>1, SetTasksType
<1> HIDE DEF d1
<1>5. e.cluster = "operational" /\ e.node = d1.node /\ e.task = d1.task
  BY <1>2 DEF SetCluster, Database
<1>6. UpdateOne(d, t, "ready") = e
  <2>1. UpdateOne(d, t, "ready") = UpdateClusterData(d1, t)
    BY DEF UpdateOne, d1
  <2> HIDE DEF e
  <2>2. UpdateClusterData(d1, t) = e
    BY <1>2 DEF UpdateClusterData, e
  <2> QED BY <2>1, <2>2
<1> HIDE DEF e
<1>7. NodesIn(e, {"error"}) = NodesIn(d, {"error"})
  BY <1>4, <1>5 DEF NodesIn, ClusterNodes
<1>8. t \in Named(e, {"update"}) /\ e.task[t].status = "ready"
  BY <1>2, <1>5 DEF Named
<1> QED BY <1>5, <1>6, <1>7, <1>8

\* Of the replies, only the success of an update takes the release.
Applied(e) ==
  /\ \E t \in Named(e, {"update"}) : e.task[t].status = "ready"
  /\ NodesIn(e, {"error"}) = {} /\ e.cluster = "operational"

LEMMA DeployRespRelease ==
  ASSUME NEW d, Good(d), NEW m \in Reply, Exists(d, m.task),
         d.task[m.task].name # "deploy"
  PROVE  KeepsRelease(d, DeployResp(d, m)) \/ Applied(DeployResp(d, m))
<1> DEFINE st == IF m.status = "ready" THEN "ready" ELSE "deploying"
           d1 == SetNodeStatus(d, Known(d, m.good), st)
           d2 == NodesToError(d1, Known(d, m.bad), "deploy")
           new == IF m.status = "ready" /\ NodesIn(d2, {"error"}) # {} THEN "error"
                                                                       ELSE m.status
           t == m.task
<1>1. d \in Database /\ t \in TaskId /\ m.status \in TaskStatuses
  BY DEF Good, Reply
<1>2. SameTasks(d, d1) /\ KeepsRelease(d, d1)
  <2>1. st \in NodeStatuses
    BY DEF NodeStatuses
  <2> HIDE DEF st
  <2> QED BY <1>1, <2>1, SetNodeStatusSame, NodesKeepRelease
<1> HIDE DEF d1
<1>3. SameTasks(d1, d2) /\ KeepsRelease(d1, d2)
  <2>1. "deploy" \in NodeErrors /\ d1 \in Database
    BY <1>2 DEF NodeErrors, SameTasks
  <2> QED BY <2>1, NodesToErrorSame, NodesKeepRelease
<1>4. DeployResp(d, m) = UpdateTask(d2, t, new)
  BY DEF DeployResp, d1
<1>5. SameTasks(d, d2) /\ KeepsRelease(d, d2)
  BY <1>2, <1>3, SameTasksTransitive, KeepsReleaseTransitive
<1>6. new \in TaskStatuses /\ (new = "ready" => NodesIn(d2, {"error"}) = {})
  BY <1>1 DEF TaskStatuses
<1> HIDE DEF d2, new, t
<1>7. Good(d2) /\ Exists(d2, t) /\ d2.task[t].name = d.task[t].name
  BY <1>5, SameTasksGood DEF SameTasks, Exists, t
<1>8. CASE d2.task[t].name # "update" \/ new # "ready"
  BY <1>1, <1>4, <1>5, <1>6, <1>7, <1>8, UpdateKeepsRelease, KeepsReleaseTransitive
<1>9. CASE d2.task[t].name = "update" /\ new = "ready"
  <2>1. d2.task[t].parent = NoTask /\ d2 \in Database
    BY <1>1, <1>7, <1>9 DEF Good, Shape, SubtaskNames, Checks
  <2>2. UpdateTask(d2, t, new) = UpdateOne(d2, t, "ready")
    BY <1>9, <2>1 DEF UpdateTask
  <2>3. Applied(UpdateOne(d2, t, "ready"))
    BY <1>1, <1>6, <1>9, <2>1, UpdateEnds DEF Applied
  <2> QED BY <1>4, <2>2, <2>3
<1> QED BY <1>8, <1>9

LEMMA ThenUpdateKeepsRelease ==
  ASSUME NEW d, Good(d), NEW x, SameTasks(d, x), KeepsRelease(d, x),
         NEW t \in TaskId, NEW st \in TaskStatuses, Exists(d, t),
         d.task[t].name # "update"
  PROVE  KeepsRelease(d, UpdateTask(x, t, st))
<1>1. Good(x) /\ Exists(x, t) /\ x.task[t].name # "update"
  BY SameTasksGood DEF SameTasks, Exists
<1> QED BY <1>1, UpdateKeepsRelease, KeepsReleaseTransitive

LEMMA StopKeepsRelease ==
  ASSUME NEW d, Good(d), NEW m \in Reply, Exists(d, m.task),
         d.task[m.task].name = "stop_deployment"
  PROVE  KeepsRelease(d, StopDeploymentResp(d, m))
<1> DEFINE t  == m.task
           d1 == SetCluster(d, "stopped")
           S  == StoppedTasks(d)
           d2 == DeleteTasks(d1, S)
           d3 == ResetToDiscover(d2, m.good \cap ClusterNodes(d))
<1>0. d \in Database /\ t \in TaskId /\ m.status \in TaskStatuses
  BY DEF Good, Reply
<1>1. SameTasks(d, d1) /\ KeepsRelease(d, d1)
  BY <1>0, SetClusterSame, SetsKeepRelease DEF ClusterStatuses
<1>2. Good(d1) /\ d1.task = d.task
  BY <1>1, SameTasksGood DEF SameTasks
<1> HIDE DEF d1
<1>3. S \in SUBSET TaskId /\ t \notin S /\ d.task[t].parent = NoTask
  BY <1>0 DEF StoppedTasks, Named, Good, Shape, SubtaskNames, Checks
<1>4. \A u \in S : d1.task[u].parent = NoTask \/ d1.task[u].parent \in S
  <2> SUFFICES ASSUME NEW u \in S, d.task[u].parent # NoTask
               PROVE  d.task[u].parent \in S
    BY <1>2
  <2>1. d.task[u].parent \in TaskId /\ d.task[d.task[u].parent].name = "deploy"
    BY <1>3, GoodTypes
  <2> QED BY <2>1 DEF StoppedTasks, Named
<1> HIDE DEF S
<1>5. Good(d2) /\ d2.task[t] = d.task[t] /\ KeepsRelease(d1, d2)
  <2>1. t \in TaskId \ S /\ d1.task[t].parent = NoTask
    BY <1>0, <1>2, <1>3
  <2> HIDE DEF t
  <2>2. Good(d2) /\ d2.task[t] = d1.task[t]
    BY <1>2, <1>3, <1>4, <2>1, DeleteTasksGood
  <2> QED BY <1>2, <2>2, TasksKeepRelease
<1> HIDE DEF d2
<1>6. SameTasks(d2, d3) /\ KeepsRelease(d2, d3)
  BY <1>5, ResetToDiscoverSame, NodesKeepRelease DEF Good
<1> HIDE DEF d3, t
<1>7. KeepsRelease(d2, UpdateTask(d3, t, "ready"))
  <2>1. Exists(d2, t) /\ d2.task[t].name # "update" /\ "ready" \in TaskStatuses
    BY <1>0, <1>5 DEF Exists, TaskStatuses, t
  <2> QED BY <1>0, <1>5, <1>6, <2>1, ThenUpdateKeepsRelease
<1>8. KeepsRelease(d, UpdateTask(d, t, m.status))
  <2>1. SameTasks(d, d) /\ KeepsRelease(d, d)
    BY <1>0, SetsKeepRelease DEF SameTasks
  <2>2. Exists(d, t) /\ d.task[t].name # "update"
    BY DEF t
  <2> QED BY <1>0, <2>1, <2>2, ThenUpdateKeepsRelease
<1>9. StopDeploymentResp(d, m) \in {UpdateTask(d3, t, "ready"), UpdateTask(d, t, m.status)}
  BY DEF StopDeploymentResp, d3, d2, d1, S, t
<1> QED BY <1>1, <1>5, <1>7, <1>8, <1>9, KeepsReleaseTransitive

LEMMA HeadRelease ==
  ASSUME IInv, queue # <<>>, NEW e \in Outcomes(db, Head(queue))
  PROVE  KeepsRelease(db, e) \/ Applied(e)
<1> DEFINE m == queue[1]
           t == m.task
<1>0. Good(db) /\ db \in Database /\ KeepsRelease(db, db)
  BY SetsKeepRelease DEF IInv, Good
<1>1. m \in Reply /\ Ref(db, m) /\ Head(queue) = m
  <2>1. queue \in Seq(Reply)
    BY DEF IInv, TypeOK
  <2>2. 1 \in 1 .. Len(queue) /\ m \in Reply /\ Head(queue) = m
    BY <2>1
  <2> QED BY <2>2 DEF IInv, Refs
<1>2. t \in TaskId /\ m.method \in Methods /\ m.status \in TaskStatuses
  BY <1>1 DEF Reply
<1>3. CASE ~ Exists(db, t)
  <2>1. e = db
    BY <1>1, <1>3 DEF Outcomes
  <2> QED BY <1>0, <2>1
<1>4. CASE Exists(db, t)
  <2>1. db.task[t].name \in Answered[m.method]
    BY <1>1, <1>2, <1>4 DEF Ref, Is, Exists
  <2> HIDE DEF m
  <2>2. ASSUME NEW x, SameTasks(db, x), KeepsRelease(db, x), m.method # "deploy"
        PROVE  /\ KeepsRelease(db, UpdateTask(x, t, m.status))
               /\ KeepsRelease(db, UpdateTask(x, m.task, m.status))
    <3>1. db.task[t].name # "update"
      BY <1>2, <2>1, <2>2 DEF Answered, Methods
    <3> QED BY <1>0, <1>2, <1>4, <2>2, <3>1, ThenUpdateKeepsRelease
  <2>3. CASE m.method = "deploy"
    <3>1. e = db \/ e = DeployResp(db, m)
      BY <1>1, <1>4, <2>3 DEF Outcomes, DeployOutcome
    <3>2. db.task[m.task].name # "deploy"
      BY <2>1, <2>3 DEF Answered, Methods
    <3> QED BY <1>0, <1>1, <1>4, <3>1, <3>2, DeployRespRelease
  <2>4. CASE m.method = "provision"
    <3>1. e = ProvisionResp(db, m)
      BY <1>1, <1>4, <2>4 DEF Outcomes
    <3>2. PICK x : /\ SameTasks(db, x) /\ KeepsRelease(db, x)
                   /\ e = UpdateTask(x, m.task, m.status)
      BY <1>0, <1>1, <3>1, ProvisionRespShape
    <3> QED BY <2>2, <2>4, <3>2
  <2>5. CASE m.method = "stop_deploy_task"
    <3>1. e = StopDeploymentResp(db, m)
      BY <1>1, <1>4, <2>5 DEF Outcomes
    <3>2. db.task[m.task].name = "stop_deployment"
      BY <2>1, <2>5 DEF Answered, Methods
    <3> QED BY <1>0, <1>1, <1>4, <3>1, <3>2, StopKeepsRelease
  <2>6. CASE m.method = "reset_environment"
    <3>1. e = ResetEnvironmentResp(db, m)
      BY <1>1, <1>4, <2>6 DEF Outcomes
    <3>2. PICK x : /\ SameTasks(db, x) /\ KeepsRelease(db, x)
                   /\ e = UpdateTask(x, m.task, m.status)
      BY <1>0, <1>1, <3>1, ResetEnvironmentRespShape
    <3> QED BY <2>2, <2>6, <3>2
  <2>7. CASE m.method \in {"remove_nodes", "remove_cluster"}
    <3>1. PICK r, f : e = RemoveNodesResp(db, m, r, f) \/ e = RemoveClusterResp(db, m, r, f)
      BY <1>1, <1>4, <2>7 DEF Outcomes
    <3> DEFINE d1 == RemoveNodesResp(db, m, r, f)
    <3>2. KeepsRelease(db, d1)
      <4>1. PICK x : /\ SameTasks(db, x) /\ KeepsRelease(db, x)
                     /\ d1 = UpdateTask(x, m.task, m.status)
        BY <1>0, <1>1, RemoveNodesRespShape
      <4> QED BY <2>2, <2>7, <4>1
    <3>3. e \in {DeleteCluster(d1), SetCluster(d1, "error"), d1}
      BY <3>1 DEF RemoveClusterResp
    <3> HIDE DEF d1
    <3>4. KeepsRelease(d1, DeleteCluster(d1)) /\ KeepsRelease(d1, SetCluster(d1, "error"))
      BY SetsKeepRelease, StepsKeepRelease
    <3> QED BY <3>2, <3>3, <3>4, KeepsReleaseTransitive
  <2> QED BY <1>2, <2>3, <2>4, <2>5, <2>6, <2>7 DEF Methods
<1> QED BY <1>3, <1>4

\* What is not a request made by a user applies the release or leaves it alone.
LEMMA NextRelease ==
  ASSUME IInv, [Next]_vars, budget'.requests = budget.requests
  PROVE  KeepsRelease(db, db') \/ Applied(db')
<1>0. KeepsRelease(db, db) /\ budget \in Budget
  BY SetsKeepRelease DEF IInv, TypeOK, Budget
<1>1. \/ \E w \in Worker : Continue(w) \/ CastRefused(w) \/ Crash(w)
      \/ \E m \in orch : Progress(m) \/ Finish(m)
      \/ Consume \/ ConsumeUnacknowledged
      \/ UNCHANGED vars
  <2>1. \A w \in Worker : ~ NewRequest(w)
    <3> SUFFICES ASSUME NEW w \in Worker, NewRequest(w) PROVE FALSE
      OBVIOUS
    <3>1. budget' = [budget EXCEPT !.requests = @ - 1]
      BY DEF NewRequest, Accept, ApplyLock, StopRefuse, StopCreate, SelectToProvision,
         SelectToDeploy, ChooseRelease, UpdateRefuse, UpdateCreate, ResetCheck,
         ClusterDeletionLock, Assign, Unassign
    <3> QED BY <1>0, <3>1, BoundsAssumption DEF Budget
  <2>2. ~ Elsewhere
    <3> SUFFICES ASSUME Elsewhere PROVE FALSE
      OBVIOUS
    <3>1. budget' = [budget EXCEPT !.requests = @ - 1]
      BY DEF Elsewhere
    <3> QED BY <1>0, <3>1, BoundsAssumption DEF Budget
  <2> QED BY <2>1, <2>2 DEF Next
<1>2. CASE \E w \in Worker : Continue(w)
  BY <1>2, ContinueKeepsRelease
<1>3. CASE \E w \in Worker : CastRefused(w)
  <2>1. PICK w \in Worker : CastRefused(w)
    BY <1>3
  <2>2. PICK pc \in SubPlaces : At(w, pc)
    BY <2>1 DEF CastRefused, SubPlaces
  <2>3. db' = UpdateTask(db, req[w].sub, "error") /\ SameTasks(db, db)
    BY <2>1 DEF CastRefused, IInv, Good, SameTasks
  <2> QED BY <1>0, <2>2, <2>3, FailKeepsRelease
<1>4. CASE \/ \E w \in Worker : Crash(w)
           \/ \E m \in orch : Progress(m) \/ Finish(m)
           \/ UNCHANGED vars
  <2>1. db' = db
    BY <1>4 DEF Crash, Progress, Finish, vars
  <2> QED BY <1>0, <2>1
<1>5. CASE Consume \/ ConsumeUnacknowledged
  <2>1. queue # <<>> /\ db' \in Outcomes(db, Head(queue))
    BY <1>5 DEF Consume, ConsumeUnacknowledged
  <2> QED BY <2>1, HeadRelease
<1> QED BY <1>1, <1>2, <1>3, <1>4, <1>5

LEMMA ReleaseStep ==
  ASSUME IInv, [Next]_vars
  PROVE  [db.release /\ ~ db'.release =>
            \/ budget'.requests # budget.requests
            \/ /\ \E t \in Named(db', {"update"}) : db'.task[t].status = "ready"
               /\ NodesIn(db', {"error"}) = {} /\ db'.cluster = "operational"]_vars
<1> SUFFICES ASSUME db.release, ~ db'.release, budget'.requests = budget.requests
             PROVE  Applied(db')
  BY DEF Applied
<1>1. "release" \in DOMAIN db
  BY DEF IInv, TypeOK, Database
<1>2. ~ KeepsRelease(db, db')
  BY <1>1 DEF KeepsRelease
<1> QED BY <1>2, NextRelease

\* A pending release becomes the cluster's only by an update that has ended well,
\* with no node of the cluster in error and the cluster operational
\* (_success_action, _update_cluster_data), for any nodes, workers, requests and
\* faults.
THEOREM ReleaseAppliedAlways == Spec => ReleaseAppliedWhole
BY ReleaseStep, AlwaysIInv, PTL DEF Spec, ReleaseAppliedWhole

\* The same from wherever the instances start.
THEOREM CheckedReleaseApplied == MCSpec => ReleaseAppliedWhole
BY ReleaseStep, MCInitIsAny, AlwaysAccounted, PTL
   DEF MCSpec, AnySpec, ReleaseAppliedWhole

=============================================================================
