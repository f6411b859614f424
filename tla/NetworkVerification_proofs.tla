---------------------- MODULE NetworkVerification_proofs -----------------------
(***************************************************************************)
(* NetworkVerification: the variables keep their types, what the           *)
(* orchestrator has in hand runs, a verification that passed has had all   *)
(* of its checks pass, no running one is removed, and the rows implement   *)
(* TaskTable, for every set of workers and every bound. Requests served    *)
(* one at a time never make two verifications run.                         *)
(***************************************************************************)
EXTENDS MCNetworkVerification, WellFoundedInduction, TLAPS

------------------------------------------------------------------------------
(***************************************************************************)
(* The invariant.                                                          *)
(***************************************************************************)

Final(r) == r.method = "verify_networks_resp" /\ r.status # "running"
Report(r) == r.method = "verify_networks_resp" /\ r.status = "running"
OnDhcp(r) == r.method = "check_dhcp_resp"

RunsVerification(t) ==
  /\ t \in TaskId
  /\ task[t].name = "verify_networks" /\ task[t].status = "running"

\* A row has a status; a subtask has a parent of the kind that makes it, and of
\* those a verification, or a check that may become one, has no parent.
Rows ==
  \A t \in TaskId :
    /\ task[t].name # "none" => task[t].status # "none"
    /\ task[t].name \in {"verify_networks", "deploy"} => task[t].parent = NoTask
    /\ task[t].name = "check_dhcp" =>
         /\ task[t].parent \in TaskId
         /\ task[task[t].parent].name = "verify_networks"
    /\ task[t].name = "check_networks" =>
         \/ task[t].parent = NoTask
         \/ task[task[t].parent].name = "deploy"

Verifying == {"verify_check", "verify_cast"}
Checking == {"check_run", "check_save"}
Deploying == {"deploy_check", "deploy_start"}
Working == Verifying \cup Checking \cup Deploying

\* What a request knows of the rows it works on, which it alone works on.
ServingAt(w) ==
  /\ req[w].pc \in Working <=> req[w].task # NoTask
  /\ req[w].pc \in {"verify_cast", "deploy_start"} <=> req[w].sub # NoTask
  /\ req[w].task <= seq /\ req[w].sub <= seq
  /\ req[w].pc = "verify_check" /\ Exists(req[w].task) =>
       /\ task[req[w].task].name = "check_networks"
       /\ task[req[w].task].status = "running"
       /\ task[req[w].task].parent = NoTask
  /\ req[w].pc = "verify_cast" =>
       /\ RunsVerification(req[w].task)
       /\ Subtasks(req[w].task) \subseteq {req[w].sub}
       /\ Exists(req[w].sub) => task[req[w].sub].parent = req[w].task
  /\ req[w].pc \in Checking /\ Exists(req[w].task) =>
       /\ task[req[w].task].name = "check_networks"
       /\ task[req[w].task].parent = NoTask
  /\ req[w].pc \in Deploying /\ Exists(req[w].task) =>
       task[req[w].task].name = "deploy"
  /\ req[w].pc = "deploy_start" /\ Exists(req[w].sub) =>
       /\ task[req[w].sub].name = "check_networks"
       /\ task[req[w].sub].parent # NoTask

Serving == \A w \in Worker : ServingAt(w)

Apart ==
  \A v, w \in Worker : req[v].task # NoTask /\ req[v].task = req[w].task => v = w

\* No request works on task t any more.
Handed(t) == \A w \in Worker : req[w].task # t

\* A message is about a verification that runs and that nothing in the queue
\* ends; its subtask runs no longer than until the answer for it is consumed.
Asked ==
  \A m \in orch :
    /\ m.task <= seq /\ m.dhcp <= seq
    /\ RunsVerification(m.task)
    /\ Subtasks(m.task) \subseteq {m.dhcp}
    /\ Exists(m.dhcp) => task[m.dhcp].parent = m.task
    /\ Handed(m.task)
    /\ \A i \in 1 .. Len(queue) : Final(queue[i]) => queue[i].task # m.task
    /\ m.answered => \A t \in Subtasks(m.task) : task[t].status = "running" =>
         \E i \in 1 .. Len(queue) : OnDhcp(queue[i]) /\ queue[i].task = t
    /\ \A n \in orch : n.task = m.task => n = m

\* A progress report is about a verification that runs. The end of one comes
\* after the answers for its subtasks and is the last that is said of it.
Queued ==
  \A i \in 1 .. Len(queue) :
    LET r == queue[i] IN
    /\ r.task <= seq
    /\ ~ OnDhcp(r) => Handed(r.task)
    /\ ~ OnDhcp(r) /\ Exists(r.task) => task[r.task].name = "verify_networks"
    /\ Report(r) => RunsVerification(r.task)
    /\ OnDhcp(r) => r.status # "running"
    /\ OnDhcp(r) /\ Exists(r.task) =>
         /\ task[r.task].name = "check_dhcp"
         /\ task[task[r.task].parent].status = "running"
         /\ Handed(task[r.task].parent)
    /\ Final(r) =>
         /\ \A t \in Subtasks(r.task) : task[t].status = "running" =>
              \E j \in 1 .. i - 1 : OnDhcp(queue[j]) /\ queue[j].task = t
         /\ \A j \in i + 1 .. Len(queue) :
              IF OnDhcp(queue[j]) THEN queue[j].task \notin Subtasks(r.task)
              ELSE queue[j].task # r.task

IInv == TypeOK /\ Rows /\ Serving /\ Apart /\ Asked /\ Queued /\ VerdictCountsDhcp

------------------------------------------------------------------------------
(***************************************************************************)
(* What the operators do.                                                  *)
(***************************************************************************)

\* The first of a set of rows is one of them.
LEMMA FirstFacts ==
  ASSUME NEW S \in SUBSET TaskId, S # {}
  PROVE  First(S) \in S /\ \A u \in S : First(S) <= u
<1> DEFINE R == {x \in Nat \X Nat : x[1] < x[2]}
<1>1. IsWellFoundedOn(R, Nat)
  <2>1. R \cap (Nat \X Nat) \subseteq OpToRel(<, Nat)
    BY DEF OpToRel
  <2> QED BY <2>1, NatLessThanWellFounded, IsWellFoundedOnSubrelation
<1>2. S \subseteq Nat
  BY BoundsAssumption DEF TaskId
<1>3. PICK x \in S : \A y \in S : ~ (<<y, x>> \in R)
  <2> HIDE DEF R
  <2> QED BY <1>1, <1>2, WFMin
<1>4. ASSUME NEW y \in S PROVE x <= y
  <2>1. x \in Nat /\ y \in Nat /\ ~ (<<y, x>> \in R)
    BY <1>2, <1>3
  <2> QED BY <2>1
<1> QED BY <1>4 DEF First

LEMMA FirstOfFacts ==
  ASSUME NEW S \in SUBSET TaskId
  PROVE  FirstOf(S) \subseteq S /\ (S # {} => FirstOf(S) = {First(S)})
BY FirstFacts DEF FirstOf

\* A change of status leaves the rest.
LEMMA WithStatusFacts ==
  ASSUME TypeOK, NEW t \in TaskId, NEW st \in TaskStatuses
  PROVE  /\ WithStatus(t, st) \in [TaskId -> TaskRow]
         /\ \A u \in TaskId \ {t} : WithStatus(t, st)[u] = task[u]
         /\ WithStatus(t, st)[t] =
              [name |-> task[t].name, status |-> st, parent |-> task[t].parent]
<1>1. task[t] \in TaskRow
  BY DEF TypeOK
<1>2. [task[t] EXCEPT !.status = st] =
        [name |-> task[t].name, status |-> st, parent |-> task[t].parent]
  BY <1>1 DEF TaskRow
<1>3. [task[t] EXCEPT !.status = st] \in TaskRow
  BY <1>1 DEF TaskRow
<1> QED BY <1>2, <1>3 DEF WithStatus, TypeOK

\* Rows that are removed take their subtasks with them, others stay.
LEMMA WithoutFacts ==
  ASSUME TypeOK, Rows, NEW S \in SUBSET TaskId
  PROVE  /\ Without(S) \in [TaskId -> TaskRow]
         /\ \A t \in TaskId :
              \/ Without(S)[t] = task[t] /\ t \notin S /\ task[t].parent \notin S
              \/ Without(S)[t] = NoRow /\ (t \in S \/ task[t].parent \in S)
<1>1. NoRow \in TaskRow
  BY DEF NoRow, TaskRow
<1>2. Without(S) \in [TaskId -> TaskRow]
  BY <1>1 DEF Without, TypeOK
<1>3. ASSUME NEW t \in TaskId
      PROVE  \/ Without(S)[t] = task[t] /\ t \notin S /\ task[t].parent \notin S
             \/ Without(S)[t] = NoRow /\ (t \in S \/ task[t].parent \in S)
  <2>1. t \in WithSubtasks(S) <=>
          t \in S \/ (task[t].name # "none" /\ task[t].parent \in S)
    BY DEF WithSubtasks, Subtasks
  <2>2. task[t].name = "none" => task[t] = NoRow
    BY DEF TypeOK
  <2>3. NoRow.parent \notin S
    BY BoundsAssumption DEF NoRow, NoTask, TaskId
  <2> QED BY <2>1, <2>2, <2>3 DEF Without
<1> QED BY <1>2, <1>3

\* The parent of a row has a row.
LEMMA ParentExists ==
  ASSUME TypeOK, Rows, NEW t \in TaskId, task[t].parent \in TaskId
  PROVE  /\ task[t].name \in {"check_dhcp", "check_networks"}
         /\ task[t].name = "check_dhcp" =>
              task[task[t].parent].name = "verify_networks"
         /\ task[t].name = "check_networks" =>
              task[task[t].parent].name = "deploy"
         /\ task[task[t].parent].parent = NoTask
<1>1. task[t] \in TaskRow /\ task[t].parent # NoTask /\ NoRow.parent = NoTask
  BY BoundsAssumption DEF TypeOK, NoTask, TaskId, NoRow
<1>2. task[t].name # "none"
  BY <1>1 DEF TypeOK
<1> QED BY <1>1, <1>2 DEF Rows, TaskRow, TaskNames

\* A name that is removed with its subtasks leaves no row without its parent.
LEMMA WithoutClosed ==
  ASSUME TypeOK, Rows, NEW S \in SUBSET TaskId, NEW t \in TaskId,
         Without(S)[t].parent \in TaskId
  PROVE  Without(S)[Without(S)[t].parent] = task[task[t].parent]
<1>1. NoRow.parent \notin TaskId
  BY DEF NoRow, NoTask, TaskId
<1>2. Without(S)[t] = task[t] /\ task[t].parent \notin S
  BY <1>1, WithoutFacts
<1>3. task[task[t].parent].parent \notin S
  BY <1>2, ParentExists DEF NoTask, TaskId
<1> QED BY <1>2, <1>3, WithoutFacts

------------------------------------------------------------------------------
(***************************************************************************)
(* A step that only tidies up: rows that are no running verification go,   *)
(* deployments and the row of request w end, and a row is made.            *)
(***************************************************************************)

Fresh(t) ==
  /\ seq' = seq + 1 /\ t = seq'
  /\ task'[t].status \in {"running", "error"}
  /\ \/ task'[t].name \in {"check_networks", "deploy"} /\ task'[t].parent = NoTask
     \/ /\ task'[t].name = "check_networks"
        /\ task'[t].parent \in 1 .. seq
        /\ task'[task'[t].parent].name = "deploy"

EndedBy(w, t) ==
  /\ task'[t].name = task[t].name /\ task'[t].parent = task[t].parent
  /\ task'[t].status \in {"ready", "error"}
  /\ \/ task[t].name = "deploy"
     \/ task[t].name = "check_networks" /\ t = req[w].task

Tidied(w) ==
  /\ seq' \in {seq, seq + 1}
  /\ seq' = seq + 1 => Fresh(seq')
  /\ \A t \in TaskId :
       \/ task'[t] = task[t]
       \/ task'[t] = NoRow /\ ~ RunsVerification(t)
       \/ EndedBy(w, t)
       \/ Fresh(t)
  /\ \A t \in TaskId :
       task'[t].parent \in TaskId => task'[task'[t].parent].name # "none"

\* Request w alone goes on, with its row, with none, or with a new one.
Moves(w) ==
  /\ \A v \in Worker \ {w} : req'[v] = req[v]
  /\ \/ req'[w].task \in {req[w].task, NoTask}
     \/ seq' = seq + 1 /\ req'[w].task = seq'

\* Types of the rows.
TypedRows ==
  /\ task \in [TaskId -> TaskRow]
  /\ \A t \in TaskId : task[t].name = "none" \/ t > seq => task[t] = NoRow
  /\ seq \in 0 .. MaxTask

\* A verification that stays is as it was, and has lost subtasks at most.
LEMMA TidiedVerification ==
  ASSUME TypeOK, Rows, NEW w \in Worker, Tidied(w), NEW p \in TaskId,
         task[p].name = "verify_networks" \/ task'[p].name = "verify_networks"
  PROVE  /\ p <= seq
         /\ task'[p] = task[p] \/ task'[p] = NoRow
         /\ RunsVerification(p) => task'[p] = task[p]
         /\ \A t \in TaskId : task'[t].name # "none" /\ task'[t].parent = p =>
              t \in Subtasks(p) /\ task'[t] = task[t]
<1>1. NoRow.name = "none" /\ NoRow.parent = NoTask /\ NoTask \notin TaskId
  BY DEF NoRow, NoTask, TaskId
<1>2. p <= seq /\ p \in Nat /\ seq \in Nat
  BY <1>1 DEF TypeOK, TaskId, Tidied, EndedBy, Fresh
<1>3. task'[p] = task[p] \/ task'[p] = NoRow
  BY <1>1, <1>2 DEF Tidied, EndedBy, Fresh
<1>4. RunsVerification(p) => task'[p] = task[p]
  BY <1>2, <1>3, <1>1 DEF Tidied, RunsVerification, EndedBy, Fresh
<1>5. task[p].name = "verify_networks"
  BY <1>1, <1>3
<1>6. ASSUME NEW t \in TaskId, task'[t].name # "none", task'[t].parent = p
      PROVE  t \in Subtasks(p) /\ task'[t] = task[t]
  <2>1. task'[p] = task[p]
    BY <1>1, <1>3, <1>6 DEF Tidied
  <2>2. ~ Fresh(t)
    BY <1>1, <1>5, <1>6, <2>1 DEF Fresh
  <2>3. task[t].parent = p /\ task[t].name # "none"
    BY <1>1, <1>6, <2>2 DEF Tidied, EndedBy
  <2>4. task[t].name = "check_dhcp"
    BY <2>3, <1>5, ParentExists
  <2>5. task'[t] = task[t]
    BY <2>4, <2>2, <1>6, <1>1 DEF Tidied, EndedBy
  <2> QED BY <2>3, <2>5 DEF Subtasks
<1> QED BY <1>2, <1>3, <1>4, <1>6

\* What every step leaves to those who poll the tasks: the steps of TaskTable,
\* every verification that runs, and no new one but of a request's check.
Polled ==
  /\ seq' \in {seq, seq + 1}
  /\ seq' = seq + 1 => seq' \in TaskId /\ task'[seq'].status \in {"running", "error"}
  /\ \A t \in TaskId :
       \/ task'[t].status \in {task[t].status, "none"}
       \/ task[t].status # "none" /\ task'[t].status \in {"ready", "error"}
       \/ seq' = seq + 1 /\ t = seq'
  /\ \A t \in TaskId : RunsVerification(t) => task'[t].name = "verify_networks"
  /\ \A t \in TaskId : task'[t].name = "verify_networks" =>
       \/ task[t].name = "verify_networks"
       \/ \E w \in Worker : /\ req[w].pc = "verify_check" /\ req[w].task = t
                            /\ req'[w].pc = "verify_cast"

LEMMA TidiedPolled ==
  ASSUME TypeOK, Rows, NEW w \in Worker, Tidied(w), TypedRows'
  PROVE  Polled
<1>1. NoRow.status = "none" /\ seq \in Nat /\ seq' \in 0 .. MaxTask
  BY BoundsAssumption DEF NoRow, TypeOK, TypedRows
<1>2. seq' = seq + 1 => seq' \in TaskId /\ task'[seq'].status \in {"running", "error"}
  BY <1>1, BoundsAssumption DEF Tidied, Fresh, TaskId
<1>3. ASSUME NEW t \in TaskId
      PROVE  \/ task'[t].status \in {task[t].status, "none"}
             \/ task[t].status # "none" /\ task'[t].status \in {"ready", "error"}
             \/ seq' = seq + 1 /\ t = seq'
  BY <1>1 DEF Tidied, EndedBy, Fresh, Rows
<1>4. \A t \in TaskId : RunsVerification(t) => task'[t].name = "verify_networks"
  BY TidiedVerification DEF RunsVerification
<1>5. \A t \in TaskId :
        task'[t].name = "verify_networks" => task[t].name = "verify_networks"
  BY TidiedVerification DEF NoRow
<1> QED BY <1>2, <1>3, <1>4, <1>5 DEF Polled, Tidied

LEMMA SamePolled ==
  ASSUME TypeOK, UNCHANGED <<task, seq>>
  PROVE  Polled
<1>1. seq \in Nat
  BY BoundsAssumption DEF TypeOK
<1> QED BY <1>1 DEF Polled, RunsVerification

LEMMA TidiedRows ==
  ASSUME TypeOK, Rows, NEW w \in Worker, Tidied(w)
  PROVE  Rows'
<1> SUFFICES ASSUME NEW t \in TaskId, task'[t].name # "none"
             PROVE  /\ task'[t].status # "none"
                    /\ task'[t].name \in {"verify_networks", "deploy"} =>
                         task'[t].parent = NoTask
                    /\ task'[t].name = "check_dhcp" =>
                         /\ task'[t].parent \in TaskId
                         /\ task'[task'[t].parent].name = "verify_networks"
                    /\ task'[t].name = "check_networks" =>
                         \/ task'[t].parent = NoTask
                         \/ task'[task'[t].parent].name = "deploy"
  BY DEF Rows
<1>1. NoRow.name = "none" /\ NoRow.parent = NoTask /\ NoTask \notin TaskId
  BY DEF NoRow, NoTask, TaskId
<1>2. CASE Fresh(t)
  BY <1>2 DEF Fresh
<1>3. CASE ~ Fresh(t)
  <2>1. /\ task'[t].name = task[t].name /\ task'[t].parent = task[t].parent
        /\ task'[t].status \in {task[t].status, "ready", "error"}
    BY <1>1, <1>3 DEF Tidied, EndedBy
  <2>2. task'[t].status # "none"
    BY <2>1 DEF Rows
  <2>3. task'[t].name \in {"verify_networks", "deploy"} => task'[t].parent = NoTask
    BY <2>1 DEF Rows
  <2>4. ASSUME task[t].parent \in TaskId
        PROVE  task'[task[t].parent].name = task[task[t].parent].name
    <3>1. task'[task[t].parent].name # "none"
      BY <2>1, <2>4 DEF Tidied
    <3>2. task[task[t].parent].name \in {"verify_networks", "deploy"}
      BY <2>4, ParentExists
    <3>3. ~ Fresh(task[t].parent)
      BY <2>4, <3>2, <1>1 DEF Fresh, TypeOK, TaskId
    <3> QED BY <3>1, <3>3, <1>1, <2>4 DEF Tidied, EndedBy
  <2>5. task[t].parent \in TaskId \cup {NoTask}
    BY DEF TypeOK, TaskRow
  <2> QED BY <2>1, <2>2, <2>3, <2>4, <2>5, ParentExists DEF Rows
<1> QED BY <1>2, <1>3

LEMMA TidiedAsked ==
  ASSUME IInv, NEW w \in Worker, Tidied(w), Moves(w), UNCHANGED <<orch, queue>>
  PROVE  Asked'
<1> SUFFICES ASSUME NEW m \in orch
             PROVE  /\ m.task <= seq' /\ m.dhcp <= seq'
                    /\ RunsVerification(m.task)'
                    /\ Subtasks(m.task)' \subseteq {m.dhcp}
                    /\ Exists(m.dhcp)' => task'[m.dhcp].parent = m.task
                    /\ Handed(m.task)'
                    /\ m.answered => \A t \in Subtasks(m.task)' :
                         task'[t].status = "running" =>
                         \E i \in 1 .. Len(queue) :
                           OnDhcp(queue[i]) /\ queue[i].task = t
  BY DEF Asked, IInv, Final, OnDhcp
<1> USE DEF IInv
<1>1. /\ m.task \in TaskId /\ m.dhcp \in TaskId
      /\ m.task <= seq /\ m.dhcp <= seq /\ seq \in Nat
  BY BoundsAssumption DEF Asked, TypeOK, Message
<1>2. RunsVerification(m.task) /\ task[m.task].name = "verify_networks"
  BY DEF Asked, RunsVerification
<1>3. /\ task'[m.task] = task[m.task]
      /\ \A t \in TaskId : task'[t].name # "none" /\ task'[t].parent = m.task =>
           t \in Subtasks(m.task) /\ task'[t] = task[t]
  BY <1>1, <1>2, TidiedVerification
<1>4. m.task <= seq' /\ m.dhcp <= seq'
  BY <1>1 DEF Tidied, TaskId
<1>5. RunsVerification(m.task)'
  BY <1>2, <1>3 DEF RunsVerification
<1>6. Subtasks(m.task)' \subseteq Subtasks(m.task)
  BY <1>3 DEF Subtasks
<1>7. ASSUME Exists(m.dhcp)' PROVE task'[m.dhcp].parent = m.task
  <2>1. ~ Fresh(m.dhcp)
    BY <1>1 DEF Fresh, TaskId
  <2>2. task'[m.dhcp].parent = task[m.dhcp].parent /\ Exists(m.dhcp)
    BY <1>1, <1>7, <2>1 DEF Tidied, EndedBy, Exists, NoRow
  <2> QED BY <2>2 DEF Asked
<1>8. Handed(m.task)'
  BY <1>1 DEF Handed, Asked, Moves, NoTask, TaskId
<1>9. m.answered => \A t \in Subtasks(m.task)' : task'[t].status = "running" =>
        \E i \in 1 .. Len(queue) : OnDhcp(queue[i]) /\ queue[i].task = t
  BY <1>3 DEF Subtasks, Asked
<1> QED BY <1>4, <1>5, <1>6, <1>7, <1>8, <1>9 DEF Asked

LEMMA TidiedQueued ==
  ASSUME IInv, NEW w \in Worker, Tidied(w), Moves(w), UNCHANGED <<orch, queue>>
  PROVE  Queued'
<1> DEFINE r(i) == queue[i]
<1> SUFFICES ASSUME NEW i \in 1 .. Len(queue)
             PROVE  /\ r(i).task <= seq'
                    /\ ~ OnDhcp(r(i)) => Handed(r(i).task)'
                    /\ ~ OnDhcp(r(i)) /\ Exists(r(i).task)' =>
                         task'[r(i).task].name = "verify_networks"
                    /\ Report(r(i)) => RunsVerification(r(i).task)'
                    /\ OnDhcp(r(i)) => r(i).status # "running"
                    /\ OnDhcp(r(i)) /\ Exists(r(i).task)' =>
                         /\ task'[r(i).task].name = "check_dhcp"
                         /\ task'[task'[r(i).task].parent].status = "running"
                         /\ Handed(task[r(i).task].parent)'
                    /\ Final(r(i)) =>
                         /\ \A t \in Subtasks(r(i).task)' :
                              task'[t].status = "running" =>
                              \E j \in 1 .. i - 1 : OnDhcp(r(j)) /\ r(j).task = t
                         /\ \A j \in i + 1 .. Len(queue) :
                              IF OnDhcp(r(j)) THEN r(j).task \notin Subtasks(r(i).task)'
                              ELSE r(j).task # r(i).task
  BY DEF Queued, Final, Report, OnDhcp
<1> USE DEF IInv
<1>1. /\ r(i) \in Reply /\ r(i).task \in TaskId
      /\ r(i).task <= seq /\ seq \in Nat
  <2>1. r(i) \in Reply
    BY DEF TypeOK
  <2>2. seq \in Nat
    BY BoundsAssumption DEF TypeOK
  <2> QED BY <2>1, <2>2 DEF Queued, Reply
<1>2. ASSUME ~ OnDhcp(r(i))
      PROVE  /\ Handed(r(i).task)'
             /\ Exists(r(i).task)' => /\ task'[r(i).task].name = "verify_networks"
                                      /\ task[r(i).task].name = "verify_networks"
  <2>1. Handed(r(i).task)
    BY <1>2 DEF Queued
  <2>2. Handed(r(i).task)'
    BY <1>1, <2>1 DEF Handed, Moves, NoTask, TaskId
  <2>3. ~ Fresh(r(i).task)
    BY <1>1 DEF Fresh, TaskId
  <2>4. Exists(r(i).task)' => Exists(r(i).task)
                              /\ task'[r(i).task].name = task[r(i).task].name
    BY <1>1, <2>3 DEF Tidied, EndedBy, Exists, NoRow
  <2> QED BY <1>2, <2>2, <2>4 DEF Queued
<1>3. ASSUME Report(r(i)) PROVE RunsVerification(r(i).task)'
  <2>1. RunsVerification(r(i).task)
    BY <1>3 DEF Queued
  <2> QED BY <1>1, <2>1, TidiedVerification DEF RunsVerification
<1>4. OnDhcp(r(i)) => r(i).status # "running"
  BY DEF Queued
<1>5. ASSUME OnDhcp(r(i)), Exists(r(i).task)'
      PROVE  /\ task'[r(i).task].name = "check_dhcp"
             /\ task'[task'[r(i).task].parent].status = "running"
             /\ Handed(task[r(i).task].parent)'
  <2>1. ~ Fresh(r(i).task)
    BY <1>1 DEF Fresh, TaskId
  <2>2. Exists(r(i).task)
    BY <1>1, <1>5, <2>1 DEF Tidied, EndedBy, Exists, NoRow
  <2>3. /\ task[r(i).task].name = "check_dhcp"
        /\ task[task[r(i).task].parent].status = "running"
        /\ Handed(task[r(i).task].parent)
    BY <1>5, <2>2 DEF Queued
  <2>4. task'[r(i).task] = task[r(i).task]
    BY <1>1, <1>5, <2>1, <2>3 DEF Tidied, EndedBy, Exists, NoRow
  <2>5. RunsVerification(task[r(i).task].parent)
    BY <1>1, <2>3 DEF Rows, RunsVerification
  <2>6. task'[task[r(i).task].parent] = task[task[r(i).task].parent]
    BY <2>5, TidiedVerification DEF RunsVerification
  <2>7. task[r(i).task].parent \in TaskId /\ task[r(i).task].parent <= seq
    BY <2>5, TidiedVerification DEF RunsVerification
  <2>8. Handed(task[r(i).task].parent)'
    BY <1>1, <2>3, <2>4, <2>7 DEF Handed, Moves, NoTask, TaskId
  <2> QED BY <2>3, <2>4, <2>6, <2>8
<1>6. ASSUME Final(r(i))
      PROVE  /\ \A t \in Subtasks(r(i).task)' : task'[t].status = "running" =>
                  \E j \in 1 .. i - 1 : OnDhcp(r(j)) /\ r(j).task = t
             /\ \A j \in i + 1 .. Len(queue) :
                  IF OnDhcp(r(j)) THEN r(j).task \notin Subtasks(r(i).task)'
                  ELSE r(j).task # r(i).task
  <2>1. Exists(r(i).task)' => task'[r(i).task].name = "verify_networks"
    BY <1>2, <1>6 DEF Final, OnDhcp
  <2>2. ASSUME NEW t \in Subtasks(r(i).task)'
        PROVE  t \in Subtasks(r(i).task) /\ task'[t] = task[t]
    <3>1. t \in TaskId /\ task'[t].name # "none" /\ task'[t].parent = r(i).task
      BY DEF Subtasks
    <3>2. task'[r(i).task].name # "none"
      BY <1>1, <3>1 DEF Tidied
    <3> QED BY <1>1, <2>1, <3>1, <3>2, TidiedVerification DEF Exists
  <2> QED BY <1>6, <2>2 DEF Queued
<1> QED BY <1>1, <1>2, <1>3, <1>4, <1>5, <1>6 DEF Tidied, TaskId

LEMMA TidiedVerdict ==
  ASSUME TypeOK, Rows, VerdictCountsDhcp, NEW w \in Worker, Tidied(w)
  PROVE  VerdictCountsDhcp'
<1> SUFFICES ASSUME NEW p \in TaskId, task'[p].name = "verify_networks",
                    task'[p].status = "ready", NEW t \in Subtasks(p)'
             PROVE  task'[t].status = "ready"
  BY DEF VerdictCountsDhcp, Named
<1>1. t \in TaskId /\ task'[t].name # "none" /\ task'[t].parent = p
  BY DEF Subtasks
<1>2. task'[p] = task[p] /\ t \in Subtasks(p) /\ task'[t] = task[t]
  BY <1>1, TidiedVerification DEF NoRow
<1> QED BY <1>2 DEF VerdictCountsDhcp, Named

\* The other requests know what they knew.
LEMMA TidiedServing ==
  ASSUME IInv, NEW w \in Worker, Tidied(w), Moves(w),
         NEW v \in Worker, v # w
  PROVE  ServingAt(v)'
<1> USE DEF IInv
<1>1. req'[v] = req[v] /\ ServingAt(v) /\ req[v] \in Request
  BY DEF Moves, Serving, TypeOK
<1>2. /\ req[v].task \in TaskId \cup {NoTask} /\ req[v].sub \in TaskId \cup {NoTask}
      /\ req[v].task <= seq /\ req[v].sub <= seq /\ seq \in Nat
  BY <1>1, BoundsAssumption DEF ServingAt, Request, TypeOK
<1>3. ASSUME NEW t \in TaskId, t <= seq
      PROVE  /\ Exists(t)' => Exists(t) /\ task'[t].name = task[t].name
                                        /\ task'[t].parent = task[t].parent
             /\ t = req[v].task /\ task[t].name = "check_networks" =>
                  task'[t] \in {task[t], NoRow}
  <2>1. ~ Fresh(t)
    BY <1>2, <1>3 DEF Fresh, TaskId
  <2>2. t = req[v].task => t # req[w].task
    BY DEF Apart, NoTask, TaskId
  <2> QED BY <2>1, <2>2 DEF Tidied, EndedBy, Exists, NoRow
<1>4. req[v].task \notin TaskId => ~ Exists(req[v].task)'
  BY <1>1 DEF Exists
<1>5. req[v].sub \notin TaskId => ~ Exists(req[v].sub)'
  BY <1>1 DEF Exists
<1>6. req[v].task <= seq' /\ req[v].sub <= seq'
  BY <1>2 DEF Tidied, TaskId, NoTask
<1>7. ASSUME req[v].pc = "verify_check", Exists(req[v].task)'
      PROVE  /\ task'[req[v].task].name = "check_networks"
             /\ task'[req[v].task].status = "running"
             /\ task'[req[v].task].parent = NoTask
  <2>1. /\ req[v].task \in TaskId /\ Exists(req[v].task)
        /\ task'[req[v].task].name # "none"
    BY <1>1, <1>2, <1>3, <1>4, <1>7 DEF Exists
  <2> QED BY <1>1, <1>2, <1>3, <1>7, <2>1 DEF ServingAt, NoRow
<1>8. ASSUME req[v].pc = "verify_cast"
      PROVE  /\ RunsVerification(req[v].task)'
             /\ Subtasks(req[v].task)' \subseteq {req[v].sub}
             /\ Exists(req[v].sub)' => task'[req[v].sub].parent = req[v].task
  <2>1. /\ RunsVerification(req[v].task) /\ Subtasks(req[v].task) \subseteq {req[v].sub}
        /\ Exists(req[v].sub) => task[req[v].sub].parent = req[v].task
    BY <1>1, <1>8 DEF ServingAt
  <2>2. /\ task'[req[v].task] = task[req[v].task]
        /\ \A t \in TaskId : task'[t].name # "none" /\ task'[t].parent = req[v].task =>
             t \in Subtasks(req[v].task)
    BY <2>1, TidiedVerification DEF RunsVerification
  <2>3. Subtasks(req[v].task)' \subseteq {req[v].sub}
    BY <1>1, <2>1, <2>2 DEF Subtasks
  <2> QED BY <1>1, <1>2, <1>3, <1>5, <2>1, <2>2, <2>3 DEF RunsVerification
<1>9. Exists(req[v].task)' =>
        /\ Exists(req[v].task) /\ task'[req[v].task].name = task[req[v].task].name
        /\ task'[req[v].task].parent = task[req[v].task].parent
  BY <1>1, <1>2, <1>3, <1>4
<1>10. Exists(req[v].sub)' =>
        /\ Exists(req[v].sub) /\ task'[req[v].sub].name = task[req[v].sub].name
        /\ task'[req[v].sub].parent = task[req[v].sub].parent
  BY <1>1, <1>2, <1>3, <1>5
<1> QED BY <1>1, <1>6, <1>7, <1>8, <1>9, <1>10 DEF ServingAt

LEMMA TidiedApart ==
  ASSUME IInv, NEW w \in Worker, Tidied(w), Moves(w)
  PROVE  Apart'
<1> SUFFICES ASSUME NEW u \in Worker, NEW v \in Worker, req'[u].task # NoTask,
                    req'[u].task = req'[v].task, u # v
             PROVE  FALSE
  BY DEF Apart
<1>1. req[u].task <= seq /\ req[v].task <= seq /\ seq \in Nat
  BY BoundsAssumption DEF IInv, Serving, ServingAt, TypeOK
<1>2. req[u].task \in Nat /\ req[v].task \in Nat
  BY BoundsAssumption DEF IInv, TypeOK, Request, TaskId, NoTask
<1> QED BY <1>1, <1>2 DEF IInv, Apart, Moves

LEMMA TidiedKeeps ==
  ASSUME IInv, NEW w \in Worker, Tidied(w), Moves(w), UNCHANGED <<orch, queue>>,
         TypeOK', ServingAt(w)'
  PROVE  IInv' /\ Polled
<1>1. Rows' /\ VerdictCountsDhcp'
  BY TidiedRows, TidiedVerdict DEF IInv
<1>2. Serving'
  BY TidiedServing DEF Serving
<1>3. Polled
  BY TidiedPolled DEF IInv, TypeOK, TypedRows
<1> QED BY <1>1, <1>2, <1>3, TidiedAsked, TidiedQueued, TidiedApart DEF IInv

------------------------------------------------------------------------------
(***************************************************************************)
(* The requests, one lemma per action that tidies up.                      *)
(***************************************************************************)

LEMMA ServedFacts ==
  ASSUME TypeOK, NEW w \in Worker, NEW r \in Request, req' = [req EXCEPT ![w] = r]
  PROVE  /\ req' \in [Worker -> Request]
         /\ req'[w] = r
         /\ \A v \in Worker \ {w} : req'[v] = req[v]
BY DEF TypeOK

\* A request that works on no row.
Resting(rec) == rec.pc \notin Working /\ rec.task = NoTask /\ rec.sub = NoTask

LEMMA RestingFacts ==
  ASSUME TypeOK, NEW w \in Worker, NEW r \in Request, Resting(r),
         req' = [req EXCEPT ![w] = r], seq' \in {seq, seq + 1}
  PROVE  req' \in [Worker -> Request] /\ Moves(w) /\ ServingAt(w)'
<1>1. seq' \in Nat /\ NoTask = 0
  BY BoundsAssumption DEF TypeOK, NoTask
<1>2. /\ req' \in [Worker -> Request] /\ req'[w] = r
      /\ \A v \in Worker \ {w} : req'[v] = req[v]
  BY ServedFacts
<1> QED BY <1>1, <1>2 DEF Resting, Moves, ServingAt, Working, Verifying, Checking,
                          Deploying

LEMMA IdleFacts == Idle \in Request /\ Resting(Idle)
BY DEF Idle, Request, Resting, Places, Working, Verifying, Checking, Deploying

LEMMA IdleExcept ==
  ASSUME NEW pc \in Places, NEW rows \in SUBSET TaskId, NEW blocked \in BOOLEAN
  PROVE  /\ [Idle EXCEPT !.pc = pc, !.rows = rows, !.blocked = blocked] \in Request
         /\ [Idle EXCEPT !.pc = pc, !.rows = rows, !.blocked = blocked].pc = pc
         /\ [Idle EXCEPT !.pc = pc, !.rows = rows, !.blocked = blocked].task = NoTask
         /\ [Idle EXCEPT !.pc = pc, !.rows = rows, !.blocked = blocked].sub = NoTask
         /\ [Idle EXCEPT !.pc = pc, !.rows = rows] \in Request
         /\ [Idle EXCEPT !.pc = pc, !.rows = rows].pc = pc
         /\ [Idle EXCEPT !.pc = pc, !.rows = rows].task = NoTask
         /\ [Idle EXCEPT !.pc = pc, !.rows = rows].sub = NoTask
<1>1. Idle \in Request /\ Idle.task = NoTask /\ Idle.sub = NoTask
  BY IdleFacts DEF Idle
<1> QED BY <1>1 DEF Request

LEMMA IdleWithTask ==
  ASSUME NEW pc \in Places, NEW t \in TaskId
  PROVE  /\ [Idle EXCEPT !.pc = pc, !.task = t] \in Request
         /\ [Idle EXCEPT !.pc = pc, !.task = t].pc = pc
         /\ [Idle EXCEPT !.pc = pc, !.task = t].task = t
         /\ [Idle EXCEPT !.pc = pc, !.task = t].sub = NoTask
<1>1. Idle \in Request /\ Idle.sub = NoTask
  BY IdleFacts DEF Idle
<1> QED BY <1>1 DEF Request

LEMMA ReturnFacts ==
  ASSUME TypeOK, NEW w \in Worker, Return(w), seq' \in {seq, seq + 1}
  PROVE  req' \in [Worker -> Request] /\ Moves(w) /\ ServingAt(w)'
BY IdleFacts, RestingFacts DEF Return

LEMMA SeqFacts ==
  ASSUME TypeOK
  PROVE  seq \in Nat /\ seq # seq + 1
<1>1. seq \in Nat
  BY BoundsAssumption DEF TypeOK
<1> QED BY <1>1

LEMMA SameTidied ==
  ASSUME TypeOK, Rows, UNCHANGED <<task, seq>>, NEW w \in Worker
  PROVE  TypedRows' /\ Tidied(w)
<1>1. Tidied(w)
  BY SeqFacts, ParentExists DEF Tidied
<1>2. TypedRows'
  BY DEF TypeOK, TypedRows
<1> QED BY <1>1, <1>2

\* Some rows go and one is made.
LEMMA CreateTidied ==
  ASSUME TypeOK, Rows, NEW w \in Worker, NEW S \in SUBSET TaskId,
         \A t \in S : ~ RunsVerification(t),
         NEW row \in TaskRow,
         row.name \in {"check_networks", "deploy"}, row.parent = NoTask,
         row.status \in {"running", "error"},
         Room, seq' = seq + 1,
         task' = [Without(S) EXCEPT ![seq'] = row]
  PROVE  TypedRows' /\ Tidied(w) /\ task'[seq'] = row
<1>1. seq \in Nat /\ seq' \in TaskId /\ seq' \in 0 .. MaxTask
  BY BoundsAssumption DEF TypeOK, Room, TaskId
<1>2. Without(S) \in [TaskId -> TaskRow]
  BY WithoutFacts
<1>3. /\ task' \in [TaskId -> TaskRow] /\ task'[seq'] = row
      /\ \A t \in TaskId \ {seq'} : task'[t] = Without(S)[t]
  BY <1>1, <1>2
<1>4. NoRow.name = "none" /\ NoRow.parent = NoTask /\ NoTask \notin TaskId
  BY DEF NoRow, NoTask, TaskId
<1>5. task[seq'] = NoRow
  BY <1>1 DEF TypeOK, TaskId
<1>6. ASSUME NEW t \in TaskId, task'[t].name = "none" \/ t > seq'
      PROVE  task'[t] = NoRow
  <2>1. t # seq' /\ task'[t] = Without(S)[t]
    BY <1>1, <1>3, <1>6, <1>4 DEF TaskId
  <2>2. task[t].name = "none" \/ t > seq => task[t] = NoRow
    BY DEF TypeOK
  <2>3. t > seq' => t > seq
    BY <1>1 DEF TaskId
  <2> QED BY <1>6, <2>1, <2>2, <2>3, WithoutFacts
<1>7. ASSUME NEW t \in TaskId
      PROVE  task'[t] = task[t] \/ (task'[t] = NoRow /\ ~ RunsVerification(t)) \/ Fresh(t)
  <2>1. CASE t = seq'
    BY <1>3, <1>4, <2>1 DEF Fresh
  <2>2. CASE t # seq'
    <3>1. task[t].parent \in S => ~ RunsVerification(t)
      BY ParentExists DEF RunsVerification
    <3> QED BY <1>3, <2>2, <3>1, WithoutFacts
  <2> QED BY <2>1, <2>2
<1>8. ASSUME NEW t \in TaskId, task'[t].parent \in TaskId
      PROVE  task'[task'[t].parent].name # "none"
  <2>1. t # seq' /\ task'[t] = Without(S)[t]
    BY <1>3, <1>4, <1>8
  <2>2. task'[t] = task[t]
    BY <1>4, <1>8, <2>1, WithoutFacts
  <2>3. task[task[t].parent].name \in {"verify_networks", "deploy"}
    BY <1>8, <2>2, ParentExists
  <2>4. task[t].parent # seq'
    BY <1>4, <1>5, <2>3
  <2> QED BY <1>3, <1>8, <2>1, <2>2, <2>3, <2>4, WithoutClosed
<1>9. Fresh(seq')
  BY <1>3, <1>4 DEF Fresh
<1>10. TypedRows'
  BY <1>1, <1>3, <1>6 DEF TypedRows
<1> QED BY <1>3, <1>7, <1>8, <1>9, <1>10 DEF Tidied

\* Some rows go.
LEMMA WithoutTidied ==
  ASSUME TypeOK, Rows, NEW w \in Worker, NEW S \in SUBSET TaskId,
         \A t \in S : ~ RunsVerification(t),
         seq' = seq, task' = Without(S)
  PROVE  TypedRows' /\ Tidied(w)
<1>1. NoRow.name = "none" /\ NoRow.parent = NoTask /\ NoTask \notin TaskId
  BY DEF NoRow, NoTask, TaskId
<1>2. TypedRows'
  BY <1>1, WithoutFacts DEF TypedRows, TypeOK
<1>3. ASSUME NEW t \in TaskId
      PROVE  task'[t] = task[t] \/ (task'[t] = NoRow /\ ~ RunsVerification(t))
  <2>1. task[t].parent \in S => ~ RunsVerification(t)
    BY ParentExists DEF RunsVerification
  <2> QED BY <2>1, WithoutFacts
<1>4. ASSUME NEW t \in TaskId, task'[t].parent \in TaskId
      PROVE  task'[task'[t].parent].name # "none"
  <2>1. task'[t] = task[t]
    BY <1>1, <1>4, WithoutFacts
  <2>2. task[task[t].parent].name \in {"verify_networks", "deploy"}
    BY <1>4, <2>1, ParentExists
  <2> QED BY <1>4, <2>1, <2>2, WithoutClosed
<1> QED BY <1>2, <1>3, <1>4, SeqFacts DEF Tidied

\* The row of a request, a check or a deployment, ends.
LEMMA StatusTidied ==
  ASSUME TypeOK, Rows, NEW w \in Worker, Exists(req[w].task),
         task[req[w].task].name \in {"check_networks", "deploy"},
         NEW st \in {"ready", "error"},
         seq' = seq, task' = WithStatus(req[w].task, st)
  PROVE  TypedRows' /\ Tidied(w)
<1> DEFINE t0 == req[w].task
<1>1. t0 \in TaskId /\ task[t0].name # "none"
  BY DEF Exists
<1>2. /\ task' \in [TaskId -> TaskRow]
      /\ \A u \in TaskId \ {t0} : task'[u] = task[u]
      /\ task'[t0].name = task[t0].name /\ task'[t0].parent = task[t0].parent
      /\ task'[t0].status = st
  <2>1. st \in TaskStatuses /\ task' = WithStatus(t0, st)
    BY DEF TaskStatuses
  <2> HIDE DEF t0
  <2>2. /\ task' \in [TaskId -> TaskRow]
        /\ \A u \in TaskId \ {t0} : task'[u] = task[u]
        /\ task'[t0] = [name |-> task[t0].name, status |-> st, parent |-> task[t0].parent]
    BY <1>1, <2>1, WithStatusFacts
  <2> QED BY <2>2
<1>3. t0 <= seq /\ seq \in Nat
  BY <1>1, BoundsAssumption DEF TypeOK, TaskId, NoRow
<1> HIDE DEF t0
<1>4. TypedRows'
  BY <1>1, <1>2, <1>3 DEF TypedRows, TypeOK, TaskId
<1>5. \A t \in TaskId : task'[t].name = task[t].name /\ task'[t].parent = task[t].parent
  BY <1>2
<1>6. \A t \in TaskId : task'[t] = task[t] \/ EndedBy(w, t)
  BY <1>2 DEF EndedBy, t0
<1>7. \A t \in TaskId :
        task'[t].parent \in TaskId => task'[task'[t].parent].name # "none"
  BY <1>5, ParentExists
<1> QED BY <1>4, <1>6, <1>7, SeqFacts DEF Tidied

LEMMA TypedKept ==
  ASSUME TypeOK, TypedRows', req' \in [Worker -> Request],
         UNCHANGED <<deploying, orch, queue>>,
         budget' \in [requests : 0 .. MaxRequests, faults : 0 .. MaxFaults]
  PROVE  TypeOK'
BY DEF TypeOK, TypedRows

LEMMA QueuedFacts ==
  ASSUME TypeOK, NEW i \in 1 .. Len(queue)
  PROVE  queue[i] \in Reply /\ queue[i].task \in TaskId
<1>1. queue[i] \in Reply
  BY DEF TypeOK
<1> QED BY <1>1 DEF Reply

LEMMA BudgetFacts ==
  ASSUME TypeOK
  PROVE  /\ budget \in [requests : 0 .. MaxRequests, faults : 0 .. MaxFaults]
         /\ budget.requests > 0 =>
              [budget EXCEPT !.requests = @ - 1]
                \in [requests : 0 .. MaxRequests, faults : 0 .. MaxFaults]
         /\ budget.faults > 0 =>
              [budget EXCEPT !.faults = @ - 1]
                \in [requests : 0 .. MaxRequests, faults : 0 .. MaxFaults]
BY BoundsAssumption DEF TypeOK

\* Requests that change no row: those that take locks, are refused, or fail.
LEMMA LockKeeps ==
  ASSUME IInv, NEW w \in Worker,
         VerifyLock(w) \/ CheckLock(w) \/ VerifyRefuse(w) \/ RequestFails(w) \/ Crash(w)
  PROVE  IInv' /\ Polled
<1> USE DEF IInv
<1>1. /\ UNCHANGED <<task, seq, deploying, orch, queue>>
      /\ budget' \in [requests : 0 .. MaxRequests, faults : 0 .. MaxFaults]
  BY BudgetFacts DEF VerifyLock, CheckLock, VerifyRefuse, RequestFails, Crash, Accept
<1>2. req' \in [Worker -> Request] /\ Moves(w) /\ ServingAt(w)'
  <2>1. CASE VerifyLock(w)
    <3> DEFINE r == [Idle EXCEPT !.pc = "verify_create", !.rows = Named(NetworkNames),
                                 !.blocked = deploying]
    <3>1. r \in Request /\ Resting(r)
      <4>1. Named(NetworkNames) \in SUBSET TaskId /\ deploying \in BOOLEAN
        BY DEF Named, TypeOK
      <4>2. "verify_create" \in Places /\ "verify_create" \notin Working
        BY DEF Places, Working, Verifying, Checking, Deploying
      <4>3. /\ r \in Request /\ r.pc = "verify_create"
            /\ r.task = NoTask /\ r.sub = NoTask
        <5>1. Idle \in Request /\ Idle.task = NoTask /\ Idle.sub = NoTask
          BY IdleFacts DEF Idle
        <5> QED BY <4>1, <4>2, <5>1 DEF Request
      <4> HIDE DEF r
      <4> QED BY <4>2, <4>3 DEF Resting
    <3>2. req' = [req EXCEPT ![w] = r]
      BY <2>1 DEF VerifyLock
    <3> HIDE DEF r
    <3> QED BY <1>1, <3>1, <3>2, RestingFacts
  <2>2. CASE CheckLock(w)
    <3> DEFINE r == [Idle EXCEPT !.pc = "check_create",
                                 !.rows = Named({"check_networks"})]
    <3>1. r \in Request /\ Resting(r)
      <4>1. Named({"check_networks"}) \in SUBSET TaskId
        BY DEF Named
      <4>2. "check_create" \in Places \ Working
        BY DEF Places, Working, Verifying, Checking, Deploying
      <4> QED BY <4>1, <4>2, IdleExcept DEF Resting
    <3>2. req' = [req EXCEPT ![w] = r]
      BY <2>2 DEF CheckLock
    <3> HIDE DEF r
    <3> QED BY <1>1, <3>1, <3>2, RestingFacts
  <2>3. CASE VerifyRefuse(w) \/ RequestFails(w) \/ Crash(w)
    BY <1>1, <2>3, ReturnFacts DEF VerifyRefuse, RequestFails, Crash
  <2> QED BY <2>1, <2>2, <2>3
<1>3. TypedRows' /\ Tidied(w)
  BY <1>1, SameTidied
<1> QED BY <1>1, <1>2, <1>3, TypedKept, TidiedKeeps

LEMMA VerifyCreateKeeps ==
  ASSUME IInv, NEW w \in Worker, VerifyCreate(w)
  PROVE  IInv' /\ Polled
<1> USE DEF IInv
<1> DEFINE S == Leftovers(w)
<1>1. S \subseteq TaskId /\ \A t \in S : ~ RunsVerification(t)
  <2> DEFINE L(name) == Locked(w, name)
  <2>1. L("check_networks") \subseteq TaskId /\ L("verify_networks") \subseteq TaskId
    BY DEF Locked, Named
  <2>2. \A t \in L("check_networks") : task[t].name = "check_networks"
    BY DEF Locked, Named
  <2>3. FirstOf(L("verify_networks")) \cap Running({"verify_networks"}) = {}
    BY DEF VerifyCreate, OldVerificationRuns
  <2>4. \A t \in TaskId : RunsVerification(t) => t \in Running({"verify_networks"})
                                             /\ task[t].name # "check_networks"
    BY DEF RunsVerification, Running, Named
  <2>5. S = FirstOf(L("check_networks")) \cup FirstOf(L("verify_networks"))
    BY DEF Leftovers
  <2> HIDE DEF L, S
  <2> QED BY <2>1, <2>2, <2>3, <2>4, <2>5, FirstOfFacts
<1>2. /\ Room /\ seq' = seq + 1 /\ UNCHANGED <<deploying, orch, queue, budget>>
      /\ req[w].pc = "verify_create"
  BY DEF VerifyCreate
<1>3. seq \in Nat /\ seq' \in TaskId /\ NoTask = 0
  BY <1>2, BoundsAssumption DEF TypeOK, Room, TaskId, NoTask
<1>4. ASSUME NEW st \in {"error", "running"},
             task' = [Without(S) EXCEPT ![seq'] = Row("check_networks", st, NoTask)]
      PROVE  /\ TypedRows' /\ Tidied(w)
             /\ task'[seq'] = [name |-> "check_networks", status |-> st, parent |-> NoTask]
  <2> DEFINE row == Row("check_networks", st, NoTask)
  <2>1. /\ row = [name |-> "check_networks", status |-> st, parent |-> NoTask]
        /\ row \in TaskRow
    BY DEF Row, TaskRow, TaskNames, TaskStatuses
  <2>2. /\ row.name \in {"check_networks", "deploy"} /\ row.parent = NoTask
        /\ row.status \in {"running", "error"}
    BY <2>1
  <2>3. task' = [Without(S) EXCEPT ![seq'] = row]
    BY <1>4
  <2> HIDE DEF row, S
  <2> QED BY <1>1, <1>2, <2>1, <2>2, <2>3, CreateTidied
<1>5. CASE /\ task' = [Without(S) EXCEPT ![seq'] = Row("check_networks", "error", NoTask)]
           /\ Return(w)
  BY <1>2, <1>4, <1>5, ReturnFacts, BudgetFacts, TypedKept, TidiedKeeps
<1>6. CASE /\ task' = [Without(S) EXCEPT ![seq'] = Row("check_networks", "running", NoTask)]
           /\ req' = [req EXCEPT ![w] =
                [Idle EXCEPT !.pc = "verify_check", !.task = seq']]
  <2> DEFINE r == [Idle EXCEPT !.pc = "verify_check", !.task = seq']
  <2>1. r \in Request /\ r.pc = "verify_check" /\ r.task = seq' /\ r.sub = NoTask
    <3>1. "verify_check" \in Places
      BY DEF Places
    <3> QED BY <1>3, <3>1, IdleWithTask
  <2>2. req' = [req EXCEPT ![w] = r]
    BY <1>6
  <2> HIDE DEF r
  <2>3. /\ req' \in [Worker -> Request] /\ req'[w] = r
        /\ \A v \in Worker \ {w} : req'[v] = req[v]
    BY <2>1, <2>2, ServedFacts
  <2>4. /\ TypedRows' /\ Tidied(w)
        /\ task'[seq'] = [name |-> "check_networks", status |-> "running",
                          parent |-> NoTask]
    BY <1>4, <1>6
  <2>5. Moves(w)
    BY <1>2, <2>1, <2>3 DEF Moves
  <2>6. ServingAt(w)'
    BY <1>2, <1>3, <2>1, <2>3, <2>4 DEF ServingAt, Working, Verifying, Checking, Deploying,
                                  TaskId
  <2> QED BY <1>2, <2>3, <2>4, <2>5, <2>6, BudgetFacts, TypedKept, TidiedKeeps
<1> QED BY <1>5, <1>6 DEF VerifyCreate

LEMMA CheckCreateKeeps ==
  ASSUME IInv, NEW w \in Worker, CheckCreate(w)
  PROVE  IInv' /\ Polled
<1> USE DEF IInv
<1> DEFINE S == FirstOf(Locked(w, "check_networks"))
           row == Row("check_networks", "running", NoTask)
           r == [Idle EXCEPT !.pc = "check_run", !.task = seq']
<1>1. S \subseteq TaskId /\ \A t \in S : ~ RunsVerification(t)
  <2>1. Locked(w, "check_networks") \subseteq TaskId
    BY DEF Locked, Named
  <2>2. \A t \in Locked(w, "check_networks") : task[t].name = "check_networks"
    BY DEF Locked, Named
  <2> QED BY <2>1, <2>2, FirstOfFacts DEF RunsVerification
<1>2. /\ Room /\ seq' = seq + 1 /\ UNCHANGED <<deploying, orch, queue, budget>>
      /\ task' = [Without(S) EXCEPT ![seq'] = row]
      /\ req' = [req EXCEPT ![w] = r]
  BY DEF CheckCreate
<1>3. seq \in Nat /\ seq' \in TaskId /\ NoTask = 0
  BY <1>2, BoundsAssumption DEF TypeOK, Room, TaskId, NoTask
<1>4. /\ row \in TaskRow /\ row.name = "check_networks" /\ row.parent = NoTask
      /\ row.status \in {"running", "error"}
  BY DEF Row, TaskRow, TaskNames, TaskStatuses
<1>5. r \in Request /\ r.pc = "check_run" /\ r.task = seq' /\ r.sub = NoTask
  <2>1. "check_run" \in Places
    BY DEF Places
  <2> QED BY <1>3, <2>1, IdleWithTask
<1> HIDE DEF S, row, r
<1>6. TypedRows' /\ Tidied(w) /\ task'[seq'] = row
  BY <1>1, <1>2, <1>4, CreateTidied
<1>7. /\ req' \in [Worker -> Request] /\ req'[w] = r
      /\ \A v \in Worker \ {w} : req'[v] = req[v]
  BY <1>2, <1>5, ServedFacts
<1>8. Moves(w)
  BY <1>2, <1>5, <1>7 DEF Moves
<1>9. ServingAt(w)'
  BY <1>2, <1>3, <1>4, <1>5, <1>6, <1>7
     DEF ServingAt, Working, Verifying, Checking, Deploying, TaskId
<1> QED BY <1>2, <1>6, <1>7, <1>8, <1>9, BudgetFacts, TypedKept, TidiedKeeps

LEMMA DeployCreateKeeps ==
  ASSUME IInv, NEW w \in Worker, DeployCreate(w)
  PROVE  IInv' /\ Polled
<1> USE DEF IInv
<1> DEFINE S == Named({"deploy"})
           row == Row("deploy", "running", NoTask)
           r == [Idle EXCEPT !.pc = "deploy_check", !.task = seq']
<1>1. S \subseteq TaskId /\ \A t \in S : ~ RunsVerification(t)
  BY DEF Named, RunsVerification
<1>2. /\ Room /\ seq' = seq + 1 /\ UNCHANGED <<deploying, orch, queue>>
      /\ task' = [Without(S) EXCEPT ![seq'] = row]
      /\ req' = [req EXCEPT ![w] = r]
  BY DEF DeployCreate
<1>3. seq \in Nat /\ seq' \in TaskId /\ NoTask = 0
  BY <1>2, BoundsAssumption DEF TypeOK, Room, TaskId, NoTask
<1>4. /\ row \in TaskRow /\ row.name = "deploy" /\ row.parent = NoTask
      /\ row.status \in {"running", "error"}
  BY DEF Row, TaskRow, TaskNames, TaskStatuses
<1>5. r \in Request /\ r.pc = "deploy_check" /\ r.task = seq' /\ r.sub = NoTask
  <2>1. "deploy_check" \in Places
    BY DEF Places
  <2> QED BY <1>3, <2>1, IdleWithTask
<1>6. budget' \in [requests : 0 .. MaxRequests, faults : 0 .. MaxFaults]
  BY BudgetFacts DEF DeployCreate, Accept
<1> HIDE DEF S, row, r
<1>7. TypedRows' /\ Tidied(w) /\ task'[seq'] = row
  BY <1>1, <1>2, <1>4, CreateTidied
<1>8. /\ req' \in [Worker -> Request] /\ req'[w] = r
      /\ \A v \in Worker \ {w} : req'[v] = req[v]
  BY <1>2, <1>5, ServedFacts
<1>9. Moves(w)
  BY <1>2, <1>5, <1>8 DEF Moves
<1>10. ServingAt(w)'
  BY <1>2, <1>3, <1>4, <1>5, <1>7, <1>8
     DEF ServingAt, Working, Verifying, Checking, Deploying, TaskId
<1> QED BY <1>2, <1>6, <1>7, <1>8, <1>9, <1>10, TypedKept, TidiedKeeps

\* A request that goes on keeps its rows.
LEMMA GotoFacts ==
  ASSUME TypeOK, NEW w \in Worker, NEW pc \in Places, Goto(w, pc)
  PROVE  /\ req' \in [Worker -> Request]
         /\ \A v \in Worker \ {w} : req'[v] = req[v]
         /\ req'[w].pc = pc /\ req'[w].task = req[w].task /\ req'[w].sub = req[w].sub
<1> DEFINE r == [req[w] EXCEPT !.pc = pc]
<1>1. req[w] \in Request
  BY DEF TypeOK
<1>2. r \in Request /\ r.pc = pc /\ r.task = req[w].task /\ r.sub = req[w].sub
  BY <1>1 DEF Request
<1>3. req' = [req EXCEPT ![w] = r]
  BY DEF Goto
<1> HIDE DEF r
<1> QED BY <1>2, <1>3, ServedFacts

LEMMA CheckRunKeeps ==
  ASSUME IInv, NEW w \in Worker, CheckRun(w) \/ CheckSave(w)
  PROVE  IInv' /\ Polled
<1> USE DEF IInv
<1>1. /\ req[w].pc \in Checking /\ Exists(req[w].task)
      /\ UNCHANGED <<seq, deploying, orch, queue, budget>>
  BY DEF CheckRun, CheckSave, Checking
<1>2. /\ task[req[w].task].name = "check_networks"
      /\ task[req[w].task].parent = NoTask
      /\ req[w].task # NoTask /\ req[w].sub = NoTask
      /\ req[w].task <= seq /\ req[w].sub <= seq
  BY <1>1 DEF Serving, ServingAt, Working, Checking
<1>3. TypedRows' /\ Tidied(w)
  <2>1. CASE task' = task
    BY <1>1, <2>1, SameTidied
  <2>2. ASSUME NEW st \in {"ready", "error"}, task' = WithStatus(req[w].task, st)
        PROVE  TypedRows' /\ Tidied(w)
    BY <1>1, <1>2, <2>2, StatusTidied
  <2>3. task' = task \/ \E st \in {"ready", "error"} : task' = WithStatus(req[w].task, st)
    BY DEF CheckRun, CheckSave
  <2> QED BY <2>1, <2>2, <2>3
<1>4. req' \in [Worker -> Request] /\ Moves(w) /\ ServingAt(w)'
  <2>1. CASE Return(w)
    BY <1>1, <2>1, ReturnFacts
  <2>2. CASE Goto(w, "check_save")
    <3>1. /\ req' \in [Worker -> Request]
          /\ \A v \in Worker \ {w} : req'[v] = req[v]
          /\ req'[w].pc = "check_save" /\ req'[w].task = req[w].task
          /\ req'[w].sub = req[w].sub
      BY <2>2, GotoFacts DEF Places
    <3>2. Exists(req[w].task) /\ task'[req[w].task].name # "none" =>
             /\ task'[req[w].task].name = "check_networks"
             /\ task'[req[w].task].parent = NoTask
      <4>1. ~ Fresh(req[w].task)
        BY <1>1 DEF Fresh, TypeOK
      <4> QED BY <1>2, <1>3, <4>1 DEF Tidied, EndedBy, Exists, NoRow
    <3> QED BY <1>1, <1>2, <3>1, <3>2 DEF Moves, ServingAt, Working, Verifying,
                                           Checking, Deploying, Exists
  <2> QED BY <2>1, <2>2 DEF CheckRun, CheckSave
<1> QED BY <1>1, <1>3, <1>4, BudgetFacts, TypedKept, TidiedKeeps

LEMMA RemoveKeeps ==
  ASSUME IInv, NEW w \in Worker, NEW t \in TaskId, Remove(w, t)
  PROVE  IInv' /\ Polled
<1> USE DEF IInv
<1>1. /\ UNCHANGED <<seq, deploying, req, orch, queue>> /\ task' = Without({t})
      /\ budget' \in [requests : 0 .. MaxRequests, faults : 0 .. MaxFaults]
      /\ req[w].pc = "idle" /\ task[t].status \in {"ready", "error"}
  BY BudgetFacts DEF Remove, Accept
<1>2. TypedRows' /\ Tidied(w)
  BY <1>1, WithoutTidied DEF RunsVerification
<1>3. req' \in [Worker -> Request] /\ Moves(w)
  BY <1>1 DEF TypeOK, Moves
<1>4. ServingAt(w)'
  <2>1. ServingAt(w)
    BY DEF Serving
  <2> QED BY <1>1, <2>1 DEF ServingAt, Working, Verifying, Checking, Deploying
<1> QED BY <1>1, <1>2, <1>3, <1>4, TypedKept, TidiedKeeps

LEMMA DeployStartKeeps ==
  ASSUME IInv, NEW w \in Worker, DeployStart(w)
  PROVE  IInv' /\ Polled
<1> USE DEF IInv
<1>1. /\ UNCHANGED <<seq, orch, queue, budget>> /\ task' = Without({req[w].sub})
      /\ req[w].pc = "deploy_start" /\ Exists(req[w].sub) /\ Return(w)
      /\ deploying' = TRUE
  BY DEF DeployStart
<1>2. req[w].sub \in TaskId /\ ~ RunsVerification(req[w].sub)
  BY <1>1 DEF Exists, RunsVerification, Serving, ServingAt
<1>3. TypedRows' /\ Tidied(w)
  BY <1>1, <1>2, WithoutTidied
<1>4. req' \in [Worker -> Request] /\ Moves(w) /\ ServingAt(w)'
  BY <1>1, ReturnFacts
<1>5. TypeOK'
  BY <1>1, <1>3, <1>4 DEF TypedRows, TypeOK
<1> QED BY <1>1, <1>3, <1>4, <1>5, TidiedKeeps

LEMMA VerifyCheckFails ==
  ASSUME IInv, NEW w \in Worker, VerifyCheck(w), seq' = seq
  PROVE  IInv' /\ Polled
<1> USE DEF IInv
<1>1. /\ UNCHANGED <<seq, deploying, orch, queue, budget>>
      /\ req[w].pc = "verify_check" /\ Exists(req[w].task) /\ Return(w)
      /\ task' = WithStatus(req[w].task, "error")
  <2>1. seq \in Int
    BY BoundsAssumption DEF TypeOK
  <2> QED BY <2>1 DEF VerifyCheck
<1>2. task[req[w].task].name = "check_networks"
  BY <1>1 DEF Serving, ServingAt
<1>3. TypedRows' /\ Tidied(w)
  BY <1>1, <1>2, StatusTidied
<1>4. req' \in [Worker -> Request] /\ Moves(w) /\ ServingAt(w)'
  BY <1>1, ReturnFacts
<1> QED BY <1>1, <1>3, <1>4, BudgetFacts, TypedKept, TidiedKeeps

LEMMA DeployEndsKeeps ==
  ASSUME IInv, DeployEnds
  PROVE  IInv' /\ Polled
<1> USE DEF IInv
<1>1. PICK w \in Worker : TRUE
  BY WorkerAssumption
<1>2. /\ UNCHANGED <<seq, req, orch, queue, budget>> /\ deploying' = FALSE
  BY DEF DeployEnds
<1>3. PICK st \in {"ready", "error"} :
        task' = [t \in TaskId |-> IF t \in Running({"deploy"})
                                    THEN [task[t] EXCEPT !.status = st]
                                    ELSE task[t]]
  BY DEF DeployEnds
<1>4. ASSUME NEW t \in TaskId
      PROVE  /\ task'[t] \in TaskRow
             /\ task'[t].name = task[t].name /\ task'[t].parent = task[t].parent
             /\ task'[t] = task[t] \/ EndedBy(w, t)
  <2>1. task[t] \in TaskRow
    BY DEF TypeOK
  <2>2. CASE t \in Running({"deploy"})
    <3>1. task'[t] = [task[t] EXCEPT !.status = st] /\ task[t].name = "deploy"
      BY <1>3, <2>2 DEF Running, Named
    <3>2. /\ task'[t] \in TaskRow /\ task'[t].status = st
          /\ task'[t].name = task[t].name /\ task'[t].parent = task[t].parent
      BY <2>1, <3>1 DEF TaskRow, TaskStatuses
    <3> QED BY <3>1, <3>2 DEF EndedBy
  <2>3. CASE t \notin Running({"deploy"})
    BY <1>3, <2>1, <2>3
  <2> QED BY <2>2, <2>3
<1>5. task' \in [TaskId -> TaskRow]
  BY <1>3, <1>4
<1>6. TypedRows'
  <2>1. ASSUME NEW t \in TaskId, task'[t].name = "none" \/ t > seq'
        PROVE  task'[t] = NoRow
    BY <1>2, <1>4, <2>1 DEF TypeOK, EndedBy, NoRow
  <2> QED BY <1>2, <1>5, <2>1 DEF TypedRows, TypeOK
<1>7. Tidied(w)
  BY <1>2, <1>4, SeqFacts, ParentExists DEF Tidied
<1>8. req' \in [Worker -> Request] /\ Moves(w)
  BY <1>2 DEF TypeOK, Moves
<1>9. ServingAt(w)'
  <2>1. ServingAt(w) /\ req[w].pc \notin Deploying
    BY DEF Serving, DeployEnds, Deploying
  <2>2. ASSUME NEW t \in TaskId, task[t].name # "deploy" PROVE task'[t] = task[t]
    BY <1>3, <2>2 DEF Running, Named
  <2>3. \A t \in TaskId : Exists(t)' <=> Exists(t)
    BY <1>4 DEF Exists
  <2>4. \A t : Exists(t) => t \in TaskId
    BY DEF Exists
  <2>5. \A t \in TaskId : Subtasks(t)' = Subtasks(t)
    BY <1>4 DEF Subtasks
  <2>6. req[w].pc = "verify_cast" =>
          /\ RunsVerification(req[w].task)'
          /\ Subtasks(req[w].task)' \subseteq {req[w].sub}
          /\ Exists(req[w].sub)' => task'[req[w].sub].parent = req[w].task
    BY <1>2, <1>4, <2>1, <2>2, <2>3, <2>4, <2>5 DEF ServingAt, RunsVerification, Exists
  <2> QED BY <1>2, <1>4, <2>1, <2>2, <2>4, <2>6 DEF ServingAt, Exists
<1>10. TypeOK'
  BY <1>2, <1>6, <1>8 DEF TypedRows, TypeOK
<1> QED BY <1>2, <1>7, <1>8, <1>9, <1>10, TidiedKeeps

LEMMA DeployCheckKeeps ==
  ASSUME IInv, NEW w \in Worker, DeployCheck(w)
  PROVE  IInv' /\ Polled
<1> USE DEF IInv
<1> DEFINE t0 == req[w].task
<1>1. /\ req[w].pc = "deploy_check" /\ Exists(t0) /\ Room
      /\ seq' = seq + 1 /\ UNCHANGED <<deploying, orch, queue, budget>>
  BY DEF DeployCheck
<1>2. /\ t0 \in TaskId /\ task[t0].name = "deploy" /\ t0 <= seq /\ t0 # NoTask
      /\ req[w].sub = NoTask
  BY <1>1 DEF Exists, Serving, ServingAt, Working, Deploying
<1>3. seq \in Nat /\ seq' \in TaskId /\ seq' \in 0 .. MaxTask /\ NoTask = 0
  BY <1>1, BoundsAssumption DEF TypeOK, Room, TaskId, NoTask
<1>4. task[seq'] = NoRow /\ NoRow.name = "none" /\ t0 # seq'
  BY <1>1, <1>2, <1>3 DEF TypeOK, TaskId, NoRow
<1>5. ASSUME NEW base \in [TaskId -> TaskRow], NEW st \in {"running", "error"},
             \A u \in TaskId \ {t0} : base[u] = task[u],
             base[t0].name = "deploy", base[t0].parent = task[t0].parent,
             base[t0] = task[t0] \/ base[t0].status = "error",
             task' = [base EXCEPT ![seq'] = Row("check_networks", st, t0)]
      PROVE  /\ TypedRows' /\ Tidied(w)
             /\ task'[t0].name = "deploy"
             /\ task'[seq'].name = "check_networks" /\ task'[seq'].parent = t0
  <2> DEFINE row == Row("check_networks", st, t0)
  <2>1. /\ row \in TaskRow /\ row.name = "check_networks" /\ row.parent = t0
        /\ row.status \in {"running", "error"}
    BY <1>2 DEF Row, TaskRow, TaskNames, TaskStatuses
  <2>2. task' = [base EXCEPT ![seq'] = row]
    BY <1>5
  <2> HIDE DEF row, t0
  <2>3. /\ task' \in [TaskId -> TaskRow] /\ task'[seq'] = row
        /\ \A u \in TaskId \ {seq'} : task'[u] = base[u]
    BY <1>3, <2>1, <2>2
  <2>4. task'[t0] = base[t0]
    BY <1>2, <1>4, <2>3
  <2>5. \A u \in TaskId \ {seq', t0} : task'[u] = task[u]
    BY <1>5, <2>3
  <2>6. TypedRows'
    <3>1. ASSUME NEW t \in TaskId, task'[t].name = "none" \/ t > seq'
          PROVE  task'[t] = NoRow
      <4>1. t # seq' /\ t # t0
        BY <1>1, <1>2, <1>3, <1>5, <2>1, <2>3, <2>4, <3>1 DEF TaskId
      <4> QED BY <1>1, <1>3, <2>5, <3>1, <4>1 DEF TypeOK, TaskId
    <3> QED BY <1>3, <2>3, <3>1 DEF TypedRows
  <2>7. Fresh(seq')
    BY <1>1, <1>2, <1>3, <1>5, <2>1, <2>3, <2>4 DEF Fresh, TaskId
  <2>8. task'[t0] = task[t0] \/ EndedBy(w, t0)
    BY <1>2, <1>5, <2>4 DEF EndedBy
  <2>9. ASSUME NEW t \in TaskId, task'[t].parent \in TaskId
        PROVE  task'[task'[t].parent].name # "none"
    <3>1. CASE t = seq'
      BY <1>5, <2>1, <2>3, <2>4, <3>1
    <3>2. CASE t # seq'
      <4>1. task'[t].parent = task[t].parent
        BY <1>5, <2>4, <2>5, <3>2
      <4>2. task[task[t].parent].name # "none"
        BY <2>9, <4>1, ParentExists
      <4> QED BY <1>4, <1>5, <2>4, <2>5, <2>9, <4>1, <4>2
    <3> QED BY <3>1, <3>2
  <2>10. Tidied(w)
    BY <1>1, <2>5, <2>7, <2>8, <2>9 DEF Tidied
  <2> QED BY <1>5, <2>1, <2>3, <2>4, <2>6, <2>10
<1>6. CASE /\ task' = [WithStatus(t0, "error") EXCEPT
                         ![seq'] = Row("check_networks", "error", t0)]
           /\ Return(w)
  <2> HIDE DEF t0
  <2>1. /\ WithStatus(t0, "error") \in [TaskId -> TaskRow]
        /\ \A u \in TaskId \ {t0} : WithStatus(t0, "error")[u] = task[u]
        /\ WithStatus(t0, "error")[t0] =
             [name |-> task[t0].name, status |-> "error", parent |-> task[t0].parent]
    BY <1>2, WithStatusFacts DEF TaskStatuses
  <2>2. /\ WithStatus(t0, "error")[t0].name = "deploy"
        /\ WithStatus(t0, "error")[t0].parent = task[t0].parent
        /\ WithStatus(t0, "error")[t0].status = "error"
    BY <1>2, <2>1
  <2>3. TypedRows' /\ Tidied(w)
    BY <1>5, <1>6, <2>1, <2>2
  <2>4. req' \in [Worker -> Request] /\ Moves(w) /\ ServingAt(w)'
    BY <1>1, <1>6, ReturnFacts
  <2> QED BY <1>1, <2>3, <2>4, BudgetFacts, TypedKept, TidiedKeeps
<1>7. CASE /\ task' = [task EXCEPT ![seq'] = Row("check_networks", "running", t0)]
           /\ req' = [req EXCEPT ![w] =
                [@ EXCEPT !.pc = "deploy_start", !.sub = seq']]
  <2>1. /\ TypedRows' /\ Tidied(w) /\ task'[t0].name = "deploy"
        /\ task'[seq'].name = "check_networks" /\ task'[seq'].parent = t0
    <3>1. task \in [TaskId -> TaskRow]
      BY DEF TypeOK
    <3> HIDE DEF t0
    <3> QED BY <1>2, <1>5, <1>7, <3>1
  <2> DEFINE r == [req[w] EXCEPT !.pc = "deploy_start", !.sub = seq']
  <2>2. r \in Request /\ r.pc = "deploy_start" /\ r.task = t0 /\ r.sub = seq'
    <3>1. req[w] \in Request /\ "deploy_start" \in Places
      BY DEF TypeOK, Places
    <3> QED BY <1>3, <3>1 DEF Request
  <2>3. req' = [req EXCEPT ![w] = r]
    BY <1>7
  <2> HIDE DEF r
  <2>4. /\ req' \in [Worker -> Request] /\ req'[w] = r
        /\ \A v \in Worker \ {w} : req'[v] = req[v]
    BY <2>2, <2>3, ServedFacts
  <2>5. Moves(w)
    BY <2>2, <2>4 DEF Moves
  <2>6. ServingAt(w)'
    BY <1>1, <1>2, <1>3, <2>1, <2>2, <2>4
       DEF ServingAt, Working, Verifying, Checking, Deploying, TaskId
  <2> QED BY <1>1, <2>1, <2>4, <2>5, <2>6, BudgetFacts, TypedKept, TidiedKeeps
<1> QED BY <1>6, <1>7 DEF DeployCheck

------------------------------------------------------------------------------
(***************************************************************************)
(* The steps that make, send, answer and end a verification.               *)
(***************************************************************************)

\* A check becomes a verification, with a subtask.
LEMMA VerifyCheckPasses ==
  ASSUME IInv, NEW w \in Worker, VerifyCheck(w), seq' # seq
  PROVE  IInv' /\ Polled
<1> USE DEF IInv
<1>0. PICK t0 \in TaskId : t0 = req[w].task
  BY DEF VerifyCheck, Exists
<1> DEFINE row == Row("check_dhcp", "running", t0)
           r == [req[w] EXCEPT !.pc = "verify_cast", !.sub = seq']
<1>1. /\ req[w].pc = "verify_check" /\ Exists(t0) /\ Room /\ seq' = seq + 1
      /\ task' = [task EXCEPT ![t0] = [@ EXCEPT !.name = "verify_networks"],
                              ![seq'] = row]
      /\ req' = [req EXCEPT ![w] = r]
      /\ UNCHANGED <<deploying, orch, queue, budget>>
  BY <1>0 DEF VerifyCheck
<1> HIDE DEF r, row
<1>u. orch' = orch /\ queue' = queue
  BY <1>1
<1>2. /\ t0 \in TaskId /\ task[t0].name = "check_networks"
      /\ task[t0].status = "running" /\ task[t0].parent = NoTask
      /\ t0 <= seq /\ t0 # NoTask
  BY <1>0, <1>1 DEF Serving, ServingAt, Exists, Working, Verifying
<1>3. seq \in Nat /\ seq' \in TaskId /\ seq' \in 0 .. MaxTask /\ NoTask = 0
      /\ seq < seq'
  BY <1>1, BoundsAssumption DEF TypeOK, Room, TaskId, NoTask
<1>4. task[seq'] = NoRow /\ NoRow.name = "none" /\ NoRow.parent = NoTask /\ t0 # seq'
  BY <1>1, <1>2, <1>3 DEF TypeOK, TaskId, NoRow
<1>5. /\ row \in TaskRow /\ row.name = "check_dhcp" /\ row.status = "running"
      /\ row.parent = t0
  BY <1>2 DEF row, Row, TaskRow, TaskNames, TaskStatuses
<1>6. r \in Request /\ r.pc = "verify_cast" /\ r.task = t0 /\ r.sub = seq'
  <2>1. req[w] \in Request /\ "verify_cast" \in Places
    BY DEF TypeOK, Places
  <2> QED BY <1>0, <1>3, <2>1 DEF r, Request
<1>7. /\ req' \in [Worker -> Request] /\ req'[w] = r
      /\ \A v \in Worker \ {w} : req'[v] = req[v]
  BY <1>1, <1>6, ServedFacts
<1>8. /\ task' \in [TaskId -> TaskRow] /\ task'[seq'] = row
      /\ task'[t0].name = "verify_networks" /\ task'[t0].status = "running"
      /\ task'[t0].parent = NoTask
      /\ \A u \in TaskId \ {t0, seq'} : task'[u] = task[u]
  <2> DEFINE x == [task[t0] EXCEPT !.name = "verify_networks"]
  <2>1. task[t0] \in TaskRow /\ task \in [TaskId -> TaskRow]
    BY <1>2 DEF TypeOK
  <2>2. /\ x \in TaskRow /\ x.name = "verify_networks" /\ x.status = "running"
        /\ x.parent = NoTask
    BY <1>2, <2>1 DEF TaskRow, TaskNames
  <2>3. task' = [[task EXCEPT ![t0] = x] EXCEPT ![seq'] = row]
    BY <1>1
  <2> HIDE DEF x
  <2> QED BY <1>2, <1>3, <1>4, <1>5, <2>1, <2>2, <2>3
<1>9. \A v \in Worker : req'[v].task = req[v].task
  BY <1>0, <1>6, <1>7
<1>10. \A t : Handed(t)' <=> Handed(t)
  BY <1>9 DEF Handed
<1>11. \A t \in TaskId : task[t].parent # t0
  BY <1>2, ParentExists
<1>12. ASSUME NEW p \in TaskId, p # t0 PROVE Subtasks(p)' = Subtasks(p)
  BY <1>2, <1>3, <1>4, <1>5, <1>8, <1>12 DEF Subtasks, NoTask, TaskId
<1>13. Subtasks(t0)' = {seq'}
  BY <1>2, <1>3, <1>5, <1>8, <1>11 DEF Subtasks, NoTask, TaskId
<1>14. TypeOK'
  <2>1. ASSUME NEW t \in TaskId, task'[t].name = "none" \/ t > seq'
        PROVE  task'[t] = NoRow
    <3>1. t # t0 /\ t # seq'
      BY <1>2, <1>3, <1>5, <1>8, <2>1 DEF TaskId
    <3> QED BY <1>1, <1>3, <1>8, <2>1, <3>1 DEF TypeOK, TaskId
  <2>2. TypedRows'
    BY <1>3, <1>8, <2>1 DEF TypedRows
  <2> QED BY <1>1, <1>7, <2>2, BudgetFacts, TypedKept
<1>15. Rows'
  <2>1. ASSUME NEW t \in TaskId \ {t0, seq'}, task[t].parent \in TaskId
        PROVE  task'[task[t].parent] = task[task[t].parent]
    <3>1. task[task[t].parent].name \in {"verify_networks", "deploy"}
      BY <2>1, ParentExists
    <3>2. task[t].parent # t0 /\ task[t].parent # seq'
      BY <1>2, <1>4, <3>1
    <3> QED BY <1>8, <2>1, <3>2
  <2>2. \A t \in TaskId : task[t].parent \in TaskId \cup {NoTask}
    BY DEF TypeOK, TaskRow
  <2> QED BY <1>2, <1>4, <1>5, <1>8, <2>1, <2>2 DEF Rows
<1>16. ServingAt(w)'
  BY <1>2, <1>3, <1>5, <1>6, <1>7, <1>8, <1>13
     DEF ServingAt, Working, Verifying, Checking, Deploying, RunsVerification,
         Exists, TaskId
<1>17. ASSUME NEW v \in Worker \ {w} PROVE ServingAt(v)'
  <2>0. PICK q \in Request : q = req[v]
    BY DEF TypeOK
  <2>1. req'[v] = q /\ req[v] = q /\ ServingAt(v)
    BY <1>7, <2>0 DEF Serving
  <2>2. /\ q.task \in TaskId \cup {NoTask} /\ q.sub \in TaskId \cup {NoTask}
        /\ q.task <= seq /\ q.sub <= seq
    BY <2>1 DEF ServingAt, Request
  <2>3. q.task # t0 /\ q.task # seq' /\ q.sub # seq'
    BY <1>0, <1>2, <1>3, <2>0, <2>2 DEF Apart, TaskId
  <2>4. q.pc = "deploy_start" => q.sub # t0
    BY <1>2, <2>1 DEF ServingAt, Exists
  <2>5. q.task \in TaskId => task'[q.task] = task[q.task]
                                  /\ Subtasks(q.task)' = Subtasks(q.task)
    BY <1>8, <1>12, <2>3
  <2>6. q.sub \in TaskId /\ q.sub # t0 => task'[q.sub] = task[q.sub]
    BY <1>8, <2>3
  <2>7. q.pc = "verify_cast" =>
          /\ Subtasks(q.task)' \subseteq {q.sub}
          /\ RunsVerification(q.task)'
    BY <1>2, <2>1, <2>2, <2>5 DEF ServingAt, RunsVerification, Exists
  <2>8. q.pc = "verify_cast" /\ Exists(q.sub)' =>
          task'[q.sub].parent = q.task
    <3>1. CASE q.sub = t0
      BY <1>2, <1>3, <2>1, <2>2, <2>3, <3>1 DEF TaskId, ServingAt, Exists, RunsVerification
    <3>2. CASE q.sub # t0
      BY <2>1, <2>6, <3>2 DEF ServingAt, Exists
    <3> QED BY <3>1, <3>2
  <2>9. q.task <= seq' /\ q.sub <= seq'
    BY <1>1, <1>3, <2>2 DEF TaskId
  <2> QED BY <2>1, <2>2, <2>4, <2>5, <2>6, <2>7, <2>8, <2>9 DEF ServingAt, Exists
<1>18. Serving' /\ Apart'
  BY <1>9, <1>16, <1>17 DEF Serving, Apart
<1>19. Asked'
  <2> SUFFICES ASSUME NEW m \in orch
               PROVE  /\ m.task <= seq' /\ m.dhcp <= seq'
                      /\ RunsVerification(m.task)'
                      /\ Subtasks(m.task)' \subseteq {m.dhcp}
                      /\ Exists(m.dhcp)' => task'[m.dhcp].parent = m.task
                      /\ Handed(m.task)'
                      /\ m.answered => \A t \in Subtasks(m.task)' :
                           task'[t].status = "running" =>
                           \E i \in 1 .. Len(queue) :
                             OnDhcp(queue[i]) /\ queue[i].task = t
    BY <1>u DEF Asked, Final, OnDhcp
  <2>1. m.task \in TaskId /\ m.dhcp \in TaskId /\ m.task <= seq /\ m.dhcp <= seq
    BY DEF Asked, TypeOK, Message
  <2>2. /\ RunsVerification(m.task) /\ Handed(m.task)
        /\ Exists(m.dhcp) => task[m.dhcp].parent = m.task
    BY DEF Asked
  <2>3. m.task # t0 /\ m.task # seq' /\ m.dhcp # seq'
    BY <1>0, <1>3, <2>1, <2>2 DEF Handed, TaskId
  <2>4. m.dhcp # t0
    BY <1>2, <1>3, <2>1, <2>2 DEF Exists, TaskId
  <2>5. /\ task'[m.task] = task[m.task] /\ task'[m.dhcp] = task[m.dhcp]
        /\ Subtasks(m.task)' = Subtasks(m.task)
    BY <1>8, <1>12, <2>1, <2>3, <2>4
  <2>6. \A t \in Subtasks(m.task) : task'[t] = task[t]
    BY <2>5 DEF Asked
  <2>7. m.task <= seq' /\ m.dhcp <= seq'
    BY <1>1, <1>3, <2>1 DEF TaskId
  <2> QED BY <1>10, <2>1, <2>2, <2>5, <2>6, <2>7 DEF Asked, RunsVerification, Exists
<1>20. Queued'
  <2> SUFFICES ASSUME NEW i \in 1 .. Len(queue), NEW x, x = queue[i]
               PROVE  /\ x.task <= seq'
                      /\ ~ OnDhcp(x) => Handed(x.task)'
                      /\ ~ OnDhcp(x) /\ Exists(x.task)' =>
                           task'[x.task].name = "verify_networks"
                      /\ Report(x) => RunsVerification(x.task)'
                      /\ OnDhcp(x) => x.status # "running"
                      /\ OnDhcp(x) /\ Exists(x.task)' =>
                           /\ task'[x.task].name = "check_dhcp"
                           /\ task'[task'[x.task].parent].status = "running"
                           /\ Handed(task[x.task].parent)'
                      /\ Final(x) =>
                           /\ \A t \in Subtasks(x.task)' : task'[t].status = "running" =>
                                \E j \in 1 .. i - 1 :
                                  OnDhcp(queue[j]) /\ queue[j].task = t
                           /\ \A j \in i + 1 .. Len(queue) :
                                IF OnDhcp(queue[j])
                                THEN queue[j].task \notin Subtasks(x.task)'
                                ELSE queue[j].task # x.task
    BY <1>u DEF Queued, Final, Report, OnDhcp
  <2>1. x.task \in TaskId /\ x.task <= seq
    <3>1. x \in Reply
      BY DEF TypeOK
    <3> QED BY <3>1 DEF Queued, Reply
  <2>2. x.task # seq' /\ x.task <= seq'
    BY <1>1, <1>3, <2>1 DEF TaskId
  <2>3. ~ OnDhcp(x) => x.task # t0
    BY <1>0 DEF Queued, Handed
  <2>4. OnDhcp(x) /\ Exists(x.task) => x.task # t0
    BY <1>2 DEF Queued
  <2>5. x.task # t0
    BY <1>2, <2>3, <2>4 DEF Exists
  <2>6. task'[x.task] = task[x.task] /\ Subtasks(x.task)' = Subtasks(x.task)
    BY <1>8, <1>12, <2>1, <2>2, <2>5
  <2>7. \A t \in Subtasks(x.task) : task'[t] = task[t]
    BY <1>4, <1>8, <1>2, <2>1, <2>5 DEF Subtasks, NoTask, TaskId
  <2>8. ASSUME OnDhcp(x), Exists(x.task)'
        PROVE  /\ task'[x.task].name = "check_dhcp"
               /\ task'[task'[x.task].parent].status = "running"
               /\ Handed(task[x.task].parent)'
    <3>1. /\ task[x.task].name = "check_dhcp"
          /\ task[task[x.task].parent].status = "running"
          /\ Handed(task[x.task].parent)
      BY <1>1, <2>6, <2>8 DEF Queued, Exists
    <3>2. /\ task[x.task].parent \in TaskId
          /\ task[task[x.task].parent].name = "verify_networks"
      BY <2>1, <3>1 DEF Rows
    <3>3. task'[task[x.task].parent] = task[task[x.task].parent]
      BY <1>2, <1>4, <1>8, <3>2
    <3>4. Handed(task[x.task].parent)'
      BY <1>1, <1>9, <2>6, <3>1 DEF Handed
    <3> QED BY <2>6, <3>1, <3>3, <3>4
  <2>9. Report(x) => RunsVerification(x.task)'
    BY <1>1, <2>6 DEF Queued, RunsVerification
  <2>10. ~ OnDhcp(x) => Handed(x.task)'
    BY <1>1, <1>9 DEF Queued, Handed
  <2>11. ~ OnDhcp(x) /\ Exists(x.task)' => task'[x.task].name = "verify_networks"
    BY <1>1, <2>6 DEF Queued, Exists
  <2> QED BY <2>2, <2>6, <2>7, <2>8, <2>9, <2>10, <2>11 DEF Queued
<1>21. VerdictCountsDhcp'
  <2> SUFFICES ASSUME NEW p \in TaskId, task'[p].name = "verify_networks",
                      task'[p].status = "ready", NEW t \in Subtasks(p)'
               PROVE  task'[t].status = "ready"
    BY DEF VerdictCountsDhcp, Named
  <2>1. p # t0 /\ p # seq'
    BY <1>5, <1>8
  <2>2. task'[p] = task[p] /\ t \in Subtasks(p)
    BY <1>8, <1>12, <2>1
  <2>3. task'[t] = task[t]
    BY <1>2, <1>3, <1>4, <1>8, <2>2 DEF Subtasks, TaskId
  <2> QED BY <2>2, <2>3 DEF VerdictCountsDhcp, Named
<1>22. Polled
  <2>1. ASSUME NEW t \in TaskId, t # seq' PROVE task'[t].status = task[t].status
    BY <1>2, <1>8, <2>1
  <2>2. ASSUME NEW t \in TaskId, RunsVerification(t)
        PROVE  task'[t].name = "verify_networks"
    BY <1>2, <1>4, <1>8, <2>2 DEF RunsVerification
  <2>3. ASSUME NEW t \in TaskId, task'[t].name = "verify_networks"
        PROVE  \/ task[t].name = "verify_networks"
               \/ req[w].pc = "verify_check" /\ req[w].task = t /\ req'[w].pc = "verify_cast"
    <3>1. t # seq'
      BY <1>5, <1>8, <2>3
    <3> QED BY <1>0, <1>1, <1>6, <1>7, <1>8, <2>3, <3>1
  <2> QED BY <1>1, <1>3, <1>5, <1>8, <2>1, <2>2, <2>3 DEF Polled
<1> QED BY <1>14, <1>15, <1>18, <1>19, <1>20, <1>21, <1>22

\* The orchestrator gets the message.
LEMMA VerifyCastKeeps ==
  ASSUME IInv, NEW w \in Worker, VerifyCast(w)
  PROVE  IInv' /\ Polled
<1> USE DEF IInv
<1>1. /\ req[w].pc = "verify_cast" /\ Exists(req[w].task) /\ Return(w)
      /\ orch' = orch \cup {[task |-> req[w].task, dhcp |-> req[w].sub,
                             answered |-> FALSE]}
      /\ UNCHANGED <<task, seq, deploying, queue, budget>>
  BY DEF VerifyCast
<1>2. PICK m \in [task : TaskId \cup {NoTask}, dhcp : TaskId \cup {NoTask},
                  answered : BOOLEAN] :
        /\ m.task = req[w].task /\ m.dhcp = req[w].sub /\ m.answered = FALSE
        /\ orch' = orch \cup {m}
  <2>1. req[w] \in Request
    BY DEF TypeOK
  <2> QED BY <1>1, <2>1 DEF Request
<1>3. /\ m.task \in TaskId /\ m.dhcp \in TaskId
      /\ m.task <= seq /\ m.dhcp <= seq /\ RunsVerification(m.task)
      /\ Subtasks(m.task) \subseteq {m.dhcp}
      /\ Exists(m.dhcp) => task[m.dhcp].parent = m.task
  BY <1>1, <1>2 DEF Serving, ServingAt, Working, Verifying, Exists
<1>4. m \in Message
  BY <1>2, <1>3 DEF Message
<1>5. req' \in [Worker -> Request] /\ Moves(w) /\ ServingAt(w)'
  BY <1>1, ReturnFacts
<1>6. Tidied(w) /\ TypedRows'
  BY <1>1, SameTidied
<1>7. TypeOK'
  <2>1. /\ deploying' \in BOOLEAN /\ queue' \in Seq(Reply)
        /\ budget' \in [requests : 0 .. MaxRequests, faults : 0 .. MaxFaults]
    BY <1>1 DEF TypeOK
  <2>2. orch' \subseteq Message
    BY <1>2, <1>4 DEF TypeOK
  <2> QED BY <1>5, <1>6, <2>1, <2>2 DEF TypedRows, TypeOK
<1>8. Rows' /\ VerdictCountsDhcp' /\ Apart'
  BY <1>5, <1>6, TidiedRows, TidiedVerdict, TidiedApart
<1>9. Serving'
  BY <1>5, <1>6, TidiedServing DEF Serving
<1>10. \A t \in TaskId : (Handed(t) => Handed(t)')
  BY <1>1, IdleFacts DEF Handed, Return, Resting, NoTask, TaskId, TypeOK
<1>11. Handed(m.task)'
  BY <1>1, <1>2, <1>3, IdleFacts DEF Handed, Return, Resting, NoTask, TaskId, TypeOK,
                                     Apart
<1>12. \A n \in orch : n.task # m.task
  BY <1>2 DEF Asked, Handed
<1>13. \A i \in 1 .. Len(queue) : Final(queue[i]) => queue[i].task # m.task
  BY <1>2 DEF Queued, Handed, Final, OnDhcp
<1>14. \A t \in TaskId : Subtasks(t)' = Subtasks(t)
  BY <1>1 DEF Subtasks
<1>15. \A n \in orch : n.task \in TaskId
  BY DEF TypeOK, Message
<1>16. Asked'
  <2>1. \A n \in orch' : n = m \/ n \in orch
    BY <1>2
  <2>2. \A n \in orch' : n.task \in TaskId
    BY <1>3, <1>15, <2>1
  <2> SUFFICES ASSUME NEW n \in orch'
               PROVE  /\ n.task <= seq /\ n.dhcp <= seq
                      /\ RunsVerification(n.task)
                      /\ Subtasks(n.task) \subseteq {n.dhcp}
                      /\ Exists(n.dhcp) => task[n.dhcp].parent = n.task
                      /\ Handed(n.task)'
                      /\ \A i \in 1 .. Len(queue) :
                           Final(queue[i]) => queue[i].task # n.task
                      /\ n.answered => \A t \in Subtasks(n.task) :
                           task[t].status = "running" =>
                           \E i \in 1 .. Len(queue) :
                             OnDhcp(queue[i]) /\ queue[i].task = t
                      /\ \A o \in orch' : o.task = n.task => o = n
    BY <1>1, <1>14, <2>2 DEF Asked, Final, OnDhcp, RunsVerification, Exists
  <2>3. CASE n = m
    BY <1>2, <1>3, <1>11, <1>12, <1>13, <2>1, <2>3
  <2>4. CASE n \in orch
    BY <1>2, <1>10, <1>12, <1>15, <2>1, <2>4 DEF Asked
  <2> QED BY <2>1, <2>3, <2>4
<1>17. Queued'
  <2>1. \A i \in 1 .. Len(queue) : queue[i].task \in TaskId
    BY QueuedFacts
  <2>2. \A i \in 1 .. Len(queue) :
          OnDhcp(queue[i]) /\ Exists(queue[i].task) =>
            task[queue[i].task].parent \in TaskId
    BY <2>1 DEF Queued, Rows
  <2> SUFFICES ASSUME NEW i \in 1 .. Len(queue)
               PROVE  /\ ~ OnDhcp(queue[i]) => Handed(queue[i].task)'
                      /\ OnDhcp(queue[i]) /\ Exists(queue[i].task) =>
                           Handed(task[queue[i].task].parent)'
    BY <1>1, <1>14, <2>1 DEF Queued, Final, Report, OnDhcp, RunsVerification, Exists
  <2>3. PICK t \in TaskId : t = queue[i].task
    BY <2>1
  <2>4. ~ OnDhcp(queue[i]) => Handed(t)'
    BY <1>10, <2>3 DEF Queued
  <2>5. ASSUME OnDhcp(queue[i]), Exists(t) PROVE Handed(task[t].parent)'
    <3>1. PICK p \in TaskId : p = task[t].parent
      BY <2>2, <2>3, <2>5
    <3>2. Handed(p)'
      BY <1>10, <2>3, <2>5, <3>1 DEF Queued
    <3> QED BY <1>1, <3>1, <3>2
  <2> QED BY <1>1, <2>3, <2>4, <2>5
<1>18. Polled
  BY <1>1, SamePolled
<1> QED BY <1>7, <1>8, <1>9, <1>16, <1>17, <1>18

\* A verification that is not under way ends, its request with it.
LEMMA CastRefusedKeeps ==
  ASSUME IInv, NEW w \in Worker, CastRefused(w)
  PROVE  IInv' /\ Polled
<1> USE DEF IInv
<1>0. PICK t0 \in TaskId : t0 = req[w].task
  BY DEF CastRefused, Exists
<1>1. /\ req[w].pc = "verify_cast" /\ Return(w) /\ task' = WithStatus(t0, "error")
      /\ UNCHANGED <<seq, deploying, orch, queue>>
      /\ budget' \in [requests : 0 .. MaxRequests, faults : 0 .. MaxFaults]
  BY <1>0, BudgetFacts DEF CastRefused
<1>2. /\ task[t0].name = "verify_networks" /\ t0 <= seq /\ NoTask \notin TaskId
  BY <1>0, <1>1 DEF Serving, ServingAt, RunsVerification, TaskId, NoTask
<1>3. /\ task' \in [TaskId -> TaskRow]
      /\ \A u \in TaskId \ {t0} : task'[u] = task[u]
      /\ \A u \in TaskId : task'[u].name = task[u].name /\ task'[u].parent = task[u].parent
      /\ task'[t0].status = "error"
  <2>1. /\ task' \in [TaskId -> TaskRow]
        /\ \A u \in TaskId \ {t0} : task'[u] = task[u]
        /\ task'[t0] = [name |-> task[t0].name, status |-> "error",
                        parent |-> task[t0].parent]
    BY <1>1, WithStatusFacts DEF TaskStatuses
  <2> QED BY <2>1
<1>4. req' \in [Worker -> Request] /\ Moves(w) /\ ServingAt(w)'
  BY <1>1, ReturnFacts
<1>5. TypeOK'
  <2>1. ASSUME NEW t \in TaskId, task'[t].name = "none" \/ t > seq'
        PROVE  task'[t] = NoRow
    <3>1. seq \in Nat
      BY BoundsAssumption DEF TypeOK
    <3> QED BY <1>1, <1>2, <1>3, <2>1, <3>1 DEF TypeOK, TaskId
  <2>2. TypedRows'
    BY <1>1, <1>3, <2>1 DEF TypedRows, TypeOK
  <2> QED BY <1>1, <1>4, <2>2, TypedKept
<1>6. Rows'
  <2>1. \A t \in TaskId : task[t].parent \in TaskId \cup {NoTask}
    BY DEF TypeOK, TaskRow
  <2> QED BY <1>2, <1>3, <2>1 DEF Rows
<1>7. \A t \in TaskId : Subtasks(t)' = Subtasks(t)
  BY <1>3 DEF Subtasks
<1>8. \A t : Exists(t)' <=> Exists(t)
  BY <1>3 DEF Exists
<1>9. ASSUME NEW v \in Worker \ {w} PROVE ServingAt(v)'
  <2>1. PICK q \in Request : q = req[v]
    BY DEF TypeOK
  <2>2. req'[v] = q /\ req[v] = q /\ ServingAt(v)
    BY <1>4, <2>1 DEF Serving, Moves
  <2>3. q.task # t0
    BY <1>0, <1>2, <2>2 DEF Apart
  <2>4. q.task \in TaskId => /\ Subtasks(q.task)' = Subtasks(q.task)
                             /\ task'[q.task] = task[q.task]
    BY <1>3, <1>7, <2>3
  <2>5. q.task \notin TaskId => ~ RunsVerification(q.task) /\ ~ Exists(q.task)
    BY DEF RunsVerification, Exists
  <2>6. q.sub \in TaskId => /\ task'[q.sub].name = task[q.sub].name
                            /\ task'[q.sub].parent = task[q.sub].parent
    BY <1>3
  <2>7. q.pc = "verify_cast" =>
          /\ RunsVerification(q.task)'
          /\ Subtasks(q.task)' \subseteq {q.sub}
          /\ Exists(q.sub)' => task'[q.sub].parent = q.task
    BY <1>8, <2>2, <2>4, <2>5, <2>6 DEF ServingAt, RunsVerification, Exists
  <2> QED BY <1>1, <1>8, <2>2, <2>4, <2>5, <2>6, <2>7 DEF ServingAt, Exists
<1>10. Serving' /\ Apart'
  <2>1. Serving'
    BY <1>4, <1>9 DEF Serving
  <2>2. \A v \in Worker \ {w} : req'[v] = req[v]
    BY <1>4 DEF Moves
  <2>3. req'[w].task = NoTask
    BY <1>1, IdleFacts DEF Return, Resting, TypeOK
  <2>4. Apart'
    BY <2>2, <2>3 DEF Apart
  <2> QED BY <2>1, <2>4
<1>11. \A t \in TaskId : (Handed(t) => Handed(t)') /\ (Handed(t) => t # t0)
  BY <1>0, <1>1, <1>2, IdleFacts DEF Handed, Return, Resting, TypeOK
<1>12. Asked'
  <2> SUFFICES ASSUME NEW m \in orch
               PROVE  /\ RunsVerification(m.task)'
                      /\ Subtasks(m.task)' \subseteq {m.dhcp}
                      /\ Exists(m.dhcp)' => task'[m.dhcp].parent = m.task
                      /\ Handed(m.task)'
                      /\ m.answered => \A t \in Subtasks(m.task)' :
                           task'[t].status = "running" =>
                           \E i \in 1 .. Len(queue) :
                             OnDhcp(queue[i]) /\ queue[i].task = t
    BY <1>1 DEF Asked, Final, OnDhcp
  <2>1. m.task \in TaskId /\ m.dhcp \in TaskId
    BY DEF TypeOK, Message
  <2>2. Handed(m.task) /\ m.task # t0 /\ RunsVerification(m.task)
    BY <1>11, <2>1 DEF Asked
  <2>3. \A t \in Subtasks(m.task) : t \in TaskId /\ task'[t] = task[t]
    BY <1>2, <1>3, <2>1 DEF Subtasks, Rows
  <2> QED BY <1>3, <1>7, <1>8, <1>11, <2>1, <2>2, <2>3 DEF Asked, RunsVerification
<1>13. Queued'
  <2> SUFFICES ASSUME NEW i \in 1 .. Len(queue), NEW x, x = queue[i]
               PROVE  /\ ~ OnDhcp(x) => Handed(x.task)'
                      /\ ~ OnDhcp(x) /\ Exists(x.task)' =>
                           task'[x.task].name = "verify_networks"
                      /\ Report(x) => RunsVerification(x.task)'
                      /\ OnDhcp(x) => x.status # "running"
                      /\ OnDhcp(x) /\ Exists(x.task)' =>
                           /\ task'[x.task].name = "check_dhcp"
                           /\ task'[task'[x.task].parent].status = "running"
                           /\ Handed(task[x.task].parent)'
                      /\ Final(x) =>
                           /\ \A t \in Subtasks(x.task)' : task'[t].status = "running" =>
                                \E j \in 1 .. i - 1 :
                                  OnDhcp(queue[j]) /\ queue[j].task = t
                           /\ \A j \in i + 1 .. Len(queue) :
                                IF OnDhcp(queue[j])
                                THEN queue[j].task \notin Subtasks(x.task)'
                                ELSE queue[j].task # x.task
    BY <1>1 DEF Queued, Final, Report, OnDhcp
  <2>1. x.task \in TaskId
    BY QueuedFacts
  <2>2. ~ OnDhcp(x) => Handed(x.task) /\ x.task # t0
    BY <1>11, <2>1 DEF Queued
  <2>3. Report(x) => RunsVerification(x.task)'
    BY <1>3, <2>1, <2>2 DEF Queued, RunsVerification, Report, OnDhcp
  <2>4. ASSUME OnDhcp(x), Exists(x.task)
        PROVE  /\ task'[x.task].name = "check_dhcp"
               /\ task'[task'[x.task].parent].status = "running"
               /\ Handed(task[x.task].parent)'
    <3>1. PICK p \in TaskId : p = task[x.task].parent
      BY <2>1, <2>4 DEF Queued, Rows
    <3>2. task[p].status = "running" /\ Handed(p) /\ task[x.task].name = "check_dhcp"
      BY <2>4, <3>1 DEF Queued
    <3>3. task'[p] = task[p] /\ Handed(p)' /\ task'[x.task].parent = p
      BY <1>3, <1>11, <2>1, <3>1, <3>2
    <3>4. Handed(task[x.task].parent)'
      BY <3>3 DEF Handed
    <3> QED BY <1>3, <2>1, <3>2, <3>3, <3>4
  <2>5. \A t \in Subtasks(x.task) : t \in TaskId /\ task'[t] = task[t]
    BY <1>2, <1>3, <2>1 DEF Subtasks, Rows
  <2> QED BY <1>3, <1>7, <1>8, <1>11, <2>1, <2>2, <2>3, <2>4, <2>5 DEF Queued
<1>14. VerdictCountsDhcp'
  <2> SUFFICES ASSUME NEW p \in TaskId, task'[p].name = "verify_networks",
                      task'[p].status = "ready", NEW t \in Subtasks(p)'
               PROVE  task'[t].status = "ready"
    BY DEF VerdictCountsDhcp, Named
  <2>1. p # t0 /\ task'[p] = task[p] /\ t \in Subtasks(p)
    BY <1>3, <1>7
  <2>2. t # t0 /\ t \in TaskId
    BY <1>2, <2>1 DEF Subtasks, Rows
  <2> QED BY <1>3, <2>1, <2>2 DEF VerdictCountsDhcp, Named
<1>15. Polled
  <2>1. ASSUME NEW t \in TaskId
        PROVE  \/ task'[t].status = task[t].status
               \/ task[t].status # "none" /\ task'[t].status = "error"
    BY <1>2, <1>3 DEF Rows
  <2>2. seq \in Nat /\ seq' = seq
    BY <1>1, BoundsAssumption DEF TypeOK
  <2> QED BY <1>3, <2>1, <2>2 DEF Polled, RunsVerification
<1> QED BY <1>5, <1>6, <1>10, <1>12, <1>13, <1>14, <1>15

------------------------------------------------------------------------------
(***************************************************************************)
(* The orchestrator: what it sends joins the end of the queue.             *)
(***************************************************************************)

\* x is now the last reply.
Appended(x) ==
  /\ queue' \in Seq(Reply) /\ Len(queue) \in Nat
  /\ Len(queue') = Len(queue) + 1 /\ queue'[Len(queue) + 1] = x
  /\ \A i \in 1 .. Len(queue) : queue'[i] = queue[i]

LEMMA SendFacts ==
  ASSUME TypeOK, NEW method \in {"verify_networks_resp", "check_dhcp_resp"},
         NEW t \in TaskId, NEW st \in TaskStatuses, NEW lost \in BOOLEAN,
         Send(method, t, st, lost)
  PROVE  \E x \in Reply : /\ Appended(x) /\ x.method = method /\ x.task = t
                          /\ x.status = st
<1>1. PICK x \in Reply : x = [method |-> method, task |-> t, status |-> st, lost |-> lost]
  BY DEF Reply
<1>2. queue' = Append(queue, x) /\ queue \in Seq(Reply)
  BY <1>1 DEF Send, TypeOK
<1>3. Appended(x)
  BY <1>1, <1>2 DEF Appended
<1> QED BY <1>1, <1>3

\* What goes for the queue goes for its beginning.
LEMMA AppendedFacts ==
  ASSUME IInv, NEW x \in Reply, Appended(x), UNCHANGED <<task, seq, req>>,
         x.task <= seq,
         ~ OnDhcp(x) => Handed(x.task),
         ~ OnDhcp(x) /\ Exists(x.task) => task[x.task].name = "verify_networks",
         Report(x) => RunsVerification(x.task),
         OnDhcp(x) => x.status # "running",
         OnDhcp(x) /\ Exists(x.task) =>
           /\ task[x.task].name = "check_dhcp"
           /\ task[task[x.task].parent].status = "running"
           /\ Handed(task[x.task].parent),
         Final(x) => \A t \in Subtasks(x.task) : task[t].status = "running" =>
           \E j \in 1 .. Len(queue) : OnDhcp(queue[j]) /\ queue[j].task = t,
         \A i \in 1 .. Len(queue) : Final(queue[i]) =>
           IF OnDhcp(x) THEN x.task \notin Subtasks(queue[i].task)
           ELSE x.task # queue[i].task
  PROVE  Queued'
<1> USE DEF IInv
<1>1. Len(queue) \in Nat /\ Len(queue') = Len(queue) + 1
  BY DEF Appended
<1>2. \A t : /\ Handed(t)' <=> Handed(t)
             /\ Exists(t)' <=> Exists(t)
             /\ RunsVerification(t)' <=> RunsVerification(t)
             /\ Subtasks(t)' = Subtasks(t)
  BY DEF Handed, Exists, RunsVerification, Subtasks
<1> DEFINE At(i) ==
             LET r == queue'[i] IN
             /\ r.task <= seq
             /\ ~ OnDhcp(r) => Handed(r.task)
             /\ ~ OnDhcp(r) /\ Exists(r.task) => task[r.task].name = "verify_networks"
             /\ Report(r) => RunsVerification(r.task)
             /\ OnDhcp(r) => r.status # "running"
             /\ OnDhcp(r) /\ Exists(r.task) =>
                  /\ task[r.task].name = "check_dhcp"
                  /\ task[task[r.task].parent].status = "running"
                  /\ Handed(task[r.task].parent)
             /\ Final(r) =>
                  /\ \A t \in Subtasks(r.task) : task[t].status = "running" =>
                       \E j \in 1 .. i - 1 : OnDhcp(queue'[j]) /\ queue'[j].task = t
                  /\ \A j \in i + 1 .. Len(queue') :
                       IF OnDhcp(queue'[j]) THEN queue'[j].task \notin Subtasks(r.task)
                       ELSE queue'[j].task # r.task
<1>3. ASSUME NEW i \in 1 .. Len(queue) PROVE At(i)
  <2>1. queue'[i] = queue[i] /\ i \in 1 .. Len(queue')
    BY <1>1 DEF Appended
  <2>2. \A j \in 1 .. i - 1 : queue'[j] = queue[j]
    BY <1>1 DEF Appended
  <2>3. ASSUME Final(queue[i]), NEW j \in i + 1 .. Len(queue')
        PROVE  IF OnDhcp(queue'[j]) THEN queue'[j].task \notin Subtasks(queue[i].task)
               ELSE queue'[j].task # queue[i].task
    <3>1. CASE j = Len(queue) + 1
      BY <2>3, <3>1 DEF Appended
    <3>2. CASE j # Len(queue) + 1
      <4>1. j \in i + 1 .. Len(queue) /\ queue'[j] = queue[j]
        BY <1>1, <3>2 DEF Appended
      <4> QED BY <2>3, <4>1 DEF Queued
    <3> QED BY <3>1, <3>2
  <2> QED BY <2>1, <2>2, <2>3 DEF Queued
<1>4. At(Len(queue) + 1)
  <2>1. queue'[Len(queue) + 1] = x
    BY DEF Appended
  <2>2. \A j \in 1 .. (Len(queue) + 1) - 1 : j \in 1 .. Len(queue) /\ queue'[j] = queue[j]
    BY <1>1 DEF Appended
  <2>3. \A j \in 1 .. Len(queue) : j \in 1 .. (Len(queue) + 1) - 1
    BY <1>1
  <2>4. Len(queue) + 1 + 1 .. Len(queue') = {}
    BY <1>1
  <2> QED BY <2>1, <2>2, <2>3, <2>4
<1>5. \A i \in 1 .. Len(queue') : At(i)
  <2>1. \A i \in 1 .. Len(queue') : i \in 1 .. Len(queue) \/ i = Len(queue) + 1
    BY <1>1
  <2> HIDE DEF At
  <2> QED BY <1>3, <1>4, <2>1
<1>6. ASSUME NEW i \in 1 .. Len(queue'), OnDhcp(queue'[i]), Exists(queue'[i].task)
      PROVE  Handed(task[queue'[i].task].parent)
  BY <1>5, <1>6
<1> QED BY <1>2, <1>5 DEF Queued, Final, Report, OnDhcp

\* Asking for nothing new, with more in the queue.
LEMMA StillAsked ==
  ASSUME IInv, NEW x \in Reply, Appended(x), UNCHANGED <<task, seq, req>>,
         NEW m \in orch, Final(x) => x.task # m.task
  PROVE  /\ m.task <= seq /\ m.dhcp <= seq
         /\ RunsVerification(m.task)'
         /\ Subtasks(m.task)' \subseteq {m.dhcp}
         /\ Exists(m.dhcp)' => task'[m.dhcp].parent = m.task
         /\ Handed(m.task)'
         /\ \A i \in 1 .. Len(queue') : Final(queue'[i]) => queue'[i].task # m.task
         /\ m.answered => \A t \in Subtasks(m.task)' : task'[t].status = "running" =>
              \E i \in 1 .. Len(queue') : OnDhcp(queue'[i]) /\ queue'[i].task = t
<1> USE DEF IInv
<1>1. Len(queue) \in Nat /\ Len(queue') = Len(queue) + 1
  BY DEF Appended
<1>2. \A i \in 1 .. Len(queue) : i \in 1 .. Len(queue') /\ queue'[i] = queue[i]
  BY <1>1 DEF Appended
<1>3. \A i \in 1 .. Len(queue') : i \in 1 .. Len(queue) \/ queue'[i] = x
  BY <1>1 DEF Appended
<1>4. \A t : /\ Handed(t)' <=> Handed(t)
             /\ Exists(t)' <=> Exists(t)
             /\ RunsVerification(t)' <=> RunsVerification(t)
             /\ Subtasks(t)' = Subtasks(t)
  BY DEF Handed, Exists, RunsVerification, Subtasks
<1>5. /\ m.task <= seq /\ m.dhcp <= seq
      /\ RunsVerification(m.task) /\ Handed(m.task)
      /\ Subtasks(m.task) \subseteq {m.dhcp}
      /\ Exists(m.dhcp) => task[m.dhcp].parent = m.task
  BY DEF Asked
<1>6. \A i \in 1 .. Len(queue') : Final(queue'[i]) => queue'[i].task # m.task
  BY <1>2, <1>3 DEF Asked
<1>7. m.answered => \A t \in Subtasks(m.task) : task[t].status = "running" =>
        \E i \in 1 .. Len(queue') : OnDhcp(queue'[i]) /\ queue'[i].task = t
  BY <1>2 DEF Asked
<1> QED BY <1>4, <1>5, <1>6, <1>7

LEMMA SameRows ==
  ASSUME IInv, UNCHANGED <<task, seq, req>>
  PROVE  /\ Rows' /\ Serving' /\ Apart' /\ VerdictCountsDhcp'
         /\ TypedRows' /\ req' \in [Worker -> Request]
<1>1. \A t : Exists(t)' = Exists(t) /\ Subtasks(t)' = Subtasks(t)
             /\ RunsVerification(t)' = RunsVerification(t)
  BY DEF Exists, Subtasks, RunsVerification
<1>2. Serving'
  BY DEF IInv, Serving, ServingAt, Exists, Subtasks, RunsVerification
<1> QED BY <1>2 DEF IInv, Rows, Apart, VerdictCountsDhcp, Named, Subtasks, TypeOK,
                    TypedRows

LEMMA ProgressKeeps ==
  ASSUME IInv, NEW m \in orch, Progress(m)
  PROVE  IInv' /\ Polled
<1> USE DEF IInv
<1>1. /\ UNCHANGED <<task, seq, deploying, req, orch, budget>>
      /\ m.task \in TaskId
  BY DEF Progress, TypeOK, Message
<1>2. PICK x \in Reply : /\ Appended(x) /\ x.method = "verify_networks_resp"
                         /\ x.task = m.task /\ x.status = "running"
  <2>1. PICK lost \in BOOLEAN : Send("verify_networks_resp", m.task, "running", lost)
    BY DEF Progress
  <2> QED BY <1>1, <2>1, SendFacts DEF TaskStatuses
<1>3. ~ Final(x) /\ ~ OnDhcp(x)
  BY <1>2 DEF Final, OnDhcp
<1>4. m.task <= seq /\ RunsVerification(m.task) /\ Handed(m.task)
      /\ \A i \in 1 .. Len(queue) : Final(queue[i]) => queue[i].task # m.task
  BY DEF Asked
<1>5. Queued'
  BY <1>1, <1>2, <1>3, <1>4, AppendedFacts DEF RunsVerification
<1>6. Asked'
  BY <1>1, <1>2, <1>3, StillAsked DEF Asked
<1>7. TypeOK'
  BY <1>1, <1>2, SameRows DEF TypeOK, TypedRows, Appended
<1> QED BY <1>1, <1>5, <1>6, <1>7, SameRows, SamePolled

LEMMA AnswerDhcpKeeps ==
  ASSUME IInv, NEW m \in orch, AnswerDhcp(m)
  PROVE  IInv' /\ Polled
<1> USE DEF IInv
<1>1. /\ UNCHANGED <<task, seq, deploying, req, budget>>
      /\ m \in Message /\ m.task \in TaskId /\ m.dhcp \in TaskId
  BY DEF AnswerDhcp, TypeOK, Message
<1>2. PICK x \in Reply : /\ Appended(x) /\ x.method = "check_dhcp_resp"
                         /\ x.task = m.dhcp /\ x.status # "running"
  <2>1. PICK st \in {"ready", "error"}, lost \in BOOLEAN :
          Send("check_dhcp_resp", m.dhcp, st, lost)
    BY DEF AnswerDhcp
  <2>2. st \in TaskStatuses
    BY DEF TaskStatuses
  <2>3. PICK x \in Reply : /\ Appended(x) /\ x.method = "check_dhcp_resp"
                           /\ x.task = m.dhcp /\ x.status = st
    BY <1>1, <2>1, <2>2, SendFacts
  <2> QED BY <2>3
<1>3. ~ Final(x) /\ OnDhcp(x) /\ ~ Report(x)
  BY <1>2 DEF Final, OnDhcp, Report
<1>4. /\ m.task <= seq /\ m.dhcp <= seq /\ RunsVerification(m.task)
      /\ Handed(m.task) /\ Subtasks(m.task) \subseteq {m.dhcp}
      /\ Exists(m.dhcp) => task[m.dhcp].parent = m.task
      /\ \A i \in 1 .. Len(queue) : Final(queue[i]) => queue[i].task # m.task
      /\ \A n \in orch : n.task = m.task => n = m
  BY DEF Asked
<1>5. PICK n \in Message : /\ n.task = m.task /\ n.dhcp = m.dhcp
                           /\ orch' = (orch \ {m}) \cup {n}
  <2>1. /\ [m EXCEPT !.answered = TRUE] \in Message
        /\ [m EXCEPT !.answered = TRUE].task = m.task
        /\ [m EXCEPT !.answered = TRUE].dhcp = m.dhcp
    BY <1>1 DEF Message
  <2> QED BY <2>1 DEF AnswerDhcp
<1>6. Queued'
  <2>1. Exists(x.task) => task[x.task].name = "check_dhcp"
    <3>1. Exists(m.dhcp) => task[task[m.dhcp].parent].name = "verify_networks"
      BY <1>4 DEF RunsVerification
    <3> QED BY <1>1, <1>2, <1>4, <3>1, ParentExists DEF Exists, Rows
  <2>2. Exists(x.task) => /\ task[task[x.task].parent].status = "running"
                          /\ Handed(task[x.task].parent)
    BY <1>2, <1>4 DEF RunsVerification
  <2>3. \A i \in 1 .. Len(queue) : Final(queue[i]) => x.task \notin Subtasks(queue[i].task)
    BY <1>2, <1>4 DEF Subtasks, Exists
  <2> QED BY <1>1, <1>2, <1>3, <1>4, <2>1, <2>2, <2>3, AppendedFacts
<1>7. Asked'
  <2>1. ASSUME NEW o \in orch
        PROVE  /\ o.task <= seq' /\ o.dhcp <= seq' /\ RunsVerification(o.task)'
               /\ Subtasks(o.task)' \subseteq {o.dhcp}
               /\ Exists(o.dhcp)' => task'[o.dhcp].parent = o.task
               /\ Handed(o.task)'
               /\ \A i \in 1 .. Len(queue') : Final(queue'[i]) => queue'[i].task # o.task
               /\ o.answered => \A t \in Subtasks(o.task)' :
                    task'[t].status = "running" =>
                    \E i \in 1 .. Len(queue') : OnDhcp(queue'[i]) /\ queue'[i].task = t
    BY <1>1, <1>2, <1>3, StillAsked
  <2>2. \A t \in Subtasks(n.task)' : task'[t].status = "running" =>
          \E i \in 1 .. Len(queue') : OnDhcp(queue'[i]) /\ queue'[i].task = t
    <3>1. \A t \in Subtasks(n.task)' : t = x.task
      BY <1>2, <1>5, <2>1
    <3>2. Len(queue) + 1 \in 1 .. Len(queue') /\ queue'[Len(queue) + 1] = x
      BY <1>2 DEF Appended
    <3> QED BY <1>3, <3>1, <3>2
  <2>3. ASSUME NEW o \in orch', NEW p \in orch', o.task = p.task PROVE o = p
    BY <1>4, <1>5, <2>3 DEF Asked
  <2>4. ASSUME NEW o \in orch'
        PROVE  /\ o.task <= seq' /\ o.dhcp <= seq' /\ RunsVerification(o.task)'
               /\ Subtasks(o.task)' \subseteq {o.dhcp}
               /\ Exists(o.dhcp)' => task'[o.dhcp].parent = o.task
               /\ Handed(o.task)'
               /\ \A i \in 1 .. Len(queue') : Final(queue'[i]) => queue'[i].task # o.task
               /\ o.answered => \A t \in Subtasks(o.task)' :
                    task'[t].status = "running" =>
                    \E i \in 1 .. Len(queue') : OnDhcp(queue'[i]) /\ queue'[i].task = t
    <3>1. CASE o \in orch
      BY <2>1, <3>1
    <3>2. CASE o = n
      BY <1>5, <2>1, <2>2, <3>2
    <3> QED BY <1>5, <3>1, <3>2
  <2> QED BY <2>3, <2>4 DEF Asked, Final, OnDhcp
<1>8. TypeOK'
  <2>1. orch' \subseteq Message
    BY <1>5 DEF TypeOK
  <2> QED BY <1>1, <1>2, <2>1, SameRows DEF TypeOK, TypedRows, Appended
<1> QED BY <1>1, <1>6, <1>7, <1>8, SameRows, SamePolled

LEMMA AnswerVerifyKeeps ==
  ASSUME IInv, NEW m \in orch, AnswerVerify(m)
  PROVE  IInv' /\ Polled
<1> USE DEF IInv
<1>1. /\ UNCHANGED <<task, seq, deploying, req, budget>> /\ m.answered
      /\ orch' = orch \ {m} /\ m.task \in TaskId
  BY DEF AnswerVerify, TypeOK, Message
<1>2. PICK x \in Reply : /\ Appended(x) /\ x.method = "verify_networks_resp"
                         /\ x.task = m.task /\ x.status # "running"
  <2>1. PICK st \in {"ready", "error"}, lost \in BOOLEAN :
          Send("verify_networks_resp", m.task, st, lost)
    BY DEF AnswerVerify
  <2>2. st \in TaskStatuses
    BY DEF TaskStatuses
  <2>3. PICK x \in Reply : /\ Appended(x) /\ x.method = "verify_networks_resp"
                           /\ x.task = m.task /\ x.status = st
    BY <1>1, <2>1, <2>2, SendFacts
  <2> QED BY <2>3
<1>3. ~ OnDhcp(x) /\ ~ Report(x)
  BY <1>2 DEF Final, OnDhcp, Report
<1>4. /\ m.task <= seq /\ RunsVerification(m.task) /\ Handed(m.task)
      /\ \A i \in 1 .. Len(queue) : Final(queue[i]) => queue[i].task # m.task
      /\ \A t \in Subtasks(m.task) : task[t].status = "running" =>
           \E i \in 1 .. Len(queue) : OnDhcp(queue[i]) /\ queue[i].task = t
      /\ \A n \in orch : n.task = m.task => n = m
  BY <1>1 DEF Asked
<1>5. Queued'
  BY <1>1, <1>2, <1>3, <1>4, AppendedFacts DEF RunsVerification
<1>6. Asked'
  <2>1. ASSUME NEW o \in orch'
        PROVE  /\ o.task <= seq' /\ o.dhcp <= seq' /\ RunsVerification(o.task)'
               /\ Subtasks(o.task)' \subseteq {o.dhcp}
               /\ Exists(o.dhcp)' => task'[o.dhcp].parent = o.task
               /\ Handed(o.task)'
               /\ \A i \in 1 .. Len(queue') : Final(queue'[i]) => queue'[i].task # o.task
               /\ o.answered => \A t \in Subtasks(o.task)' :
                    task'[t].status = "running" =>
                    \E i \in 1 .. Len(queue') : OnDhcp(queue'[i]) /\ queue'[i].task = t
    <3>1. o \in orch /\ x.task # o.task
      BY <1>1, <1>2, <1>4
    <3> QED BY <1>1, <1>2, <3>1, StillAsked
  <2>2. \A o, p \in orch' : o.task = p.task => o = p
    BY <1>1 DEF Asked
  <2> QED BY <2>1, <2>2 DEF Asked, Final, OnDhcp
<1>7. TypeOK'
  <2>1. orch' \subseteq Message
    BY <1>1 DEF TypeOK
  <2> QED BY <1>1, <1>2, <2>1, SameRows DEF TypeOK, TypedRows, Appended
<1> QED BY <1>1, <1>5, <1>6, <1>7, SameRows, SamePolled

------------------------------------------------------------------------------
(***************************************************************************)
(* The receiver: the first reply is applied, and kept or not.              *)
(***************************************************************************)

\* Reply r says nothing of a row that exists, or nothing new, or ends the row.
Applied(r) ==
  \/ task' = task /\ (Exists(r.task) => Report(r))
  \/ /\ Exists(r.task) /\ ~ Report(r)
     /\ task' \in [TaskId -> TaskRow]
     /\ \A u \in TaskId \ {r.task} : task'[u] = task[u]
     /\ task'[r.task].name = task[r.task].name
     /\ task'[r.task].parent = task[r.task].parent
     /\ task'[r.task].status \in {"ready", "error"}
     /\ Final(r) /\ task'[r.task].status = "ready" =>
          \A t \in Subtasks(r.task) : task[t].status # "error"

LEMMA ReceivedFacts ==
  ASSUME IInv, queue # <<>>, NEW r \in Reply, r = Head(queue),
         task' = Received(r)
  PROVE  Applied(r)
<1> USE DEF IInv
<1>1. queue \in Seq(Reply) /\ r = queue[1] /\ 1 \in 1 .. Len(queue)
  BY DEF TypeOK
<1>2. r.task \in TaskId /\ r.status \in TaskStatuses /\ r.method \in
        {"verify_networks_resp", "check_dhcp_resp"}
  BY DEF Reply
<1>3. CASE ~ Exists(r.task)
  BY <1>3 DEF Received, Applied
<1>4. CASE Exists(r.task)
  <2>1. Verdict(r) \in TaskStatuses
    BY <1>2 DEF Verdict, TaskStatuses
  <2>2. /\ task' \in [TaskId -> TaskRow]
        /\ \A u \in TaskId \ {r.task} : task'[u] = task[u]
        /\ task'[r.task] = [name |-> task[r.task].name, status |-> Verdict(r),
                            parent |-> task[r.task].parent]
    BY <1>2, <1>4, <2>1, WithStatusFacts DEF Received
  <2>3. /\ task'[r.task].name = task[r.task].name
        /\ task'[r.task].parent = task[r.task].parent
        /\ task'[r.task].status = Verdict(r)
    BY <2>2
  <2>4. CASE Report(r)
    <3>1. RunsVerification(r.task)
      BY <1>1, <2>4 DEF Queued
    <3>2. task'[r.task] = task[r.task]
      <4>1. task[r.task] \in TaskRow /\ Verdict(r) = task[r.task].status
        BY <2>4, <3>1 DEF Report, Verdict, RunsVerification, TypeOK
      <4> QED BY <2>2, <4>1 DEF TaskRow
    <3>3. task' = task
      BY <2>2, <3>2 DEF TypeOK
    <3> QED BY <2>4, <3>3 DEF Applied
  <2>5. CASE ~ Report(r)
    <3>1. r.status \in {"ready", "error"}
      BY <1>1, <1>2, <2>5 DEF Queued, Report, OnDhcp, TaskStatuses
    <3>2. Verdict(r) \in {"ready", "error"}
      BY <3>1 DEF Verdict
    <3>3. Verdict(r) = "ready" => \A t \in Subtasks(r.task) : task[t].status # "error"
      BY <3>1 DEF Verdict
    <3> QED BY <1>4, <2>2, <2>3, <2>5, <3>2, <3>3 DEF Applied
  <2> QED BY <2>4, <2>5
<1> QED BY <1>3, <1>4

\* Names and parents stay, and so does all that runs but what r is about.
LEMMA AppliedFacts ==
  ASSUME TypeOK, Rows, NEW r \in Reply, Applied(r), seq' = seq
  PROVE  /\ TypedRows'
         /\ \A u \in TaskId : /\ task'[u].name = task[u].name
                              /\ task'[u].parent = task[u].parent
                              /\ u # r.task => task'[u] = task[u]
         /\ \A u : Exists(u)' <=> Exists(u)
         /\ \A u \in TaskId : Subtasks(u)' = Subtasks(u)
<1>1. /\ task' \in [TaskId -> TaskRow]
      /\ \A u \in TaskId : /\ task'[u].name = task[u].name
                           /\ task'[u].parent = task[u].parent
                           /\ u # r.task => task'[u] = task[u]
  BY DEF Applied, TypeOK
<1> QED
  <2>1. (\A u : Exists(u)' <=> Exists(u)) /\ \A u \in TaskId : Subtasks(u)' = Subtasks(u)
    BY <1>1 DEF Exists, Subtasks
  <2>2. ASSUME NEW t \in TaskId, task'[t].name = "none" \/ t > seq
        PROVE  task'[t] = NoRow
    <3>1. task[t] = NoRow /\ NoRow.name = "none"
      BY <1>1, <2>2 DEF TypeOK, NoRow
    <3> QED BY <3>1 DEF Applied, Exists
  <2>3. TypedRows'
    BY <1>1, <2>2 DEF TypedRows, TypeOK
  <2> QED BY <1>1, <2>1, <2>3

\* The queue is the same, or without its first reply: place i was place i + d.
Behind(d) ==
  /\ d \in {0, 1} /\ Len(queue) \in Nat /\ Len(queue') = Len(queue) - d
  /\ \A i \in 1 .. Len(queue') : i + d \in 1 .. Len(queue) /\ queue'[i] = queue[i + d]

LEMMA BehindFacts ==
  ASSUME TypeOK, queue # <<>>, queue' = queue \/ queue' = Tail(queue)
  PROVE  queue' \in Seq(Reply) /\ \E d : Behind(d)
<1>1. queue \in Seq(Reply) /\ Len(queue) \in Nat
  BY DEF TypeOK
<1>2. CASE queue' = queue
  <2>1. Len(queue') = Len(queue) - 0 /\ queue' \in Seq(Reply)
    BY <1>1, <1>2
  <2>2. \A i \in 1 .. Len(queue') : i + 0 \in 1 .. Len(queue) /\ i + 0 = i
    BY <1>1, <1>2
  <2>3. Behind(0)
    BY <1>1, <1>2, <2>1, <2>2 DEF Behind
  <2> QED BY <2>1, <2>3
<1>3. CASE queue' = Tail(queue)
  <2>1. /\ queue' \in Seq(Reply) /\ Len(queue') = Len(queue) - 1
        /\ \A i \in 1 .. Len(queue') : queue'[i] = queue[i + 1]
    BY <1>1, <1>3
  <2>2. Behind(1)
    BY <1>1, <2>1 DEF Behind
  <2> QED BY <2>1, <2>2
<1> QED BY <1>2, <1>3

\* A subtask that still runs has its answer in what is left of the queue.
LEMMA StillAnswered ==
  ASSUME IInv, NEW r \in Reply, queue # <<>>, r = queue[1], Applied(r), seq' = seq,
         NEW d, Behind(d), NEW n \in Nat, n <= Len(queue),
         NEW t \in TaskId, task'[t].name # "none", task'[t].status = "running",
         \E j \in 1 .. n : OnDhcp(queue[j]) /\ queue[j].task = t
  PROVE  \E j \in 1 .. n - d : j \in 1 .. Len(queue') /\ OnDhcp(queue'[j])
                                                       /\ queue'[j].task = t
<1>1. PICK j \in 1 .. n : OnDhcp(queue[j]) /\ queue[j].task = t
  OBVIOUS
<1>2. j # 1
  <2> SUFFICES ASSUME j = 1 PROVE FALSE
    OBVIOUS
  <2>1. r.task = t /\ ~ Report(r)
    BY <1>1 DEF OnDhcp, Report
  <2>2. Exists(r.task)
    BY <2>1, AppliedFacts DEF IInv, Exists
  <2> QED BY <2>1, <2>2 DEF Applied
<1>3. /\ j - d \in 1 .. n - d /\ j - d \in 1 .. Len(queue')
      /\ queue'[j - d] = queue[j]
  BY <1>1, <1>2 DEF Behind
<1> QED BY <1>1, <1>3

LEMMA ReceiveAsked ==
  ASSUME IInv, NEW r \in Reply, queue # <<>>, r = queue[1], Applied(r),
         UNCHANGED <<seq, req, orch>>, NEW d, Behind(d)
  PROVE  Asked'
<1> USE DEF IInv
<1> SUFFICES ASSUME NEW m \in orch
             PROVE  /\ RunsVerification(m.task)'
                    /\ Subtasks(m.task)' \subseteq {m.dhcp}
                    /\ Exists(m.dhcp)' => task'[m.dhcp].parent = m.task
                    /\ Handed(m.task)'
                    /\ \A i \in 1 .. Len(queue') :
                         Final(queue'[i]) => queue'[i].task # m.task
                    /\ m.answered => \A t \in Subtasks(m.task)' :
                         task'[t].status = "running" =>
                         \E i \in 1 .. Len(queue') :
                           OnDhcp(queue'[i]) /\ queue'[i].task = t
  BY DEF Asked, Final, OnDhcp
<1>1. m.task \in TaskId /\ m.dhcp \in TaskId /\ Len(queue) \in Nat /\ 1 \in 1 .. Len(queue)
  BY DEF TypeOK, Message
<1>2. RunsVerification(m.task) /\ Handed(m.task)
  BY DEF Asked
<1>3. task'[m.task] = task[m.task]
  <2>1. CASE r.task # m.task
    BY <1>1, <2>1, AppliedFacts
  <2>2. CASE r.task = m.task
    <3>1. ~ Final(r) /\ Exists(r.task)
      BY <1>1, <1>2, <2>2 DEF Asked, RunsVerification, Exists
    <3>2. ~ OnDhcp(r)
      BY <1>1, <1>2, <2>2, <3>1 DEF Queued, RunsVerification
    <3>3. Report(r)
      BY <3>1, <3>2 DEF Final, OnDhcp, Report, Reply
    <3> QED BY <3>3 DEF Applied
  <2> QED BY <2>1, <2>2
<1>4. Handed(m.task)'
  BY <1>2 DEF Handed
<1>5. \A i \in 1 .. Len(queue') : Final(queue'[i]) => queue'[i].task # m.task
  BY DEF Asked, Behind
<1>6. ASSUME m.answered, NEW t \in Subtasks(m.task), task'[t].status = "running"
      PROVE  \E i \in 1 .. Len(queue') : OnDhcp(queue'[i]) /\ queue'[i].task = t
  <2>1. t \in TaskId /\ task[t].name # "none" /\ task'[t].name # "none"
    BY AppliedFacts DEF Subtasks
  <2>2. task[t].status = "running"
    BY <1>6, <2>1, AppliedFacts DEF Applied
  <2>3. \E j \in 1 .. Len(queue) : OnDhcp(queue[j]) /\ queue[j].task = t
    BY <1>6, <2>2 DEF Asked
  <2> QED BY <1>1, <1>6, <2>1, <2>3, StillAnswered
<1>7. /\ Subtasks(m.task)' = Subtasks(m.task) /\ (Exists(m.dhcp)' <=> Exists(m.dhcp))
      /\ task'[m.dhcp].parent = task[m.dhcp].parent
  BY <1>1, AppliedFacts
<1> QED BY <1>1, <1>2, <1>3, <1>4, <1>5, <1>6, <1>7 DEF Asked, RunsVerification

LEMMA ReceiveQueued ==
  ASSUME IInv, NEW r \in Reply, queue # <<>>, r = queue[1], Applied(r),
         UNCHANGED <<seq, req, orch>>, NEW d, Behind(d)
  PROVE  Queued'
<1> USE DEF IInv
<1>0. Len(queue) \in Nat /\ 1 \in 1 .. Len(queue)
  BY DEF TypeOK
<1> SUFFICES ASSUME NEW i \in 1 .. Len(queue'), NEW x, x = queue'[i]
             PROVE  /\ x.task <= seq
                    /\ ~ OnDhcp(x) => Handed(x.task)'
                    /\ ~ OnDhcp(x) /\ Exists(x.task)' =>
                         task'[x.task].name = "verify_networks"
                    /\ Report(x) => RunsVerification(x.task)'
                    /\ OnDhcp(x) => x.status # "running"
                    /\ OnDhcp(x) /\ Exists(x.task)' =>
                         /\ task'[x.task].name = "check_dhcp"
                         /\ task'[task'[x.task].parent].status = "running"
                         /\ Handed(task[x.task].parent)'
                    /\ Final(x) =>
                         /\ \A t \in Subtasks(x.task)' : task'[t].status = "running" =>
                              \E j \in 1 .. i - 1 :
                                j \in 1 .. Len(queue') /\ OnDhcp(queue'[j])
                                                        /\ queue'[j].task = t
                         /\ \A j \in i + 1 .. Len(queue') :
                              IF OnDhcp(queue'[j])
                              THEN queue'[j].task \notin Subtasks(x.task)'
                              ELSE queue'[j].task # x.task
  BY DEF Queued, Final, Report, OnDhcp
<1>1. PICK k \in 1 .. Len(queue) : k = i + d /\ x = queue[k] /\ (k = 1 => x = r)
  BY <1>0 DEF Behind
<1>2. x \in Reply /\ x.task \in TaskId
  BY <1>1, QueuedFacts
<1>3. \A u : Handed(u)' <=> Handed(u)
  BY DEF Handed
<1>4. /\ task'[x.task].name = task[x.task].name
      /\ task'[x.task].parent = task[x.task].parent
      /\ (Exists(x.task)' <=> Exists(x.task))
      /\ Subtasks(x.task)' = Subtasks(x.task)
  BY <1>2, AppliedFacts
<1>5. ASSUME Report(x) PROVE RunsVerification(x.task)'
  <2>1. RunsVerification(x.task)
    BY <1>1, <1>5 DEF Queued
  <2>2. task'[x.task] = task[x.task]
    <3>1. CASE x.task # r.task
      BY <1>2, <3>1, AppliedFacts
    <3>2. CASE x.task = r.task
      <4>1. k # 1 => ~ Final(r)
        <5>1. k # 1 => k \in 1 + 1 .. Len(queue)
          BY <1>0, <1>1
        <5>2. ~ OnDhcp(x)
          BY <1>5 DEF OnDhcp, Report
        <5> QED BY <1>0, <1>1, <3>2, <5>1, <5>2 DEF Queued
      <4>2. k = 1 => ~ Final(r)
        BY <1>1, <1>5 DEF Report, Final
      <4>3. ~ OnDhcp(r)
        BY <1>0, <2>1, <3>2 DEF Queued, RunsVerification, Exists
      <4>4. Report(r)
        BY <4>1, <4>2, <4>3 DEF Final, OnDhcp, Report, Reply
      <4> QED BY <4>4 DEF Applied
    <3> QED BY <3>1, <3>2
  <2> QED BY <2>1, <2>2 DEF RunsVerification
<1>6. ASSUME OnDhcp(x), Exists(x.task)
      PROVE  /\ task'[x.task].name = "check_dhcp"
             /\ task'[task'[x.task].parent].status = "running"
             /\ Handed(task[x.task].parent)'
  <2>1. PICK p \in TaskId : p = task[x.task].parent
    BY <1>1, <1>2, <1>6 DEF Queued, Rows
  <2>2. /\ task[x.task].name = "check_dhcp" /\ task[p].status = "running"
        /\ Handed(p) /\ task[p].name = "verify_networks"
    BY <1>1, <1>2, <1>6, <2>1 DEF Queued, Rows
  <2>3. task'[p].status = "running"
    <3>1. CASE p # r.task
      BY <2>2, <3>1, AppliedFacts
    <3>2. CASE p = r.task
      <4>1. ~ OnDhcp(r) /\ Exists(p)
        BY <1>0, <2>2, <3>2 DEF Queued, Exists
      <4>2. k # 1 /\ k \in 1 + 1 .. Len(queue)
        BY <1>0, <1>1, <1>6, <4>1
      <4>3. x.task \in Subtasks(p)
        BY <1>2, <2>1, <2>2 DEF Subtasks
      <4>4. ~ Final(r)
        BY <1>0, <1>1, <1>6, <3>2, <4>2, <4>3 DEF Queued
      <4>5. Report(r)
        BY <4>1, <4>4 DEF Final, OnDhcp, Report, Reply
      <4> QED BY <2>2, <4>5 DEF Applied
    <3> QED BY <3>1, <3>2
  <2>4. Handed(task[x.task].parent)'
    <3>1. Handed(task[x.task].parent)
      BY <1>1, <1>6 DEF Queued
    <3>2. task'[x.task].parent = task[x.task].parent
      BY <1>4
    <3> QED BY <3>1, <3>2 DEF Handed
  <2> QED BY <1>4, <2>1, <2>2, <2>3, <2>4
<1>7. ASSUME Final(x)
      PROVE  /\ \A t \in Subtasks(x.task) : task'[t].status = "running" =>
                  \E j \in 1 .. i - 1 : j \in 1 .. Len(queue') /\ OnDhcp(queue'[j])
                                         /\ queue'[j].task = t
             /\ \A j \in i + 1 .. Len(queue') :
                  IF OnDhcp(queue'[j]) THEN queue'[j].task \notin Subtasks(x.task)
                  ELSE queue'[j].task # x.task
  <2>1. ASSUME NEW t \in Subtasks(x.task), task'[t].status = "running"
        PROVE  \E j \in 1 .. i - 1 : j \in 1 .. Len(queue') /\ OnDhcp(queue'[j])
                                     /\ queue'[j].task = t
    <3>1. t \in TaskId /\ task[t].name # "none" /\ task'[t].name # "none"
      BY AppliedFacts DEF Subtasks
    <3>2. task[t].status = "running"
      BY <2>1, <3>1, AppliedFacts DEF Applied
    <3>3. \E j \in 1 .. k - 1 : OnDhcp(queue[j]) /\ queue[j].task = t
      BY <1>1, <1>7, <2>1, <3>2 DEF Queued
    <3>4. k - 1 \in Nat /\ k - 1 <= Len(queue) /\ (k - 1) - d = i - 1
      BY <1>0, <1>1 DEF Behind
    <3>5. PICK n \in Nat : n = k - 1
      BY <3>4
    <3>6. \E j \in 1 .. n : OnDhcp(queue[j]) /\ queue[j].task = t
      BY <3>3, <3>5
    <3>7. \E j \in 1 .. n - d : j \in 1 .. Len(queue') /\ OnDhcp(queue'[j])
                                 /\ queue'[j].task = t
      BY <2>1, <3>1, <3>4, <3>5, <3>6, StillAnswered
    <3> QED BY <3>4, <3>5, <3>7
  <2>2. ASSUME NEW j \in i + 1 .. Len(queue')
        PROVE  IF OnDhcp(queue'[j]) THEN queue'[j].task \notin Subtasks(x.task)
               ELSE queue'[j].task # x.task
    <3>1. j + d \in k + 1 .. Len(queue) /\ queue'[j] = queue[j + d]
      BY <1>0, <1>1 DEF Behind
    <3> QED BY <1>1, <1>7, <3>1 DEF Queued
  <2> QED BY <2>1, <2>2
<1>8. /\ x.task <= seq /\ (~ OnDhcp(x) => Handed(x.task))
      /\ (OnDhcp(x) => x.status # "running")
      /\ (~ OnDhcp(x) /\ Exists(x.task) => task[x.task].name = "verify_networks")
  BY <1>1 DEF Queued
<1> QED BY <1>3, <1>4, <1>5, <1>6, <1>7, <1>8

LEMMA ReceiveVerdict ==
  ASSUME IInv, NEW r \in Reply, queue # <<>>, r = queue[1], Applied(r), seq' = seq
  PROVE  VerdictCountsDhcp'
<1> USE DEF IInv
<1>0. Len(queue) \in Nat /\ 1 \in 1 .. Len(queue)
  BY DEF TypeOK
<1> SUFFICES ASSUME NEW p \in TaskId, task'[p].name = "verify_networks",
                    task'[p].status = "ready", NEW t \in TaskId,
                    task'[t].name # "none", task'[t].parent = p
             PROVE  task'[t].status = "ready"
  BY DEF VerdictCountsDhcp, Named, Subtasks
<1>1. task[p].name = "verify_networks" /\ t \in Subtasks(p) /\ Exists(t)
  BY AppliedFacts DEF Subtasks, Exists
<1>2. task[t].name = "check_dhcp"
  BY <1>1, ParentExists DEF Subtasks
<1>3. CASE r.task = p
  <2>1. ~ OnDhcp(r) /\ Exists(p)
    BY <1>0, <1>1, <1>3 DEF Queued, Exists
  <2>2. task'[t] = task[t]
    BY <1>1, <1>2, <1>3, AppliedFacts
  <2>3. CASE Report(r)
    BY <1>1, <2>2, <2>3 DEF Applied, VerdictCountsDhcp, Named
  <2>4. CASE ~ Report(r)
    <3>1. Final(r)
      BY <2>1, <2>4 DEF Final, OnDhcp, Report, Reply
    <3>2. task[t].status # "error"
      BY <1>1, <1>3, <2>1, <2>4, <3>1 DEF Applied
    <3>3. task[t].status # "running"
      BY <1>0, <1>1, <1>3, <3>1 DEF Queued
    <3>4. task[t].status \in {"running", "ready", "error"}
      BY <1>1 DEF Rows, Exists, TypeOK, TaskRow, TaskStatuses
    <3> QED BY <2>2, <3>2, <3>3, <3>4
  <2> QED BY <2>3, <2>4
<1>4. CASE r.task # p
  <2>1. task'[p] = task[p]
    BY <1>4, AppliedFacts
  <2>2. task[t].status = "ready"
    BY <1>1, <2>1 DEF VerdictCountsDhcp, Named
  <2>3. task'[t] = task[t]
    <3>1. CASE r.task # t
      BY <3>1, AppliedFacts
    <3>2. CASE r.task = t
      <4>1. ~ OnDhcp(r)
        BY <1>0, <1>1, <2>1, <3>2 DEF Queued, Subtasks
      <4> QED BY <1>0, <1>1, <1>2, <3>2, <4>1 DEF Queued
    <3> QED BY <3>1, <3>2
  <2> QED BY <2>2, <2>3
<1> QED BY <1>3, <1>4

\* What the requests know stays true: a reply ends no row that one works on.
LEMMA ReceiveServing ==
  ASSUME IInv, NEW r \in Reply, queue # <<>>, r = queue[1], Applied(r),
         UNCHANGED <<seq, req>>
  PROVE  Rows' /\ Serving' /\ Apart'
<1> USE DEF IInv
<1>0. Len(queue) \in Nat /\ 1 \in 1 .. Len(queue)
  BY DEF TypeOK
<1>1. Rows'
  <2> SUFFICES ASSUME NEW t \in TaskId
               PROVE  /\ task'[t].name # "none" => task'[t].status # "none"
                      /\ task[t].name \in {"verify_networks", "deploy"} =>
                           task[t].parent = NoTask
                      /\ task[t].name = "check_dhcp" =>
                           /\ task[t].parent \in TaskId
                           /\ task'[task[t].parent].name = "verify_networks"
                      /\ task[t].name = "check_networks" =>
                           \/ task[t].parent = NoTask
                           \/ task'[task[t].parent].name = "deploy"
    BY AppliedFacts DEF Rows
  <2>1. task'[t].name # "none" => task'[t].status # "none"
    BY AppliedFacts DEF Rows, Applied
  <2>2. task[t].name = "check_networks" =>
          task[t].parent = NoTask \/ task'[task[t].parent].name = "deploy"
    <3> SUFFICES ASSUME task[t].name = "check_networks", task[t].parent # NoTask
                 PROVE  task'[task[t].parent].name = "deploy"
      OBVIOUS
    <3>1. task[t].parent \in TaskId
      BY DEF TypeOK, TaskRow
    <3> QED BY <3>1, AppliedFacts DEF Rows
  <2> QED BY <2>1, <2>2, AppliedFacts DEF Rows
<1>2. Serving'
  <2> SUFFICES ASSUME NEW w \in Worker PROVE ServingAt(w)'
    BY DEF Serving
  <2>1. ServingAt(w)
    BY DEF Serving
  <2>2. PICK q \in Request : q = req[w] /\ q = req'[w]
    BY DEF TypeOK
  <2>3. \A u \in TaskId : RunsVerification(u) /\ ~ Handed(u) => RunsVerification(u)'
    <3> SUFFICES ASSUME NEW u \in TaskId, RunsVerification(u), ~ Handed(u), u = r.task
                 PROVE  task' = task
      BY AppliedFacts DEF RunsVerification
    <3> QED BY <1>0 DEF Queued, RunsVerification, Applied, Exists
  <2>4. q.pc = "verify_cast" => RunsVerification(q.task) /\ ~ Handed(q.task)
    BY <2>1, <2>2 DEF ServingAt, Handed
  <2>5. q.pc = "verify_check" /\ Exists(q.task) => task'[q.task] = task[q.task]
    <3> SUFFICES ASSUME q.pc = "verify_check", Exists(q.task), q.task = r.task
                 PROVE  task' = task
      BY AppliedFacts DEF Exists
    <3>1. task[r.task].name = "check_networks" /\ Exists(r.task)
      BY <2>1, <2>2 DEF ServingAt
    <3> QED BY <1>0, <3>1 DEF Queued
  <2>6. \A u \in TaskId : /\ task'[u].name = task[u].name
                          /\ task'[u].parent = task[u].parent
                          /\ Subtasks(u)' = Subtasks(u)
    BY AppliedFacts
  <2>7. \A u : Exists(u)' <=> Exists(u)
    BY AppliedFacts
  <2>8. \A u : Exists(u) => u \in TaskId
    BY DEF Exists
  <2>9. q.pc = "verify_cast" => /\ RunsVerification(q.task)'
                                /\ Subtasks(q.task)' \subseteq {q.sub}
    BY <2>1, <2>2, <2>3, <2>4, <2>6 DEF ServingAt, RunsVerification
  <2> HIDE DEF IInv
  <2> QED BY <2>1, <2>2, <2>5, <2>6, <2>7, <2>8, <2>9 DEF ServingAt
<1>3. Apart'
  BY DEF Apart
<1> QED BY <1>1, <1>2, <1>3

LEMMA ReceiveKeeps ==
  ASSUME IInv, Consume \/ ConsumeUnacknowledged
  PROVE  IInv' /\ Polled
<1> USE DEF IInv
<1>1. /\ queue # <<>>
      /\ queue' = queue \/ queue' = Tail(queue)
      /\ task' = Received(Head(queue))
      /\ UNCHANGED <<seq, req, orch>> /\ deploying' = deploying
      /\ budget' \in [requests : 0 .. MaxRequests, faults : 0 .. MaxFaults]
  BY BudgetFacts DEF Consume, ConsumeUnacknowledged
<1>2. PICK r \in Reply : r = Head(queue) /\ r = queue[1]
  BY <1>1 DEF TypeOK
<1>3. Applied(r)
  BY <1>1, <1>2, ReceivedFacts
<1>4. PICK d : Behind(d) /\ queue' \in Seq(Reply)
  BY <1>1, BehindFacts
<1>5. TypeOK'
  BY <1>1, <1>2, <1>3, <1>4, AppliedFacts DEF TypeOK, TypedRows
<1>6. Rows' /\ Serving' /\ Apart' /\ VerdictCountsDhcp'
  BY <1>1, <1>2, <1>3, ReceiveServing, ReceiveVerdict
<1>7. Asked' /\ Queued'
  BY <1>1, <1>2, <1>3, <1>4, ReceiveAsked, ReceiveQueued
<1>8. Polled
  <2>1. ASSUME NEW t \in TaskId
        PROVE  \/ task'[t].status = task[t].status
               \/ task[t].status # "none" /\ task'[t].status \in {"ready", "error"}
    BY <1>3 DEF Applied, Exists, Rows
  <2>2. \A t \in TaskId : task'[t].name = task[t].name
    BY <1>1, <1>3, AppliedFacts
  <2>3. seq \in Nat /\ seq' = seq
    BY <1>1, BoundsAssumption DEF TypeOK
  <2> QED BY <2>1, <2>2, <2>3 DEF Polled, RunsVerification
<1> QED BY <1>5, <1>6, <1>7, <1>8

------------------------------------------------------------------------------
(***************************************************************************)
(* The invariant holds, and what follows from it.                          *)
(***************************************************************************)

LEMMA InitIInv ==
  ASSUME NEW n \in 0 .. MaxRequests, InitOf(n)
  PROVE  IInv
<1> USE DEF InitOf
<1>1. NoRow \in TaskRow /\ NoRow.name = "none" /\ Idle \in Request
  BY IdleFacts DEF NoRow, TaskRow
<1>2. /\ Idle.pc = "idle" /\ Idle.task = NoTask /\ Idle.sub = NoTask
      /\ Idle.pc \notin Working
  BY DEF Idle, Working, Verifying, Checking, Deploying
<1>3. TypeOK
  <2>1. task \in [TaskId -> TaskRow] /\ req \in [Worker -> Request]
    BY <1>1
  <2>2. budget \in [requests : 0 .. MaxRequests, faults : 0 .. MaxFaults]
    BY BoundsAssumption
  <2>3. seq \in 0 .. MaxTask /\ deploying \in BOOLEAN /\ orch \subseteq Message
        /\ queue \in Seq(Reply)
    BY BoundsAssumption
  <2> QED BY <2>1, <2>2, <2>3 DEF TypeOK
<1>4. Rows /\ VerdictCountsDhcp
  BY <1>1 DEF Rows, VerdictCountsDhcp, Named
<1>5. Serving /\ Apart
  BY <1>2 DEF Serving, ServingAt, Apart, Working, Verifying, Checking, Deploying, NoTask
<1>6. Asked /\ Queued
  BY DEF Asked, Queued
<1> QED BY <1>3, <1>4, <1>5, <1>6 DEF IInv

LEMMA StutterKeeps ==
  ASSUME IInv, UNCHANGED vars
  PROVE  IInv' /\ Polled
<1> USE DEF IInv, vars
<1>1. Rows' /\ Serving' /\ Apart' /\ VerdictCountsDhcp'
  BY SameRows
<1>2. Asked' /\ Queued'
  BY DEF Asked, Queued, Final, Report, OnDhcp, RunsVerification, Subtasks, Exists, Handed
<1>3. TypeOK'
  BY DEF TypeOK
<1> QED BY <1>1, <1>2, <1>3, SamePolled

LEMMA NextKeeps ==
  ASSUME IInv, [Next]_vars
  PROVE  IInv' /\ Polled
<1>1. ASSUME NEW w \in Worker, NewRequest(w) PROVE IInv' /\ Polled
  BY <1>1, LockKeeps, DeployCreateKeeps, RemoveKeeps DEF NewRequest
<1>2. ASSUME NEW w \in Worker, VerifyCheck(w) PROVE IInv' /\ Polled
  BY <1>2, VerifyCheckFails, VerifyCheckPasses
<1>3. ASSUME NEW w \in Worker, Continue(w) PROVE IInv' /\ Polled
  BY <1>2, <1>3, LockKeeps, VerifyCreateKeeps, VerifyCastKeeps, CheckCreateKeeps,
     CheckRunKeeps, DeployCheckKeeps, DeployStartKeeps DEF Continue
<1>4. ASSUME NEW w \in Worker, CastRefused(w) \/ Crash(w) PROVE IInv' /\ Polled
  BY <1>4, CastRefusedKeeps, LockKeeps
<1>5. ASSUME NEW m \in orch, AnswerDhcp(m) \/ Progress(m) \/ AnswerVerify(m)
      PROVE  IInv' /\ Polled
  BY <1>5, AnswerDhcpKeeps, ProgressKeeps, AnswerVerifyKeeps
<1> QED BY <1>1, <1>3, <1>4, <1>5, DeployEndsKeeps, ReceiveKeeps, StutterKeeps DEF Next

\* The invariant as a whole holds in every state of every behaviour.
THEOREM AlwaysIInv == Spec => []IInv
<1>1. Init => IInv
  BY InitIInv, BoundsAssumption DEF Init
<1>2. IInv /\ [Next]_vars => IInv'
  BY NextKeeps
<1> QED BY <1>1, <1>2, PTL DEF Spec

\* Every variable keeps its type.
THEOREM TypeCorrect == Spec => []TypeOK
<1>1. IInv => TypeOK
  BY DEF IInv
<1> QED BY <1>1, AlwaysIInv, PTL

\* What the orchestrator was asked and has not answered shows as running.
THEOREM AskedAlwaysRuns == Spec => []AskedIsRunning
<1>1. IInv => AskedIsRunning
  BY DEF IInv, Asked, RunsVerification, AskedIsRunning
<1> QED BY <1>1, AlwaysIInv, PTL

\* A verification that shows as passed has no subtask that did not pass.
THEOREM VerdictAlwaysCounts == Spec => []VerdictCountsDhcp
<1>1. IInv => VerdictCountsDhcp
  BY DEF IInv
<1> QED BY <1>1, AlwaysIInv, PTL

\* No step removes a verification that runs.
THEOREM RunningAlwaysStays == Spec => RunningVerificationStays
<1>1. IInv /\ [Next]_vars =>
        [\A t \in Running({"verify_networks"}) : task'[t].name = "verify_networks"]_task
  BY NextKeeps DEF Polled, Running, Named, RunsVerification
<1> QED BY <1>1, AlwaysIInv, PTL DEF Spec, RunningVerificationStays

\* The tasks of checks, verifications and deployments keep what the tasks table
\* promises to those who poll it.
THEOREM RowsImplementTable == Spec => ImplementsTaskTable
<1>1. Init => Table!Init
  BY DEF Init, InitOf, Table!Init, NoRow, TaskId
<1>2. IInv /\ [Next]_vars => [Table!Update \/ Table!Create]_(Table!tableVars)
  <2> SUFFICES ASSUME IInv, [Next]_vars PROVE Table!Update \/ Table!Create
    OBVIOUS
  <2>1. Polled
    BY NextKeeps
  <2>2. \A t \in 1 .. MaxTask : [u \in TaskId |-> task[u].status][t] = task[t].status
                       /\ [u \in TaskId |-> task[u].status]'[t] = task'[t].status
    BY DEF TaskId
  <2>3. ASSUME NEW t \in TaskId, ~ (seq' = seq + 1 /\ t = seq')
        PROVE  Table!Evolves(t)
    BY <2>1, <2>2, <2>3 DEF Polled, Table!Evolves, Table!Ended, TaskId
  <2>4. CASE seq' = seq
    <3>1. seq \in Nat
      BY BoundsAssumption DEF IInv, TypeOK
    <3> QED BY <2>3, <2>4, <3>1 DEF Table!Update, TaskId
  <2>5. CASE seq' = seq + 1
    <3>1. task'[seq'].status \in {"running", "error"} /\ seq' \in TaskId
      BY <2>1, <2>5 DEF Polled
    <3> QED BY <2>2, <2>3, <2>5, <3>1 DEF Table!Create, TaskId
  <2> QED BY <2>1, <2>4, <2>5 DEF Polled
<1> QED BY <1>1, <1>2, AlwaysIInv, PTL DEF Spec, ImplementsTaskTable, Table!Spec

------------------------------------------------------------------------------
(***************************************************************************)
(* Requests served one at a time.                                          *)
(***************************************************************************)

\* One request is served; it has locked the only verification there is, and
\* none is left when it checks the networks.
Lone ==
  alone =>
    /\ \A v, w \in Worker : req[v].pc # "idle" /\ req[w].pc # "idle" => v = w
    /\ \A t, u \in Named({"verify_networks"}) : t = u
    /\ \A w \in Worker :
         /\ req[w].pc = "verify_create" => Named({"verify_networks"}) \subseteq req[w].rows
         /\ req[w].pc = "verify_check" => Named({"verify_networks"}) = {}

\* A request comes to its locks and its check in two ways only.
LEMMA RequestSteps ==
  ASSUME TypeOK, [Next]_vars, NEW w \in Worker
  PROVE  \/ req'[w] = req[w]
         \/ req'[w].pc \notin {"verify_create", "verify_check"}
         \/ VerifyLock(w) \/ VerifyCreate(w)
<1> SUFFICES ASSUME req'[w] # req[w], req'[w].pc \in {"verify_create", "verify_check"},
                    ~ VerifyLock(w), ~ VerifyCreate(w)
             PROVE  FALSE
  OBVIOUS
<1>1. req \in [Worker -> Request] /\ Idle \in Request /\ Idle.pc = "idle"
  BY IdleFacts DEF TypeOK, Idle
<1>2. ASSUME NEW v \in Worker, Return(v) PROVE FALSE
  BY <1>1, <1>2 DEF Return
<1>3. ASSUME NEW v \in Worker, NewRequest(v) PROVE FALSE
  <2>1. CASE VerifyLock(v)
    BY <1>1, <2>1 DEF VerifyLock
  <2>2. CASE CheckLock(v)
    BY <1>1, <2>2 DEF CheckLock, Request
  <2>3. CASE DeployCreate(v)
    BY <1>1, <2>3 DEF DeployCreate, Request
  <2>4. CASE \E t \in TaskId : Remove(v, t)
    BY <2>4 DEF Remove
  <2> QED BY <1>3, <2>1, <2>2, <2>3, <2>4 DEF NewRequest
<1>4. ASSUME NEW v \in Worker, Continue(v) \/ CastRefused(v) \/ Crash(v) PROVE FALSE
  <2>1. CASE VerifyCreate(v)
    BY <1>1, <2>1 DEF VerifyCreate, Return
  <2>2. CASE VerifyCheck(v)
    BY <1>1, <1>2, <2>2 DEF VerifyCheck, Request
  <2>3. CASE CheckCreate(v)
    BY <1>1, <2>3 DEF CheckCreate, Request
  <2>4. CASE CheckRun(v)
    BY <1>1, <1>2, <2>4 DEF CheckRun, Goto, Request
  <2>5. CASE DeployCheck(v)
    BY <1>1, <1>2, <2>5 DEF DeployCheck, Request
  <2>6. CASE VerifyRefuse(v) \/ VerifyCast(v) \/ CheckSave(v) \/ DeployStart(v)
             \/ RequestFails(v) \/ CastRefused(v) \/ Crash(v)
    BY <1>2, <2>6 DEF VerifyRefuse, VerifyCast, CheckSave, DeployStart, RequestFails,
                      CastRefused, Crash
  <2> QED BY <1>4, <2>1, <2>2, <2>3, <2>4, <2>5, <2>6 DEF Continue
<1>5. ASSUME DeployEnds \/ Consume \/ ConsumeUnacknowledged PROVE FALSE
  BY <1>5 DEF DeployEnds, Consume, ConsumeUnacknowledged
<1>6. ASSUME NEW m \in orch, AnswerDhcp(m) \/ Progress(m) \/ AnswerVerify(m) PROVE FALSE
  BY <1>6 DEF AnswerDhcp, Progress, AnswerVerify
<1>7. CASE UNCHANGED vars
  BY <1>7 DEF vars
<1>8. CASE \E v \in Worker : NewRequest(v) \/ Continue(v) \/ CastRefused(v) \/ Crash(v)
  BY <1>3, <1>4, <1>8
<1>9. CASE \E m \in orch : AnswerDhcp(m) \/ Progress(m) \/ AnswerVerify(m)
  BY <1>6, <1>9
<1> QED BY <1>5, <1>7, <1>8, <1>9 DEF Next

\* The only verification there is, once locked, goes when the new row is made.
LEMMA CreateAlone ==
  ASSUME IInv, NEW w \in Worker, VerifyCreate(w),
         \A t, u \in Named({"verify_networks"}) : t = u,
         Named({"verify_networks"}) \subseteq req[w].rows
  PROVE  Named({"verify_networks"})' = {}
<1> DEFINE L == Locked(w, "verify_networks")
<1>1. L = Named({"verify_networks"}) /\ L \subseteq TaskId
  BY DEF Locked, Named
<1>2. L \subseteq Leftovers(w) /\ Leftovers(w) \subseteq TaskId
  <2>1. Locked(w, "check_networks") \subseteq TaskId
    BY DEF Locked, Named
  <2>2. L # {} => FirstOf(L) = L
    <3> HIDE DEF L
    <3> QED BY <1>1, FirstOfFacts
  <2>3. FirstOf(L) \subseteq Leftovers(w) /\ FirstOf(L) \subseteq TaskId
    <3>1. FirstOf(L) \subseteq TaskId
      <4> HIDE DEF L
      <4> QED BY <1>1, FirstOfFacts
    <3> QED BY <3>1 DEF Leftovers
  <2>4. FirstOf(Locked(w, "check_networks")) \subseteq TaskId
    BY <2>1, FirstOfFacts
  <2> QED BY <2>2, <2>3, <2>4 DEF Leftovers
<1>3. Without(Leftovers(w)) \in [TaskId -> TaskRow]
  BY <1>2, WithoutFacts DEF IInv
<1>4. seq' \in TaskId
  BY BoundsAssumption DEF VerifyCreate, Room, IInv, TypeOK, TaskId
<1>5. ASSUME NEW t \in TaskId PROVE task'[t].name # "verify_networks"
  <2>1. CASE t = seq'
    <3>1. task'[t] \in {Row("check_networks", "error", NoTask),
                        Row("check_networks", "running", NoTask)}
      BY <1>3, <1>4, <2>1 DEF VerifyCreate
    <3> QED BY <3>1 DEF Row
  <2>2. CASE t # seq'
    <3>1. task'[t] = Without(Leftovers(w))[t]
      BY <1>3, <1>4, <2>2 DEF VerifyCreate
    <3>2. task'[t] = NoRow \/ (task'[t] = task[t] /\ t \notin Leftovers(w))
      BY <1>2, <3>1, WithoutFacts DEF IInv
    <3>3. t \notin Leftovers(w) => task[t].name # "verify_networks"
      BY <1>1, <1>2 DEF Named
    <3> QED BY <3>2, <3>3 DEF NoRow
  <2> QED BY <2>1, <2>2
<1> QED BY <1>5 DEF Named

LEMMA LoneKeeps ==
  ASSUME IInv, Lone, [MCNext]_mcVars
  PROVE  Lone'
<1>1. [Next]_vars /\ alone' = alone
  BY DEF MCNext, mcVars
<1>2. Polled
  BY <1>1, NextKeeps
<1> SUFFICES ASSUME alone
             PROVE  /\ \A v, w \in Worker :
                         req'[v].pc # "idle" /\ req'[w].pc # "idle" => v = w
                    /\ \A t, u \in TaskId : task'[t].name = "verify_networks"
                                            /\ task'[u].name = "verify_networks" => t = u
                    /\ \A w \in Worker :
                         /\ req'[w].pc = "verify_create" =>
                              Named({"verify_networks"})' \subseteq req'[w].rows
                         /\ req'[w].pc = "verify_check" =>
                              Named({"verify_networks"})' = {}
  BY <1>1 DEF Lone, Named
<1>3. ASSUME NEW v \in Worker, NEW w \in Worker, req'[v].pc # "idle", req'[w].pc # "idle"
      PROVE  v = w
  <2>1. CASE MCNext
    <3>1. Idle.pc = "idle"
      BY DEF Idle
    <3> QED BY <1>3, <2>1, <3>1 DEF MCNext
  <2>2. CASE UNCHANGED mcVars
    BY <1>3, <2>2 DEF mcVars, vars, Lone
  <2> QED BY <2>1, <2>2
<1>4. ASSUME NEW t \in TaskId, task'[t].name = "verify_networks"
      PROVE  \/ task[t].name = "verify_networks"
             \/ \E w \in Worker : /\ req[w].pc = "verify_check" /\ req[w].task = t
                                  /\ req'[w].pc = "verify_cast"
  BY <1>2, <1>4 DEF Polled
<1>5. ASSUME NEW t \in TaskId, NEW u \in TaskId, task'[t].name = "verify_networks",
             task'[u].name = "verify_networks"
      PROVE  t = u
  <2>1. ASSUME NEW w \in Worker, req[w].pc = "verify_check"
        PROVE  \A x \in TaskId : task[x].name # "verify_networks"
    BY <2>1 DEF Lone, Named
  <2> QED BY <1>4, <1>5, <2>1 DEF Lone, Named
<1>6. ASSUME NEW w \in Worker, req'[w].pc \in {"verify_create", "verify_check"}
      PROVE  /\ req'[w].pc = "verify_create" =>
                  Named({"verify_networks"})' \subseteq req'[w].rows
             /\ req'[w].pc = "verify_check" => Named({"verify_networks"})' = {}
  <2>1. CASE req'[w] = req[w]
    <3>1. ASSUME NEW v \in Worker, req[v].pc = "verify_check", req'[v].pc = "verify_cast"
          PROVE  FALSE
      BY <1>6, <2>1, <3>1 DEF Lone
    <3>2. Named({"verify_networks"})' \subseteq Named({"verify_networks"})
      BY <1>4, <3>1 DEF Named
    <3> QED BY <2>1, <3>2 DEF Lone
  <2>2. CASE VerifyLock(w)
    <3>1. req'[w].pc = "verify_create" /\ req'[w].rows = Named(NetworkNames) /\ task' = task
      BY <2>2, IdleFacts DEF VerifyLock, IInv, TypeOK, Request
    <3>2. Named({"verify_networks"})' \subseteq Named(NetworkNames)
      BY <3>1 DEF Named, NetworkNames
    <3> QED BY <3>1, <3>2
  <2>3. CASE VerifyCreate(w)
    <3>1. req[w].pc = "verify_create"
      BY <2>3 DEF VerifyCreate
    <3>2. Named({"verify_networks"})' = {}
      BY <2>3, <3>1, CreateAlone DEF Lone
    <3> QED BY <3>2
  <2> QED BY <1>1, <1>6, <2>1, <2>2, <2>3, RequestSteps DEF IInv
<1> QED BY <1>3, <1>5, <1>6

\* Requests served one at a time never have two verifications run, whatever
\* dies, is refused or is delivered again.
THEOREM OneVerificationAlways == MCSpec => []OneVerificationInTurn
<1>1. MCInit => IInv /\ Lone
  <2>1. MCInit => IInv
    <3>1. MaxRequests - 1 \in 0 .. MaxRequests /\ MaxRequests \in 0 .. MaxRequests
      BY BoundsAssumption, RequestAllowed
    <3> QED BY <3>1, InitIInv DEF MCInit
  <2>2. MCInit => Lone
    <3>1. Idle.pc = "idle" /\ NoRow.name = "none"
      BY DEF Idle, NoRow
    <3> QED BY <3>1 DEF MCInit, InitOf, Lone, Named
  <2> QED BY <2>1, <2>2
<1>2. IInv /\ Lone /\ [MCNext]_mcVars => (IInv /\ Lone)'
  <2>1. [MCNext]_mcVars => [Next]_vars
    BY DEF MCNext, mcVars
  <2> QED BY <2>1, NextKeeps, LoneKeeps
<1>3. IInv /\ Lone => OneVerificationInTurn
  BY DEF Lone, OneVerificationInTurn, OneVerification, Running, Named
<1> QED BY <1>1, <1>2, <1>3, PTL DEF MCSpec

==============================================================================
