-------------------------- MODULE GlobalTasks_proofs --------------------------
(***************************************************************************)
(* GlobalTasks: the variables keep their types, no task and no node waits  *)
(* for something that nobody has in hand, and a node shown as provisioned  *)
(* is installed or being installed, for every set of machines and workers. *)
(* Requests served one at a time never make two snapshots at once.         *)
(***************************************************************************)
EXTENDS MCGlobalTasks, FiniteSetTheorems, TLAPS

------------------------------------------------------------------------------
(***************************************************************************)
(* The invariant.                                                          *)
(***************************************************************************)

\* Worker w has made a row and not yet given it to the orchestrator.
Active(w) == req[w].pc \in {"execute", "start", "cast"}

\* What a request knows of the row it works on.
Requests ==
  \A w \in Worker :
    /\ ~ Active(w) => req[w].task = NoTaskId
    /\ req[w].pc \in {"create", "execute"} => req[w].kind \in Single
    /\ req[w].pc \in {"start", "cast"} => req[w].kind = "provision"
    /\ Active(w) => req[w].task \in 1 .. seq

\* The row of a request runs, and no other request, message or reply is about it.
Own ==
  \A w \in Worker : Active(w) =>
    /\ task[req[w].task].name = req[w].kind
    /\ task[req[w].task].status = "running"
    /\ \A v \in Worker \ {w} : req[v].task # req[w].task
    /\ \A m \in orch : m.task # req[w].task
    /\ \A i \in DOMAIN queue : queue[i].task # req[w].task

\* A message is about the nodes of its row.
Messages ==
  \A m \in orch : /\ m.task <= seq
                  /\ m.nodes = task[m.task].nodes
                  /\ m.kind = "dump" => m.nodes = {}

\* A reply names nodes of its row, and all of them when it reports success.
Replies ==
  \A i \in DOMAIN queue :
    /\ queue[i].task <= seq
    /\ queue[i].installed \cup queue[i].failed \subseteq task[queue[i].task].nodes
    /\ queue[i].status = "ready" =>
         queue[i].installed \cup queue[i].failed = task[queue[i].task].nodes

TypeInv == TypeOK /\ Requests /\ Own /\ Messages /\ Replies

------------------------------------------------------------------------------
(***************************************************************************)
(* What the operators do.                                                  *)
(***************************************************************************)

Requested == [pc : {"off", "idle", "create", "execute", "start", "cast"},
              kind : Kinds, task : 0 .. MaxTask]

\* A request that is done leaves the others as they are.
LEMMA EndsFacts ==
  ASSUME TypeOK, NEW w \in Worker, Ends(w)
  PROVE  /\ req' \in [Worker -> Requested]
         /\ req'[w] = [pc |-> "idle", kind |-> "dump", task |-> 0]
         /\ \A v \in Worker \ {w} : req'[v] = req[v]
  <1>1. Idle = [pc |-> "idle", kind |-> "dump", task |-> 0]
    BY DEF Idle, NoTaskId
  <1>2. Idle \in Requested
    BY <1>1, BoundsAssumption DEF Requested, Kinds, Single
  <1> QED BY <1>1, <1>2 DEF TypeOK, Ends, Requested

\* A request that goes on keeps its task.
LEMMA GotoFacts ==
  ASSUME TypeOK, NEW w \in Worker, Goto(w, "cast")
  PROVE  /\ req' \in [Worker -> Requested]
         /\ req'[w] = [pc |-> "cast", kind |-> req[w].kind, task |-> req[w].task]
         /\ \A v \in Worker \ {w} : req'[v] = req[v]
  <1>1. req[w] \in Requested
    BY DEF TypeOK, Requested
  <1>2. [req[w] EXCEPT !.pc = "cast"] =
          [pc |-> "cast", kind |-> req[w].kind, task |-> req[w].task]
    BY <1>1 DEF Requested
  <1>3. [req[w] EXCEPT !.pc = "cast"] \in Requested
    BY <1>1, <1>2 DEF Requested
  <1>4. req' = [req EXCEPT ![w] = [req[w] EXCEPT !.pc = "cast"]]
    BY DEF Goto
  <1> QED BY <1>2, <1>3, <1>4 DEF TypeOK, Requested

\* A new row takes the next identifier.
LEMMA CreatesFacts ==
  ASSUME TypeOK, NEW w \in Worker, NEW k \in Kinds, NEW ns \in SUBSET Node,
         NEW pc \in {"execute", "start"}, Creates(w, k, ns, pc)
  PROVE  /\ seq + 1 \in TaskId /\ seq' = seq + 1 /\ seq \in Nat
         /\ task'[seq + 1] = [name |-> k, nodes |-> ns, status |-> "running"]
         /\ task'[seq + 1] \in Row
         /\ \A t \in TaskId \ {seq + 1} : task'[t] = task[t]
         /\ task' \in [TaskId -> Row \cup {NoTask}]
         /\ req' \in [Worker -> Requested]
         /\ req'[w] = [pc |-> pc, kind |-> k, task |-> seq + 1]
         /\ \A v \in Worker \ {w} : req'[v] = req[v]
  <1>1. seq + 1 \in TaskId /\ seq \in Nat
    BY BoundsAssumption DEF TypeOK, Creates, TaskId
  <1> DEFINE r == [name |-> k, nodes |-> ns, status |-> "running"]
             q == [pc |-> pc, kind |-> k, task |-> seq + 1]
  <1>2. r \in Row
    BY DEF Row
  <1>3. q \in Requested
    BY <1>1 DEF Requested, TaskId
  <1>4. /\ task' = [task EXCEPT ![seq + 1] = r] /\ req' = [req EXCEPT ![w] = q]
        /\ seq' = seq + 1
    BY DEF Creates
  <1> HIDE DEF r, q
  <1>5. /\ task'[seq + 1] = r /\ task' \in [TaskId -> Row \cup {NoTask}]
        /\ \A t \in TaskId \ {seq + 1} : task'[t] = task[t]
    BY <1>1, <1>2, <1>4 DEF TypeOK
  <1>6. /\ req'[w] = q /\ req' \in [Worker -> Requested]
        /\ \A v \in Worker \ {w} : req'[v] = req[v]
    BY <1>3, <1>4 DEF TypeOK, Requested
  <1> QED BY <1>1, <1>2, <1>4, <1>5, <1>6 DEF r, q

\* What is in the queue is a reply.
LEMMA QueueType ==
  ASSUME TypeOK, NEW i \in DOMAIN queue
  PROVE  queue[i] \in Reply /\ queue[i].task \in TaskId
  <1>1. queue[i] \in Reply
    BY DEF TypeOK
  <1> QED BY <1>1 DEF Reply

\* A message that is begun is about the same task and nodes.
LEMMA BegunFacts ==
  ASSUME NEW m \in Message
  PROVE  /\ [m EXCEPT !.begun = TRUE] \in Message
         /\ [m EXCEPT !.begun = TRUE].task = m.task
         /\ [m EXCEPT !.begun = TRUE].kind = m.kind
         /\ [m EXCEPT !.begun = TRUE].nodes = m.nodes
  <1> DEFINE K == {"dump", "provision"}  S == SUBSET Node  T == TaskId
  <1>1. Message = [task : T, kind : K, nodes : S, begun : BOOLEAN]
    BY DEF Message
  <1> HIDE DEF K, S, T
  <1> QED BY <1>1

\* The queue has one reply more, r, at its end.
Appended(r) ==
  /\ queue' \in Seq(Reply)
  /\ Len(queue) \in Nat /\ DOMAIN queue = 1 .. Len(queue)
  /\ DOMAIN queue' = 1 .. (Len(queue) + 1)
  /\ \A i \in DOMAIN queue : queue'[i] = queue[i]
  /\ queue'[Len(queue) + 1] = r

\* A reply goes to the end of the queue.
LEMMA SendFacts ==
  ASSUME TypeOK, NEW m \in Message, NEW st \in {"none", "ready", "error"},
         NEW ins \in SUBSET Node, NEW fl \in SUBSET Node, Send(m, st, ins, fl)
  PROVE  Appended([task |-> m.task, status |-> st, installed |-> ins, failed |-> fl])
  <1> DEFINE r == [task |-> m.task, status |-> st, installed |-> ins, failed |-> fl]
  <1>1. r \in Reply
    BY DEF Reply, Message
  <1>2. queue' = Append(queue, r) /\ queue \in Seq(Reply)
    BY DEF Send, TypeOK
  <1> HIDE DEF r
  <1>3. Appended(r)
    BY <1>1, <1>2 DEF Appended
  <1> QED BY <1>3 DEF r

\* The first reply leaves the queue, the others move up.
LEMMA TailFacts ==
  ASSUME TypeOK, queue # <<>>, queue' = Tail(queue)
  PROVE  /\ queue' \in Seq(Reply)
         /\ Len(queue) \in Nat \ {0} /\ DOMAIN queue = 1 .. Len(queue)
         /\ DOMAIN queue' = 1 .. (Len(queue) - 1)
         /\ \A i \in DOMAIN queue' : queue'[i] = queue[i + 1]
         /\ \A i \in DOMAIN queue : i > 1 => queue'[i - 1] = queue[i]
  BY DEF TypeOK

\* The first reply.
LEMMA HeadFacts ==
  ASSUME TypeOK, queue # <<>>
  PROVE  Head(queue) \in Reply /\ Head(queue) = queue[1] /\ 1 \in DOMAIN queue
  BY DEF TypeOK

\* A row that gets a status keeps the rest.
LEMMA StatusFacts ==
  ASSUME TypeOK, NEW t \in TaskId, task[t] \in Row,
         NEW st \in {"running", "ready", "error"},
         task' = [task EXCEPT ![t].status = st]
  PROVE  /\ task' \in [TaskId -> Row \cup {NoTask}]
         /\ task'[t] \in Row /\ task'[t].status = st
         /\ \A u \in TaskId : task'[u].name = task[u].name
         /\ \A u \in TaskId : task'[u].nodes = task[u].nodes
         /\ \A u \in TaskId \ {t} : task'[u] = task[u]
  <1> DEFINE r == [task[t] EXCEPT !.status = st]
  <1>1. r \in Row /\ r.status = st /\ r.name = task[t].name /\ r.nodes = task[t].nodes
    <2> DEFINE K == Kinds  S == SUBSET Node  Q == {"running", "ready", "error"}
    <2>1. Row = [name : K, nodes : S, status : Q] /\ st \in Q
      BY DEF Row
    <2> HIDE DEF K, S, Q
    <2> QED BY <2>1
  <1>2. task' = [task EXCEPT ![t] = r]
    OBVIOUS
  <1> HIDE DEF r
  <1> QED BY <1>1, <1>2 DEF TypeOK

\* A row that does not exist is none of the others.
LEMMA RowOrNone ==
  ASSUME TypeOK, NEW t \in TaskId
  PROVE  /\ task[t] \in Row \/ task[t] = NoTask
         /\ task[t].nodes \subseteq Node
         /\ task[t].name # "none" => task[t] \in Row
         /\ task[t] = NoTask => task[t].name = "none" /\ task[t].nodes = {}
         /\ task[t] \in Row => task[t].name \in Kinds /\ task[t].name # "none"
         /\ task[t].status # "none" => task[t] \in Row
  <1>1. task[t] \in Row \/ task[t] = NoTask
    BY DEF TypeOK
  <1>2. /\ NoTask.name = "none" /\ NoTask.nodes = {} /\ NoTask.status = "none"
        /\ \A r \in Row : r.name \in Kinds /\ r.name # "none" /\ r.nodes \subseteq Node
    BY DEF NoTask, Row, Kinds, Single
  <1> QED BY <1>1, <1>2

\* The nodes after a reply.
LEMMA ReportedFacts ==
  ASSUME TypeOK, NEW m \in Reply
  PROVE  /\ Reported(m) \in [Node -> {"discover", "provisioning", "provisioned",
                                      "error"}]
         /\ \A n \in Node : Reported(m)[n] = "provisioning" => node[n] = "provisioning"
         /\ \A n \in Node : Reported(m)[n] = "provisioned" =>
              n \in m.installed \/ node[n] = "provisioned"
  BY DEF TypeOK, Reported

\* A reply changes the status of its row, that of nodes, and nothing else of rows.
LEMMA ReceiveFacts ==
  ASSUME TypeOK, NEW m \in Reply, Receive(m)
  PROVE  /\ node' \in [Node -> {"discover", "provisioning", "provisioned", "error"}]
         /\ lost' \subseteq TaskId /\ lost \subseteq lost'
         /\ task' \in [TaskId -> Row \cup {NoTask}]
         /\ \A u \in TaskId : task'[u].name = task[u].name
         /\ \A u \in TaskId : task'[u].nodes = task[u].nodes
         /\ \A u \in TaskId \ {m.task} : task'[u] = task[u]
         /\ \A n \in Node : node'[n] = "provisioning" => node[n] = "provisioning"
         /\ \A n \in Node : node'[n] = "provisioned" =>
              n \in m.installed \/ node[n] = "provisioned"
         /\ m.status # "none" /\ task'[m.task].status = "running" => m.task \in lost'
         /\ task'[m.task].status = "running" => task[m.task].status = "running"
         /\ task[m.task] = NoTask => task'[m.task] = NoTask
  <1>1. m.task \in TaskId /\ m.status \in {"none", "ready", "error"}
    BY DEF Reply
  <1>2. CASE task[m.task].name = "none"
    <2>1. UNCHANGED <<node, task, lost>>
      BY <1>2 DEF Receive
    <2>2. task[m.task].status # "running"
      BY <1>1, <1>2, RowOrNone
    <2> QED BY <1>1, <2>1, <2>2 DEF TypeOK
  <1>3. CASE task[m.task].name = "dump" /\ m.status = "error"
    <2>1. lost' = lost \cup {m.task} /\ UNCHANGED <<node, task>>
      BY <1>3 DEF Receive
    <2> QED BY <1>1, <2>1 DEF TypeOK
  <1>4. CASE /\ task[m.task].name # "none"
             /\ ~ (task[m.task].name = "dump" /\ m.status = "error")
    <2>1. /\ node' = Reported(m) /\ lost' = lost
          /\ task' = [task EXCEPT ![m.task].status = StatusAfter(m)]
      BY <1>4 DEF Receive
    <2>2. task[m.task] \in Row
      BY <1>1, <1>4, RowOrNone
    <2>3. StatusAfter(m) \in {"running", "ready", "error"}
      BY <1>1, <2>2 DEF StatusAfter, Row
    <2>4. /\ task' \in [TaskId -> Row \cup {NoTask}]
          /\ task'[m.task].status = StatusAfter(m)
          /\ \A u \in TaskId : task'[u].name = task[u].name
          /\ \A u \in TaskId : task'[u].nodes = task[u].nodes
          /\ \A u \in TaskId \ {m.task} : task'[u] = task[u]
      BY <1>1, <2>1, <2>2, <2>3, StatusFacts
    <2>5. StatusAfter(m) = "running" =>
            m.status = "none" /\ task[m.task].status = "running"
      BY <1>1 DEF StatusAfter
    <2>6. task[m.task] # NoTask
      BY <1>4, <1>1, RowOrNone
    <2> QED BY <1>1, <2>1, <2>4, <2>5, <2>6, ReportedFacts DEF TypeOK
  <1> QED BY <1>2, <1>3, <1>4

\* Check removes ended rows, none of which has nodes.
LEMMA CheckFacts ==
  ASSUME TypeOK, NEW w \in Worker, NEW k \in Single, Check(w, k)
  PROVE  /\ req[w].pc = "idle"
         /\ task' \in [TaskId -> Row \cup {NoTask}]
         /\ \A t \in TaskId : task'[t] = task[t] \/ task'[t] = NoTask
         /\ \A t \in TaskId : task'[t].nodes = task[t].nodes
         /\ \A t \in TaskId : task[t].status = "running" => task'[t] = task[t]
         /\ \/ req' = req
            \/ /\ req' \in [Worker -> Requested]
               /\ req'[w] = [pc |-> "create", kind |-> k, task |-> 0]
               /\ \A v \in Worker \ {w} : req'[v] = req[v]
  <1>1. PICK gone \in SUBSET Named(k, {"ready", "error"}) :
          task' = [t \in TaskId |-> IF t \in gone THEN NoTask ELSE task[t]]
    <2>1. CASE Running(k) = {}
      BY <2>1 DEF Check
    <2>2. CASE Running(k) # {}
      BY <2>2 DEF Check
    <2> QED BY <2>1, <2>2
  <1>2. \A t \in gone : /\ t \in TaskId /\ task[t].name = k
                        /\ task[t].status \in {"ready", "error"}
    BY DEF Named
  <1>3. \A t \in gone : task[t].nodes = {}
    BY <1>2 DEF TypeOK, Single
  <1>4. NoTask.nodes = {}
    BY DEF NoTask
  <1>5. /\ task' \in [TaskId -> Row \cup {NoTask}]
        /\ \A t \in TaskId : task'[t] = IF t \in gone THEN NoTask ELSE task[t]
    BY <1>1 DEF TypeOK
  <1>6. \/ req' = req
        \/ /\ req' \in [Worker -> Requested]
           /\ req'[w] = [pc |-> "create", kind |-> k, task |-> 0]
           /\ \A v \in Worker \ {w} : req'[v] = req[v]
    <2> DEFINE c == [pc |-> "create", kind |-> k, task |-> 0]
    <2>1. c \in Requested
      BY BoundsAssumption DEF Requested, Kinds
    <2>2. req' = req \/ req' = [req EXCEPT ![w] = c]
      BY DEF Check, NoTaskId
    <2>3. req \in [Worker -> Requested]
      BY DEF TypeOK, Requested
    <2> HIDE DEF c
    <2>4. \/ req' = req
          \/ /\ req' \in [Worker -> Requested] /\ req'[w] = c
             /\ \A v \in Worker \ {w} : req'[v] = req[v]
      BY <2>1, <2>2, <2>3
    <2> QED BY <2>4 DEF c
  <1> QED BY <1>2, <1>3, <1>4, <1>5, <1>6 DEF Check

------------------------------------------------------------------------------
(***************************************************************************)
(* Every step preserves the invariant: requests.                           *)
(***************************************************************************)

LEMMA CheckStep ==
  ASSUME TypeInv, NEW w \in Worker, NEW k \in Single, Check(w, k)
  PROVE  TypeInv'
  <1> USE DEF TypeInv
  <1>1. /\ req[w].pc = "idle"
        /\ task' \in [TaskId -> Row \cup {NoTask}]
        /\ \A t \in TaskId : task'[t] = task[t] \/ task'[t] = NoTask
        /\ \A t \in TaskId : task'[t].nodes = task[t].nodes
        /\ \A t \in TaskId : task[t].status = "running" => task'[t] = task[t]
    BY CheckFacts
  <1>2. \/ req' = req
        \/ /\ req' \in [Worker -> Requested]
           /\ req'[w] = [pc |-> "create", kind |-> k, task |-> 0]
           /\ \A v \in Worker \ {w} : req'[v] = req[v]
    BY CheckFacts
  <1>3. UNCHANGED <<node, os, seq, orch, queue, lost>>
    BY DEF Check
  <1>4. NoTask.name # "provision" /\ NoTask.nodes = {}
    BY DEF NoTask
  <1>5. TypeOK'
    <2>1. \A t \in TaskId : /\ t > seq => task'[t] = NoTask
                            /\ task'[t].name # "provision" => task'[t].nodes = {}
      BY <1>1, <1>4 DEF TypeOK
    <2> QED BY <1>1, <1>2, <1>3, <2>1 DEF TypeOK, Requested
  <1>6. Requests'
    BY <1>1, <1>2, <1>3 DEF Requests, Active, NoTaskId
  <1>7. \A v \in Worker : Active(v)' => Active(v) /\ req'[v] = req[v]
    BY <1>1, <1>2 DEF Active
  <1>8. \A v \in Worker : req'[v].task = req[v].task
    BY <1>1, <1>2 DEF Requests, Active, NoTaskId
  <1>9. Own'
    <2> SUFFICES ASSUME NEW v \in Worker, Active(v)'
                 PROVE  /\ task'[req'[v].task].name = req'[v].kind
                        /\ task'[req'[v].task].status = "running"
                        /\ \A u \in Worker \ {v} : req'[u].task # req'[v].task
                        /\ \A m \in orch' : m.task # req'[v].task
                        /\ \A i \in DOMAIN queue' : queue'[i].task # req'[v].task
      BY DEF Own
    <2>1. Active(v) /\ req'[v] = req[v]
      BY <1>7
    <2>2. req[v].task \in TaskId
      BY <2>1 DEF Requests, TypeOK, TaskId
    <2>3. task'[req[v].task] = task[req[v].task]
      BY <1>1, <2>1, <2>2 DEF Own
    <2> QED BY <1>3, <1>8, <2>1, <2>3 DEF Own
  <1>10. Messages'
    BY <1>1, <1>3 DEF Messages, TypeOK, Message
  <1>11. Replies'
    <2>1. \A i \in DOMAIN queue : queue[i].task \in TaskId
      BY QueueType
    <2> QED BY <1>1, <1>3, <2>1 DEF Replies
  <1> QED BY <1>5, <1>6, <1>9, <1>10, <1>11

\* A row is made, and the request goes on with it.
LEMMA CreatesStep ==
  ASSUME TypeInv, NEW w \in Worker, ~ Active(w), NEW k \in Kinds,
         NEW ns \in SUBSET Node, NEW pc \in {"execute", "start"},
         Creates(w, k, ns, pc),
         pc = "execute" => k \in Single /\ ns = {},
         pc = "start" => k = "provision",
         UNCHANGED <<node, os, orch, queue, lost>>
  PROVE  TypeInv'
  <1> USE DEF TypeInv
  <1> DEFINE new == seq + 1
  <1>1. /\ new \in TaskId /\ seq' = new /\ seq \in Nat
        /\ task'[new] = [name |-> k, nodes |-> ns, status |-> "running"]
        /\ \A t \in TaskId \ {new} : task'[t] = task[t]
        /\ task' \in [TaskId -> Row \cup {NoTask}]
        /\ req' \in [Worker -> Requested]
        /\ req'[w] = [pc |-> pc, kind |-> k, task |-> new]
        /\ \A v \in Worker \ {w} : req'[v] = req[v]
    <2>1. TypeOK
      OBVIOUS
    <2> HIDE DEF TypeInv
    <2> QED BY <2>1, CreatesFacts, ZenonT(60)
  <1>2. \A v \in Worker : req[v].task \in 0 .. seq
    BY <1>1 DEF Requests, NoTaskId
  <1>3. \A m \in orch : m.task \in 1 .. seq
    BY <1>1 DEF Messages, TypeOK, Message, TaskId
  <1>4. \A i \in DOMAIN queue : queue[i].task \in 1 .. seq
    BY <1>1, QueueType DEF Replies, TaskId
  <1>5. \A t \in 1 .. seq : t \in TaskId /\ t # new /\ task'[t] = task[t]
    BY <1>1, BoundsAssumption DEF TaskId, TypeOK
  <1>6. TypeOK'
    <2>1. seq' \in 0 .. MaxTask
      BY <1>1, BoundsAssumption DEF TaskId
    <2>2. \A t \in TaskId : /\ t > seq' => task'[t] = NoTask
                            /\ task'[t].name # "provision" => task'[t].nodes = {}
      <3> SUFFICES ASSUME NEW t \in TaskId
                   PROVE  /\ t > seq' => task'[t] = NoTask
                          /\ task'[t].name # "provision" => task'[t].nodes = {}
        OBVIOUS
      <3>1. CASE t = new
        BY <1>1, <3>1 DEF Single
      <3>2. CASE t # new
        BY <1>1, <3>2 DEF TypeOK, TaskId
      <3> QED BY <3>1, <3>2
    <2> QED BY <1>1, <2>1, <2>2 DEF TypeOK, Requested
  <1>7. Requests'
    <2> SUFFICES ASSUME NEW v \in Worker
                 PROVE  /\ ~ Active(v)' => req'[v].task = NoTaskId
                        /\ req'[v].pc \in {"create", "execute"} =>
                             req'[v].kind \in Single
                        /\ req'[v].pc \in {"start", "cast"} =>
                             req'[v].kind = "provision"
                        /\ Active(v)' => req'[v].task \in 1 .. seq'
      BY DEF Requests
    <2>1. CASE v = w
      BY <1>1, <2>1 DEF Active
    <2>2. CASE v # w
      BY <1>1, <2>2 DEF Requests, Active
    <2> QED BY <2>1, <2>2
  <1>8. Own'
    <2> SUFFICES ASSUME NEW v \in Worker, Active(v)'
                 PROVE  /\ task'[req'[v].task].name = req'[v].kind
                        /\ task'[req'[v].task].status = "running"
                        /\ \A u \in Worker \ {v} : req'[u].task # req'[v].task
                        /\ \A m \in orch' : m.task # req'[v].task
                        /\ \A i \in DOMAIN queue' : queue'[i].task # req'[v].task
      BY DEF Own
    <2>1. CASE v = w
      BY <1>1, <1>2, <1>3, <1>4, <2>1
    <2>2. CASE v # w
      <3>1. Active(v) /\ req'[v] = req[v] /\ req[v].task \in 1 .. seq
        BY <1>1, <2>2 DEF Active, Requests
      <3>2. \A u \in Worker \ {v} : req'[u].task # req[v].task
        <4> SUFFICES ASSUME NEW u \in Worker \ {v} PROVE req'[u].task # req[v].task
          OBVIOUS
        <4>1. CASE u = w
          BY <1>1, <3>1, <4>1
        <4>2. CASE u # w
          BY <1>1, <3>1, <4>2 DEF Own
        <4> QED BY <4>1, <4>2
      <3> QED BY <1>5, <3>1, <3>2 DEF Own
    <2> QED BY <2>1, <2>2
  <1>9. Messages'
    BY <1>1, <1>3, <1>5 DEF Messages
  <1>10. Replies'
    BY <1>1, <1>4, <1>5 DEF Replies
  <1> QED BY <1>6, <1>7, <1>8, <1>9, <1>10

\* A request ends, having done what it will to its row, and nodes.
LEMMA EndsStep ==
  ASSUME TypeInv, NEW w \in Worker, Active(w), Ends(w),
         node' \in [Node -> {"discover", "provisioning", "provisioned", "error"}],
         lost' \subseteq TaskId,
         task' \in [TaskId -> Row \cup {NoTask}],
         \A u \in TaskId : task'[u].name = task[u].name,
         \A u \in TaskId : task'[u].nodes = task[u].nodes,
         \A u \in TaskId : u # req[w].task => task'[u] = task[u],
         UNCHANGED <<os, seq, orch, queue>>
  PROVE  TypeInv'
  <1> USE DEF TypeInv
  <1>1. /\ req' \in [Worker -> Requested]
        /\ req'[w] = [pc |-> "idle", kind |-> "dump", task |-> 0]
        /\ \A v \in Worker \ {w} : req'[v] = req[v]
    BY EndsFacts
  <1>2. req[w].task \in 1 .. seq /\ seq \in Nat /\ seq <= MaxTask
    BY BoundsAssumption DEF Requests, TypeOK
  <1>3. TypeOK'
    <2>1. \A t \in TaskId : /\ t > seq => task'[t] = NoTask
                            /\ task'[t].name # "provision" => task'[t].nodes = {}
      BY <1>2 DEF TypeOK, TaskId
    <2> QED BY <1>1, <2>1 DEF TypeOK, Requested
  <1>4. \A v \in Worker : Active(v)' => v # w /\ Active(v) /\ req'[v] = req[v]
    BY <1>1 DEF Active
  <1>5. Requests'
    <2> SUFFICES ASSUME NEW v \in Worker
                 PROVE  /\ ~ Active(v)' => req'[v].task = NoTaskId
                        /\ req'[v].pc \in {"create", "execute"} =>
                             req'[v].kind \in Single
                        /\ req'[v].pc \in {"start", "cast"} =>
                             req'[v].kind = "provision"
                        /\ Active(v)' => req'[v].task \in 1 .. seq'
      BY DEF Requests
    <2>1. CASE v = w
      BY <1>1, <2>1 DEF Active, NoTaskId
    <2>2. CASE v # w
      BY <1>1, <2>2 DEF Requests, Active
    <2> QED BY <2>1, <2>2
  <1>6. Own'
    <2> SUFFICES ASSUME NEW v \in Worker, Active(v)'
                 PROVE  /\ task'[req'[v].task].name = req'[v].kind
                        /\ task'[req'[v].task].status = "running"
                        /\ \A u \in Worker \ {v} : req'[u].task # req'[v].task
                        /\ \A m \in orch' : m.task # req'[v].task
                        /\ \A i \in DOMAIN queue' : queue'[i].task # req'[v].task
      BY DEF Own
    <2>1. /\ v # w /\ Active(v) /\ req'[v] = req[v]
          /\ req[v].task \in TaskId /\ req[v].task \in 1 .. seq
      BY <1>2, <1>4, BoundsAssumption DEF Requests, TaskId
    <2>2. task'[req[v].task] = task[req[v].task]
      BY <2>1 DEF Own
    <2>3. \A u \in Worker \ {v} : req'[u].task # req[v].task
      <3> SUFFICES ASSUME NEW u \in Worker \ {v} PROVE req'[u].task # req[v].task
        OBVIOUS
      <3>1. CASE u = w
        BY <1>1, <2>1, <3>1
      <3>2. CASE u # w
        BY <1>1, <2>1, <3>2 DEF Own
      <3> QED BY <3>1, <3>2
    <2> QED BY <2>1, <2>2, <2>3 DEF Own
  <1>7. Messages'
    BY DEF Messages, TypeOK, Message
  <1>8. Replies'
    BY QueueType DEF Replies
  <1> QED BY <1>3, <1>5, <1>6, <1>7, <1>8

\* A request gives its row to the orchestrator and ends.
LEMMA CastStep ==
  ASSUME TypeInv, NEW w \in Worker, Active(w), Ends(w), NEW m \in Message,
         m.task = req[w].task, m.nodes = task[req[w].task].nodes,
         m.kind = "dump" => m.nodes = {},
         orch' = orch \cup {m},
         UNCHANGED <<node, os, task, seq, queue, lost>>
  PROVE  TypeInv'
  <1> USE DEF TypeInv
  <1>1. /\ req' \in [Worker -> Requested]
        /\ req'[w] = [pc |-> "idle", kind |-> "dump", task |-> 0]
        /\ \A v \in Worker \ {w} : req'[v] = req[v]
    BY EndsFacts
  <1>2. req[w].task \in 1 .. seq
    BY DEF Requests
  <1>3. TypeOK'
    BY <1>1 DEF TypeOK, Requested
  <1>4. Requests'
    <2> SUFFICES ASSUME NEW v \in Worker
                 PROVE  /\ ~ Active(v)' => req'[v].task = NoTaskId
                        /\ req'[v].pc \in {"create", "execute"} =>
                             req'[v].kind \in Single
                        /\ req'[v].pc \in {"start", "cast"} =>
                             req'[v].kind = "provision"
                        /\ Active(v)' => req'[v].task \in 1 .. seq'
      BY DEF Requests
    <2>1. CASE v = w
      BY <1>1, <2>1 DEF Active, NoTaskId
    <2>2. CASE v # w
      BY <1>1, <2>2 DEF Requests, Active
    <2> QED BY <2>1, <2>2
  <1>5. Own'
    <2> SUFFICES ASSUME NEW v \in Worker, Active(v)'
                 PROVE  /\ task'[req'[v].task].name = req'[v].kind
                        /\ task'[req'[v].task].status = "running"
                        /\ \A u \in Worker \ {v} : req'[u].task # req'[v].task
                        /\ \A d \in orch' : d.task # req'[v].task
                        /\ \A i \in DOMAIN queue' : queue'[i].task # req'[v].task
      BY DEF Own
    <2>1. v # w /\ Active(v) /\ req'[v] = req[v] /\ req[v].task \in 1 .. seq
      BY <1>1 DEF Active, Requests
    <2>2. m.task # req[v].task
      BY <2>1 DEF Own
    <2>3. \A u \in Worker \ {v} : req'[u].task # req[v].task
      <3> SUFFICES ASSUME NEW u \in Worker \ {v} PROVE req'[u].task # req[v].task
        OBVIOUS
      <3>1. CASE u = w
        BY <1>1, <2>1, <3>1
      <3>2. CASE u # w
        BY <1>1, <2>1, <3>2 DEF Own
      <3> QED BY <3>1, <3>2
    <2> QED BY <2>1, <2>2, <2>3 DEF Own
  <1>6. Messages'
    BY <1>2 DEF Messages
  <1>7. Replies'
    BY DEF Replies
  <1> QED BY <1>3, <1>4, <1>5, <1>6, <1>7

\* An installation is about to be cast.
LEMMA InstallStartStep ==
  ASSUME TypeInv, NEW w \in Worker, InstallStart(w)
  PROVE  TypeInv'
  <1> USE DEF TypeInv
  <1>1. /\ req[w].pc = "start" /\ Goto(w, "cast")
        /\ UNCHANGED <<os, task, seq, orch, queue, lost>>
        /\ node' = [n \in Node |-> IF n \in task[req[w].task].nodes
                                   THEN "provisioning" ELSE node[n]]
    BY DEF InstallStart, Mark
  <1>2. /\ req' \in [Worker -> Requested]
        /\ req'[w] = [pc |-> "cast", kind |-> req[w].kind, task |-> req[w].task]
        /\ \A v \in Worker \ {w} : req'[v] = req[v]
    BY <1>1, GotoFacts
  <1>3. TypeOK'
    <2>1. node' \in [Node -> {"discover", "provisioning", "provisioned", "error"}]
      BY <1>1 DEF TypeOK
    <2> QED BY <1>1, <1>2, <2>1 DEF TypeOK, Requested
  <1>4. \A v \in Worker : /\ Active(v)' <=> Active(v)
                          /\ req'[v].task = req[v].task
                          /\ req'[v].kind = req[v].kind
                          /\ req'[v].pc = req[v].pc \/ (v = w /\ req'[v].pc = "cast")
    <2> SUFFICES ASSUME NEW v \in Worker
                 PROVE  /\ Active(v)' <=> Active(v)
                        /\ req'[v].task = req[v].task
                        /\ req'[v].kind = req[v].kind
                        /\ req'[v].pc = req[v].pc \/ (v = w /\ req'[v].pc = "cast")
      OBVIOUS
    <2>1. CASE v = w
      BY <1>1, <1>2, <2>1 DEF Active
    <2>2. CASE v # w
      <3>1. req'[v] = req[v]
        BY <1>2, <2>2
      <3> QED BY <3>1 DEF Active
    <2> QED BY <2>1, <2>2
  <1>5. Requests'
    BY <1>1, <1>4 DEF Requests, Active
  <1>6. Own'
    BY <1>1, <1>4 DEF Own
  <1>7. Messages' /\ Replies'
    BY <1>1 DEF Messages, Replies
  <1> QED BY <1>3, <1>5, <1>6, <1>7

------------------------------------------------------------------------------
(***************************************************************************)
(* Every step preserves the invariant: orchestrator and receiver.          *)
(***************************************************************************)

LEMMA BeginStep ==
  ASSUME TypeInv, NEW m \in orch, Begin(m)
  PROVE  TypeInv'
  <1> USE DEF TypeInv
  <1> DEFINE b == [m EXCEPT !.begun = TRUE]
  <1>1. /\ b \in Message /\ b.task = m.task
        /\ b.kind = m.kind /\ b.nodes = m.nodes
    BY BegunFacts DEF TypeOK
  <1>2. /\ orch' = (orch \ {m}) \cup {b}
        /\ os' = [n \in Node |-> IF n \in m.nodes THEN "none" ELSE os[n]]
        /\ UNCHANGED <<node, task, seq, req, queue, lost>>
    BY DEF Begin
  <1> HIDE DEF b
  <1>3. TypeOK'
    <2>1. os' \in [Node -> {"system", "none"}] /\ orch' \subseteq Message
      BY <1>1, <1>2 DEF TypeOK
    <2> QED BY <1>2, <2>1 DEF TypeOK
  <1>4. Requests'
    BY <1>2 DEF Requests, Active
  <1>5. Own'
    BY <1>1, <1>2 DEF Own, Active
  <1>6. Messages'
    BY <1>1, <1>2 DEF Messages
  <1>7. Replies'
    BY <1>2 DEF Replies
  <1> QED BY <1>3, <1>4, <1>5, <1>6, <1>7

\* The orchestrator says something of the nodes of a message.
LEMMA SendStep ==
  ASSUME TypeInv, NEW m \in orch, orch' \subseteq orch,
         NEW st \in {"none", "ready", "error"},
         NEW ins \in SUBSET m.nodes, NEW fl \in SUBSET m.nodes,
         st = "ready" => ins \cup fl = m.nodes,
         Send(m, st, ins, fl),
         os' \in [Node -> {"system", "none"}],
         UNCHANGED <<node, task, seq, req, lost>>
  PROVE  TypeInv'
  <1>1. TypeOK /\ m \in Message /\ ins \in SUBSET Node /\ fl \in SUBSET Node
    BY DEF TypeInv, TypeOK, Message
  <1>2. /\ queue' \in Seq(Reply)
        /\ Len(queue) \in Nat /\ DOMAIN queue = 1 .. Len(queue)
        /\ DOMAIN queue' = 1 .. (Len(queue) + 1)
        /\ \A i \in DOMAIN queue : queue'[i] = queue[i]
        /\ queue'[Len(queue) + 1] = [task |-> m.task, status |-> st,
                                     installed |-> ins, failed |-> fl]
    <2>1. Send(m, st, ins, fl)
      OBVIOUS
    <2>2. Appended([task |-> m.task, status |-> st,
                    installed |-> ins, failed |-> fl])
      BY <1>1, <2>1, SendFacts
    <2> QED BY <2>2 DEF Appended
  <1> USE DEF TypeInv
  <1>3. \A i \in DOMAIN queue' : i \in DOMAIN queue \/ i = Len(queue) + 1
    BY <1>2
  <1>4. TypeOK'
    BY <1>2 DEF TypeOK
  <1>5. Requests'
    BY DEF Requests, Active
  <1>6. \A w \in Worker : Active(w) => m.task # req[w].task
    BY DEF Own
  <1>7. Own'
    BY <1>2, <1>3, <1>6 DEF Own, Active
  <1>8. Messages'
    BY DEF Messages
  <1>9. Replies'
    BY <1>2, <1>3 DEF Replies, Messages
  <1> QED BY <1>4, <1>5, <1>7, <1>8, <1>9

\* A reply is handled, and leaves the queue or stays.
LEMMA ReceiveStep ==
  ASSUME TypeInv, queue # <<>>, Receive(Head(queue)),
         queue' = queue \/ queue' = Tail(queue),
         UNCHANGED <<os, seq, req, orch>>
  PROVE  TypeInv'
  <1> USE DEF TypeInv
  <1> DEFINE m == Head(queue)
  <1>1. m \in Reply /\ m = queue[1] /\ 1 \in DOMAIN queue
    BY HeadFacts
  <1>2. /\ node' \in [Node -> {"discover", "provisioning", "provisioned", "error"}]
        /\ lost' \subseteq TaskId
        /\ task' \in [TaskId -> Row \cup {NoTask}]
        /\ \A u \in TaskId : task'[u].name = task[u].name
        /\ \A u \in TaskId : task'[u].nodes = task[u].nodes
        /\ \A u \in TaskId \ {m.task} : task'[u] = task[u]
        /\ task[m.task] = NoTask => task'[m.task] = NoTask
    BY <1>1, ReceiveFacts
  <1>3. queue' \in Seq(Reply) /\ queue \in Seq(Reply)
    BY TailFacts DEF TypeOK
  <1>4. \A i \in DOMAIN queue' : \E j \in DOMAIN queue : queue'[i] = queue[j]
    <2>1. CASE queue' = queue
      BY <2>1
    <2>2. CASE queue' = Tail(queue)
      BY <2>2, TailFacts
    <2> QED BY <2>1, <2>2
  <1>5. m.task \in TaskId /\ m.task <= seq
    BY <1>1, QueueType DEF Replies
  <1> HIDE DEF m
  <1>6. TypeOK'
    <2>1. \A t \in TaskId : /\ t > seq => task'[t] = NoTask
                            /\ task'[t].name # "provision" => task'[t].nodes = {}
      BY <1>2 DEF TypeOK
    <2> QED BY <1>2, <1>3, <2>1 DEF TypeOK
  <1>7. Requests'
    BY DEF Requests, Active
  <1>8. Own'
    <2> SUFFICES ASSUME NEW w \in Worker, Active(w)
                 PROVE  /\ task'[req[w].task].name = req[w].kind
                        /\ task'[req[w].task].status = "running"
                        /\ \A v \in Worker \ {w} : req[v].task # req[w].task
                        /\ \A d \in orch : d.task # req[w].task
                        /\ \A i \in DOMAIN queue' : queue'[i].task # req[w].task
      BY DEF Own, Active
    <2>1. req[w].task # m.task
      BY <1>1 DEF Own
    <2>2. req[w].task \in TaskId
      BY BoundsAssumption DEF Requests, TypeOK, TaskId
    <2>3. task'[req[w].task] = task[req[w].task]
      BY <1>2, <2>1, <2>2
    <2> QED BY <1>4, <2>3 DEF Own
  <1>9. Messages'
    BY <1>2 DEF Messages, TypeOK, Message
  <1>10. Replies'
    BY <1>2, <1>4, QueueType DEF Replies
  <1> QED BY <1>6, <1>7, <1>8, <1>9, <1>10

------------------------------------------------------------------------------
(***************************************************************************)
(* Types.                                                                  *)
(***************************************************************************)

LEMMA InitTypeInv ==
  ASSUME NEW W, NEW requests, NEW faults, InitOf(W, requests, faults)
  PROVE  TypeInv
  <1>1. /\ os = [n \in Node |-> "system"]
        /\ node \in [Node -> {"discover", "provisioned"}]
        /\ task = [t \in TaskId |-> NoTask]
        /\ seq = 0 /\ orch = {} /\ queue = <<>> /\ lost = {}
        /\ req = [w \in Worker |-> IF w \in W THEN Idle ELSE Off]
    BY DEF InitOf
  <1>2. /\ Idle = [pc |-> "idle", kind |-> "dump", task |-> 0] /\ Idle \in Requested
        /\ Off = [pc |-> "off", kind |-> "dump", task |-> 0] /\ Off \in Requested
    BY BoundsAssumption DEF Idle, Off, NoTaskId, Requested, Kinds, Single
  <1>3. \A w \in Worker : req[w].pc \in {"idle", "off"} /\ req[w].task = 0
    BY <1>1, <1>2
  <1>4. TypeOK
    <2>1. /\ task \in [TaskId -> Row \cup {NoTask}]
          /\ \A t \in TaskId : task[t] = NoTask /\ task[t].nodes = {}
      BY <1>1 DEF NoTask
    <2>2. req \in [Worker -> Requested]
      BY <1>1, <1>2
    <2> QED BY <1>1, <2>1, <2>2, BoundsAssumption DEF TypeOK, Requested
  <1>5. Requests /\ Own
    BY <1>3 DEF Requests, Own, Active, NoTaskId
  <1>6. Messages /\ Replies
    BY <1>1 DEF Messages, Replies
  <1> QED BY <1>4, <1>5, <1>6 DEF TypeInv

\* The requests that end with their row: what becomes of it.
LEMMA EndingStep ==
  ASSUME TypeInv, NEW w \in Worker,
         WriteLog(w) \/ ExecuteFails(w) \/ InstallStartFails(w) \/ Crash(w)
  PROVE  TypeInv'
  <1> USE DEF TypeInv
  <1>1. /\ Active(w) /\ Ends(w)
        /\ UNCHANGED <<os, seq, orch, queue>>
    BY DEF Active, WriteLog, ExecuteFails, InstallStartFails, Crash
  <1> DEFINE t == req[w].task
  <1>2. t \in TaskId
    BY <1>1, BoundsAssumption DEF Requests, TypeOK, TaskId
  <1>3. task[t] \in Row
    BY <1>1, <1>2, RowOrNone DEF Own
  <1>4. /\ node' \in [Node -> {"discover", "provisioning", "provisioned", "error"}]
        /\ lost' \subseteq TaskId
    BY <1>2 DEF TypeOK, WriteLog, ExecuteFails, InstallStartFails, Mark, Crash
  <1>5. /\ task' \in [TaskId -> Row \cup {NoTask}]
        /\ \A u \in TaskId : task'[u].name = task[u].name
        /\ \A u \in TaskId : task'[u].nodes = task[u].nodes
        /\ \A u \in TaskId : u # t => task'[u] = task[u]
    <2>1. CASE WriteLog(w)
      <3>1. task' = [task EXCEPT ![t].status = "ready"]
        BY <2>1 DEF WriteLog
      <3> QED BY <1>2, <1>3, <3>1, StatusFacts
    <2>2. CASE InstallStartFails(w)
      <3>1. task' = [task EXCEPT ![t].status = "error"]
        BY <2>2 DEF InstallStartFails
      <3> QED BY <1>2, <1>3, <3>1, StatusFacts
    <2>3. CASE ExecuteFails(w) \/ Crash(w)
      BY <2>3 DEF ExecuteFails, Crash, TypeOK
    <2> QED BY <2>1, <2>2, <2>3,
               WriteLog(w) \/ ExecuteFails(w) \/ InstallStartFails(w) \/ Crash(w)
  <1> QED BY <1>1, <1>4, <1>5, EndsStep

\* The requests that end with a message.
LEMMA CastingStep ==
  ASSUME TypeInv, NEW w \in Worker, CastDump(w) \/ InstallCast(w)
  PROVE  TypeInv'
  <1> USE DEF TypeInv
  <1>1. /\ Active(w) /\ Ends(w)
        /\ UNCHANGED <<node, os, task, seq, queue, lost>>
    BY DEF Active, CastDump, InstallCast
  <1>2. req[w].task \in TaskId
    BY <1>1, BoundsAssumption DEF Requests, TypeOK, TaskId
  <1>3. task[req[w].task].nodes \subseteq Node
    BY <1>2, RowOrNone
  <1>4. CASE CastDump(w)
    <2> DEFINE m == [task |-> req[w].task, kind |-> "dump", nodes |-> {},
                     begun |-> FALSE]
    <2>1. task[req[w].task].name = "dump"
      BY <1>1, <1>4 DEF Own, CastDump
    <2>2. task[req[w].task].nodes = {}
      BY <1>2, <2>1 DEF TypeOK
    <2>3. m \in Message
      BY <1>2 DEF Message
    <2>4. orch' = orch \cup {m}
      BY <1>4 DEF CastDump
    <2>5. m.task = req[w].task /\ m.nodes = {}
      OBVIOUS
    <2> HIDE DEF m
    <2> QED BY <1>1, <2>2, <2>3, <2>4, <2>5, CastStep
  <1>5. CASE InstallCast(w)
    <2> DEFINE m == [task |-> req[w].task, kind |-> "provision",
                     nodes |-> task[req[w].task].nodes, begun |-> FALSE]
    <2>1. m \in Message
      BY <1>2, <1>3 DEF Message
    <2>2. orch' = orch \cup {m}
      BY <1>5 DEF InstallCast
    <2>3. /\ m.task = req[w].task /\ m.nodes = task[req[w].task].nodes
          /\ m.kind # "dump"
      OBVIOUS
    <2> HIDE DEF m
    <2> QED BY <1>1, <2>1, <2>2, <2>3, CastStep
  <1> QED BY <1>4, <1>5

\* What the orchestrator says, as SendStep has it.
LEMMA SaysFacts ==
  ASSUME TypeInv, NEW m \in orch,
         Answer(m) \/ AnswerDump(m) \/ \E n \in m.nodes : Report(m, n)
  PROVE  /\ \E st \in {"none", "ready", "error"},
               ins \in SUBSET m.nodes, fl \in SUBSET m.nodes :
              /\ Send(m, st, ins, fl)
              /\ st = "ready" => ins \cup fl = m.nodes
              /\ orch' = orch \/ (orch' = orch \ {m} /\ st # "none")
              /\ \A n \in ins : os'[n] = "system"
         /\ os' \in [Node -> {"system", "none"}]
         /\ \A n \in Node \ m.nodes : os'[n] = os[n]
         /\ orch' = orch => \A n \in Node : os[n] = "system" => os'[n] = "system"
         /\ UNCHANGED <<node, task, seq, req, lost>>
  <1>1. m \in Message /\ m.nodes \subseteq Node
    BY DEF TypeInv, TypeOK, Message
  <1>2. os \in [Node -> {"system", "none"}]
    BY DEF TypeInv, TypeOK
  <1>3. CASE Answer(m)
    <2>1. PICK failed \in SUBSET m.nodes :
            /\ os' = [n \in Node |-> IF n \in failed THEN "none"
                                     ELSE IF n \in m.nodes THEN "system" ELSE os[n]]
            /\ \/ Send(m, "ready", m.nodes \ failed, failed)
               \/ Send(m, "error", {}, {})
      BY <1>3 DEF Answer
    <2>2. orch' = orch \ {m} /\ UNCHANGED <<node, task, seq, req, lost>>
      BY <1>3 DEF Answer
    <2>3. /\ os' \in [Node -> {"system", "none"}]
          /\ \A n \in Node \ m.nodes : os'[n] = os[n]
          /\ \A n \in m.nodes \ failed : os'[n] = "system"
      BY <1>1, <1>2, <2>1
    <2>4. orch' # orch
      BY <2>2
    <2>5. \E st \in {"none", "ready", "error"},
             ins \in SUBSET m.nodes, fl \in SUBSET m.nodes :
            /\ Send(m, st, ins, fl)
            /\ st = "ready" => ins \cup fl = m.nodes
            /\ orch' = orch \/ (orch' = orch \ {m} /\ st # "none")
            /\ \A n \in ins : os'[n] = "system"
      <3>1. CASE Send(m, "ready", m.nodes \ failed, failed)
        <4>1. (m.nodes \ failed) \cup failed = m.nodes
          OBVIOUS
        <4> QED BY <2>2, <2>3, <3>1, <4>1
      <3>2. CASE Send(m, "error", {}, {})
        BY <2>2, <3>2
      <3> QED BY <2>1, <3>1, <3>2
    <2> QED BY <2>2, <2>3, <2>4, <2>5
  <1>4. CASE AnswerDump(m)
    <2>1. PICK st \in {"ready", "error"} : Send(m, st, {}, {})
      BY <1>4 DEF AnswerDump
    <2>2. /\ m.nodes = {} /\ orch' = orch \ {m}
          /\ UNCHANGED <<node, os, task, seq, req, lost>>
      BY <1>4 DEF AnswerDump, TypeInv, Messages
    <2> QED BY <1>2, <2>1, <2>2
  <1>5. CASE \E n \in m.nodes : Report(m, n)
    <2>1. PICK n \in m.nodes : Report(m, n)
      BY <1>5
    <2>2. /\ Send(m, "none", {n}, {}) /\ os' = [os EXCEPT ![n] = "system"]
          /\ UNCHANGED <<node, task, seq, req, orch, lost>>
      BY <2>1 DEF Report
    <2>3. {n} \in SUBSET m.nodes /\ {} \in SUBSET m.nodes /\ n \in Node
      BY <1>1
    <2>4. /\ os' \in [Node -> {"system", "none"}] /\ os'[n] = "system"
          /\ \A k \in Node \ {n} : os'[k] = os[k]
      BY <1>2, <2>2, <2>3
    <2>5. \E st \in {"none", "ready", "error"},
             ins \in SUBSET m.nodes, fl \in SUBSET m.nodes :
            /\ Send(m, st, ins, fl)
            /\ st = "ready" => ins \cup fl = m.nodes
            /\ orch' = orch \/ (orch' = orch \ {m} /\ st # "none")
            /\ \A k \in ins : os'[k] = "system"
      BY <2>2, <2>3, <2>4
    <2> QED BY <2>2, <2>4, <2>5
  <1> QED BY <1>3, <1>4, <1>5

LEMMA NextTypeInv == TypeInv /\ [Next]_vars => TypeInv'
  <1> SUFFICES ASSUME TypeInv, [Next]_vars PROVE TypeInv'
    OBVIOUS
  <1>1. ASSUME NEW w \in Worker, NEW k \in Single, Check(w, k) PROVE TypeInv'
    BY <1>1, CheckStep
  <1>2. ASSUME NEW w \in Worker, NEW ns \in SUBSET Node, Install(w, ns)
        PROVE  TypeInv'
    <2>1. /\ ~ Active(w) /\ Creates(w, "provision", ns, "start")
          /\ UNCHANGED <<node, os, orch, queue, lost>>
      BY <1>2 DEF Install, Active
    <2>2. "provision" \in Kinds
      BY DEF Kinds
    <2> QED BY <2>1, <2>2, CreatesStep
  <1>3. ASSUME NEW w \in Worker, Create(w) PROVE TypeInv'
    <2>1. /\ ~ Active(w) /\ Creates(w, req[w].kind, {}, "execute")
          /\ UNCHANGED <<node, os, orch, queue, lost>>
      BY <1>3 DEF Create, Active
    <2>2. req[w].kind \in Single /\ req[w].kind \in Kinds
      BY <1>3 DEF Create, TypeInv, Requests, Kinds
    <2> QED BY <2>1, <2>2, CreatesStep
  <1>4. ASSUME NEW w \in Worker, CastDump(w) \/ InstallCast(w) PROVE TypeInv'
    BY <1>4, CastingStep
  <1>5. ASSUME NEW w \in Worker,
               WriteLog(w) \/ ExecuteFails(w) \/ InstallStartFails(w) \/ Crash(w)
        PROVE  TypeInv'
    BY <1>5, EndingStep
  <1>6. ASSUME NEW w \in Worker, InstallStart(w) PROVE TypeInv'
    BY <1>6, InstallStartStep
  <1>7. ASSUME NEW m \in orch, Begin(m) PROVE TypeInv'
    BY <1>7, BeginStep
  <1>8. ASSUME NEW m \in orch,
               Answer(m) \/ AnswerDump(m) \/ \E n \in m.nodes : Report(m, n)
        PROVE  TypeInv'
    <2>1. PICK st \in {"none", "ready", "error"},
               ins \in SUBSET m.nodes, fl \in SUBSET m.nodes :
            /\ Send(m, st, ins, fl)
            /\ st = "ready" => ins \cup fl = m.nodes
            /\ orch' = orch \/ orch' = orch \ {m}
      BY <1>8, SaysFacts
    <2>2. /\ os' \in [Node -> {"system", "none"}]
          /\ UNCHANGED <<node, task, seq, req, lost>>
      BY <1>8, SaysFacts
    <2>3. orch' \subseteq orch
      BY <2>1
    <2> QED BY <2>1, <2>2, <2>3, SendStep
  <1>9. CASE Consume \/ ConsumeUnacknowledged
    BY <1>9, ReceiveStep DEF Consume, ConsumeUnacknowledged
  <1>10. CASE UNCHANGED vars
    BY <1>10 DEF vars, TypeInv, TypeOK, Requests, Own, Messages, Replies, Active
  <1> QED BY <1>1, <1>2, <1>3, <1>4, <1>5, <1>6, <1>7, <1>8, <1>9, <1>10
          DEF Next, Continue, Work

THEOREM TypeInvariant == Spec => []TypeInv
  <1>1. Init => TypeInv
    BY InitTypeInv DEF Init
  <1> QED BY <1>1, NextTypeInv, PTL DEF Spec

\* The variables keep their types in every behaviour.
THEOREM TypeCorrect == Spec => []TypeOK
  <1>1. TypeInv => TypeOK
    BY DEF TypeInv
  <1> QED BY <1>1, TypeInvariant, PTL

------------------------------------------------------------------------------
(***************************************************************************)
(* A row that runs, and a node in provisioning, is in somebody's hands.    *)
(***************************************************************************)

\* The reply at the head of the queue is handled.
Receives == queue # <<>> /\ Receive(Head(queue))

\* A request creates row seq + 1.
Adds(w, ns) ==
  /\ ~ Active(w)
  /\ \E k \in Kinds, pc \in {"execute", "start"} : Creates(w, k, ns, pc)
  /\ UNCHANGED <<node, os, orch, queue, lost>>

\* A request makes an end of its row without the orchestrator.
Drops(w) ==
  WriteLog(w) \/ ExecuteFails(w) \/ InstallStartFails(w) \/ Crash(w)

\* The kinds of steps.
LEMMA Steps ==
  ASSUME TypeInv, Next
  PROVE  \/ \E w \in Worker, k \in Single : Check(w, k)
         \/ \E w \in Worker, ns \in SUBSET Node : Adds(w, ns)
         \/ \E w \in Worker : Drops(w)
         \/ \E w \in Worker : InstallStart(w)
         \/ \E w \in Worker : CastDump(w) \/ InstallCast(w)
         \/ \E m \in orch : Begin(m)
         \/ \E m \in orch :
              Answer(m) \/ AnswerDump(m) \/ \E n \in m.nodes : Report(m, n)
         \/ /\ Receives
            /\ queue' = queue \/ queue' = Tail(queue)
            /\ UNCHANGED <<os, seq, req, orch>>
  <1>1. ASSUME NEW w \in Worker, NEW ns \in SUBSET Node, Install(w, ns)
        PROVE  Adds(w, ns)
    <2>1. "provision" \in Kinds
      BY DEF Kinds
    <2> QED BY <1>1, <2>1 DEF Install, Adds, Active
  <1>2. ASSUME NEW w \in Worker, Create(w)
        PROVE  Adds(w, {})
    <2>1. req[w].kind \in Kinds
      BY <1>2 DEF Create, TypeInv, Requests, Kinds
    <2> QED BY <1>2, <2>1 DEF Create, Adds, Active
  <1>3. {} \in SUBSET Node
    OBVIOUS
  <1> QED BY <1>1, <1>2, <1>3
          DEF Next, Continue, Work, Drops, Receives, Consume, ConsumeUnacknowledged

\* What Adds does.
LEMMA AddsFacts ==
  ASSUME TypeInv, NEW w \in Worker, NEW ns \in SUBSET Node, Adds(w, ns)
  PROVE  /\ req[w].task = 0 /\ req'[w].task = seq + 1
         /\ \A v \in Worker \ {w} : req'[v] = req[v]
         /\ \A t \in TaskId : t # seq + 1 => task'[t] = task[t]
         /\ seq + 1 \in TaskId /\ task[seq + 1].nodes = {}
         /\ UNCHANGED <<node, os, orch, queue, lost>>
  <1>1. PICK k \in Kinds, pc \in {"execute", "start"} : Creates(w, k, ns, pc)
    BY DEF Adds
  <1>2. TypeOK
    BY DEF TypeInv
  <1>3. /\ seq + 1 \in TaskId /\ seq \in Nat
        /\ \A t \in TaskId \ {seq + 1} : task'[t] = task[t]
        /\ req'[w] = [pc |-> pc, kind |-> k, task |-> seq + 1]
        /\ \A v \in Worker \ {w} : req'[v] = req[v]
    BY <1>1, <1>2, CreatesFacts, ZenonT(60)
  <1>4. task[seq + 1] = NoTask
    BY <1>2, <1>3 DEF TypeOK
  <1>5. req[w].task = 0
    BY DEF Adds, TypeInv, Requests, NoTaskId
  <1> QED BY <1>3, <1>4, <1>5 DEF Adds, NoTask

\* What Drops does.
LEMMA DropsFacts ==
  ASSUME TypeInv, NEW w \in Worker, Drops(w)
  PROVE  /\ Active(w) /\ req[w].task \in TaskId
         /\ \A v \in Worker \ {w} : req'[v] = req[v]
         /\ \A t \in TaskId : t # req[w].task => task'[t] = task[t]
         /\ \A t \in TaskId : task'[t].nodes = task[t].nodes
         /\ \/ /\ req[w].task \in lost'
               /\ task'[req[w].task].status = "running" =>
                    task[req[w].task].status = "running"
            \/ /\ task'[req[w].task].status = "ready"
               /\ task[req[w].task].nodes = {}
               /\ UNCHANGED node
         /\ \A n \in Node : node'[n] = "provisioned" => node[n] = "provisioned"
         /\ \A n \in Node : node'[n] = "provisioning" =>
              \/ node[n] = "provisioning"
              \/ n \in task[req[w].task].nodes /\ req[w].task \in lost'
         /\ lost \subseteq lost'
         /\ UNCHANGED <<os, seq, orch, queue>>
  <1> USE DEF TypeInv
  <1> DEFINE t == req[w].task
  <1>1. /\ Active(w) /\ Ends(w)
        /\ UNCHANGED <<os, seq, orch, queue>>
    BY DEF Drops, Active, WriteLog, ExecuteFails, InstallStartFails, Crash
  <1>2. t \in TaskId
    BY <1>1, BoundsAssumption DEF Requests, TypeOK, TaskId
  <1>3. task[t] \in Row
    BY <1>1, <1>2, RowOrNone DEF Own
  <1>4. \A v \in Worker \ {w} : req'[v] = req[v]
    BY <1>1, EndsFacts
  <1>5. CASE WriteLog(w)
    <2>1. /\ task' = [task EXCEPT ![t].status = "ready"]
          /\ req[w].kind = "capacity_log" /\ UNCHANGED <<node, lost>>
      BY <1>5 DEF WriteLog
    <2>2. /\ task'[t].status = "ready"
          /\ \A u \in TaskId : task'[u].nodes = task[u].nodes
          /\ \A u \in TaskId \ {t} : task'[u] = task[u]
      BY <1>2, <1>3, <2>1, StatusFacts
    <2>3. task[t].nodes = {}
      BY <1>1, <1>2, <2>1 DEF Own, TypeOK
    <2> QED BY <1>1, <1>2, <1>4, <2>1, <2>2, <2>3
  <1>6. CASE InstallStartFails(w)
    <2>1. /\ task' = [task EXCEPT ![t].status = "error"] /\ lost' = lost \cup {t}
          /\ node' = [n \in Node |-> IF n \in task[t].nodes THEN "provisioning"
                                     ELSE node[n]]
      BY <1>6 DEF InstallStartFails, Mark
    <2>2. /\ task'[t].status = "error"
          /\ \A u \in TaskId : task'[u].nodes = task[u].nodes
          /\ \A u \in TaskId \ {t} : task'[u] = task[u]
      BY <1>2, <1>3, <2>1, StatusFacts
    <2> QED BY <1>1, <1>2, <1>4, <2>1, <2>2
  <1>7. CASE ExecuteFails(w) \/ Crash(w)
    BY <1>1, <1>2, <1>4, <1>7 DEF ExecuteFails, Crash
  <1> QED BY <1>5, <1>6, <1>7 DEF Drops

\* What a step that casts does.
LEMMA CastFacts ==
  ASSUME TypeInv, NEW w \in Worker, CastDump(w) \/ InstallCast(w)
  PROVE  /\ Active(w)
         /\ \A v \in Worker \ {w} : req'[v] = req[v]
         /\ orch \subseteq orch' /\ \E m \in orch' : m.task = req[w].task
         /\ UNCHANGED <<node, os, task, seq, queue, lost>>
  <1>1. /\ Active(w) /\ Ends(w)
        /\ UNCHANGED <<node, os, task, seq, queue, lost>>
        /\ orch \subseteq orch'
    BY DEF Active, CastDump, InstallCast
  <1>2. \E m \in orch' : m.task = req[w].task
    <2> DEFINE d == [task |-> req[w].task, kind |-> "dump", nodes |-> {},
                     begun |-> FALSE]
               p == [task |-> req[w].task, kind |-> "provision",
                     nodes |-> task[req[w].task].nodes, begun |-> FALSE]
    <2>1. d.task = req[w].task /\ p.task = req[w].task
      OBVIOUS
    <2>2. orch' = orch \cup {d} \/ orch' = orch \cup {p}
      BY DEF CastDump, InstallCast
    <2> HIDE DEF d, p
    <2> QED BY <2>1, <2>2
  <1> QED BY <1>1, <1>2, EndsFacts DEF TypeInv

\* What a step of the orchestrator does to its messages.
LEMMA BeginFacts ==
  ASSUME TypeInv, NEW m \in orch, Begin(m)
  PROVE  /\ \E b \in orch' : /\ b.task = m.task /\ b.nodes = m.nodes
                             /\ orch' = (orch \ {m}) \cup {b}
         /\ \A n \in Node : os'[n] = IF n \in m.nodes THEN "none" ELSE os[n]
         /\ UNCHANGED <<node, task, seq, req, queue, lost>>
  <1> DEFINE b == [m EXCEPT !.begun = TRUE]
  <1>1. b.task = m.task /\ b.nodes = m.nodes
    BY BegunFacts DEF TypeInv, TypeOK
  <1>2. /\ orch' = (orch \ {m}) \cup {b}
        /\ os' = [n \in Node |-> IF n \in m.nodes THEN "none" ELSE os[n]]
        /\ UNCHANGED <<node, task, seq, req, queue, lost>>
    BY DEF Begin
  <1> HIDE DEF b
  <1> QED BY <1>1, <1>2

\* What somebody has in hand stays so, until it is lost, written or answered.
LEMMA HandledStep ==
  ASSUME TypeInv, Next, NEW t \in TaskId, Handled(t)
  PROVE  \/ Handled(t)'
         \/ t \in lost'
         \/ task'[t].status = "ready" /\ task[t].nodes = {} /\ UNCHANGED node
         \/ Receives /\ t = Head(queue).task /\ Head(queue).status # "none"
  <1>0. t # 0
    BY DEF TaskId
  <1>1. ASSUME NEW w \in Worker, NEW k \in Single, Check(w, k) PROVE Handled(t)'
    <2>1. TypeOK
      BY DEF TypeInv
    <2>2. /\ req[w].pc = "idle"
          /\ \A v \in Worker \ {w} : req'[v] = req[v]
      BY <1>1, <2>1, CheckFacts
    <2>3. req[w].task = 0
      BY <2>2 DEF TypeInv, Requests, Active, NoTaskId
    <2>4. UNCHANGED <<orch, queue>>
      BY <1>1 DEF Check
    <2> QED BY <1>0, <2>2, <2>3, <2>4 DEF Handled
  <1>2. ASSUME NEW w \in Worker, NEW ns \in SUBSET Node, Adds(w, ns)
        PROVE  Handled(t)'
    <2>1. /\ req[w].task = 0 /\ UNCHANGED <<orch, queue>>
          /\ \A v \in Worker \ {w} : req'[v] = req[v]
      BY <1>2, AddsFacts
    <2> QED BY <1>0, <2>1 DEF Handled
  <1>3. ASSUME NEW w \in Worker, Drops(w)
        PROVE  \/ Handled(t)' \/ t \in lost'
               \/ task'[t].status = "ready" /\ task[t].nodes = {} /\ UNCHANGED node
    <2>1. /\ \A v \in Worker \ {w} : req'[v] = req[v]
          /\ UNCHANGED <<orch, queue>>
          /\ \/ req[w].task \in lost'
             \/ /\ task'[req[w].task].status = "ready"
                /\ task[req[w].task].nodes = {} /\ UNCHANGED node
      BY <1>3, DropsFacts
    <2> QED BY <2>1 DEF Handled
  <1>4. ASSUME NEW w \in Worker, InstallStart(w) PROVE Handled(t)'
    <2>1. \A v \in Worker : req'[v].task = req[v].task
      <3>1. TypeOK /\ Goto(w, "cast")
        BY <1>4 DEF TypeInv, InstallStart
      <3>2. /\ req'[w] = [pc |-> "cast", kind |-> req[w].kind, task |-> req[w].task]
            /\ \A v \in Worker \ {w} : req'[v] = req[v]
        BY <3>1, GotoFacts
      <3>3. req'[w].task = req[w].task
        BY <3>2
      <3> QED BY <3>2, <3>3
    <2>2. UNCHANGED <<orch, queue>>
      BY <1>4 DEF InstallStart
    <2> QED BY <2>1, <2>2 DEF Handled
  <1>5. ASSUME NEW w \in Worker, CastDump(w) \/ InstallCast(w) PROVE Handled(t)'
    BY <1>5, CastFacts DEF Handled
  <1>6. ASSUME NEW m \in orch, Begin(m) PROVE Handled(t)'
    BY <1>6, BeginFacts DEF Handled
  <1>7. ASSUME NEW m \in orch,
               Answer(m) \/ AnswerDump(m) \/ \E n \in m.nodes : Report(m, n)
        PROVE  Handled(t)'
    <2>1. PICK st \in {"none", "ready", "error"},
               ins \in SUBSET m.nodes, fl \in SUBSET m.nodes :
            /\ Send(m, st, ins, fl)
            /\ orch' = orch \/ (orch' = orch \ {m} /\ st # "none")
      BY <1>7, SaysFacts
    <2>2. /\ Len(queue) \in Nat /\ DOMAIN queue = 1 .. Len(queue)
          /\ DOMAIN queue' = 1 .. (Len(queue) + 1)
          /\ \A i \in DOMAIN queue : queue'[i] = queue[i]
          /\ queue'[Len(queue) + 1] = [task |-> m.task, status |-> st,
                                       installed |-> ins, failed |-> fl]
      <3>1. TypeOK /\ m \in Message /\ ins \in SUBSET Node /\ fl \in SUBSET Node
        BY DEF TypeInv, TypeOK, Message
      <3>2. Appended([task |-> m.task, status |-> st,
                      installed |-> ins, failed |-> fl])
        BY <2>1, <3>1, SendFacts
      <3> QED BY <3>2 DEF Appended
    <2>3. UNCHANGED req
      BY <1>7, SaysFacts
    <2>4. ASSUME NEW d \in orch, d.task = t PROVE Handled(t)'
      <3>1. CASE d \in orch'
        BY <2>4, <3>1 DEF Handled
      <3>2. CASE d \notin orch'
        <4>1. d = m /\ st # "none"
          BY <2>1, <3>2
        <4>2. /\ Len(queue) + 1 \in DOMAIN queue'
              /\ queue'[Len(queue) + 1].task = t
              /\ queue'[Len(queue) + 1].status # "none"
          BY <2>2, <2>4, <4>1
        <4> QED BY <4>2 DEF Handled
      <3> QED BY <3>1, <3>2
    <2>5. ASSUME NEW i \in DOMAIN queue, queue[i].task = t, queue[i].status # "none"
          PROVE  Handled(t)'
      <3>1. i \in DOMAIN queue' /\ queue'[i] = queue[i]
        BY <2>2
      <3> QED BY <2>5, <3>1 DEF Handled
    <2> QED BY <2>3, <2>4, <2>5 DEF Handled
  <1>8. CASE /\ Receives
             /\ queue' = queue \/ queue' = Tail(queue)
             /\ UNCHANGED <<os, seq, req, orch>>
    <2>1. CASE queue' = queue
      BY <1>8, <2>1 DEF Handled
    <2>2. CASE queue' = Tail(queue)
      <3>1. ASSUME NEW i \in DOMAIN queue, queue[i].task = t,
                   queue[i].status # "none"
            PROVE  \/ Handled(t)'
                   \/ t = Head(queue).task /\ Head(queue).status # "none"
        <4>1. TypeOK /\ queue # <<>>
          BY <1>8 DEF TypeInv, Receives
        <4>2. CASE i = 1
          BY <3>1, <4>1, <4>2, HeadFacts
        <4>3. CASE i # 1
          <5>1. i > 1 /\ i - 1 \in DOMAIN queue' /\ queue'[i - 1] = queue[i]
            BY <2>2, <4>1, <4>3, TailFacts
          <5> QED BY <3>1, <5>1 DEF Handled
        <4> QED BY <4>2, <4>3
      <3> QED BY <1>8, <3>1 DEF Handled
    <2> QED BY <1>8, <2>1, <2>2
  <1> QED BY <1>1, <1>2, <1>3, <1>4, <1>5, <1>6, <1>7, <1>8, Steps

\* A row that runs after a step ran before, or was made by it.
LEMMA RunningBefore ==
  ASSUME TypeInv, Next, NEW t \in TaskId, task'[t].status = "running"
  PROVE  task[t].status = "running" \/ Handled(t)'
  <1>0. TypeOK /\ NoTask.status # "running"
    BY DEF TypeInv, NoTask
  <1>1. ASSUME NEW w \in Worker, NEW k \in Single, Check(w, k)
        PROVE  task[t].status = "running"
    <2>1. task'[t] = task[t] \/ task'[t] = NoTask
      BY <1>0, <1>1, CheckFacts
    <2> QED BY <1>0, <2>1
  <1>2. ASSUME NEW w \in Worker, NEW ns \in SUBSET Node, Adds(w, ns)
        PROVE  task[t].status = "running" \/ Handled(t)'
    BY <1>2, AddsFacts DEF Handled
  <1>3. ASSUME NEW w \in Worker, Drops(w) PROVE task[t].status = "running"
    BY <1>3, DropsFacts
  <1>4. ASSUME NEW w \in Worker, InstallStart(w) PROVE task[t].status = "running"
    BY <1>4 DEF InstallStart
  <1>5. ASSUME NEW w \in Worker, CastDump(w) \/ InstallCast(w)
        PROVE  task[t].status = "running"
    BY <1>5, CastFacts
  <1>6. ASSUME NEW m \in orch, Begin(m) PROVE task[t].status = "running"
    BY <1>6, BeginFacts
  <1>7. ASSUME NEW m \in orch,
               Answer(m) \/ AnswerDump(m) \/ \E n \in m.nodes : Report(m, n)
        PROVE  task[t].status = "running"
    BY <1>7, SaysFacts
  <1>8. CASE Receives
    <2>1. Head(queue) \in Reply /\ Receive(Head(queue))
      BY <1>0, <1>8, HeadFacts DEF Receives
    <2> QED BY <1>0, <2>1, ReceiveFacts
  <1> QED BY <1>1, <1>2, <1>3, <1>4, <1>5, <1>6, <1>7, <1>8, Steps

\* What is lost stays lost.
LEMMA LostStays ==
  ASSUME TypeInv, Next
  PROVE  lost \subseteq lost'
  <1>0. TypeOK
    BY DEF TypeInv
  <1>1. ASSUME NEW w \in Worker, NEW k \in Single, Check(w, k)
        PROVE  lost \subseteq lost'
    BY <1>1 DEF Check
  <1>2. ASSUME NEW w \in Worker, NEW ns \in SUBSET Node, Adds(w, ns)
        PROVE  lost \subseteq lost'
    BY <1>2, AddsFacts
  <1>3. ASSUME NEW w \in Worker, Drops(w) PROVE lost \subseteq lost'
    BY <1>3, DropsFacts
  <1>4. ASSUME NEW w \in Worker, InstallStart(w) PROVE lost \subseteq lost'
    BY <1>4 DEF InstallStart
  <1>5. ASSUME NEW w \in Worker, CastDump(w) \/ InstallCast(w)
        PROVE  lost \subseteq lost'
    BY <1>5, CastFacts
  <1>6. ASSUME NEW m \in orch, Begin(m) PROVE lost \subseteq lost'
    BY <1>6, BeginFacts
  <1>7. ASSUME NEW m \in orch,
               Answer(m) \/ AnswerDump(m) \/ \E n \in m.nodes : Report(m, n)
        PROVE  lost \subseteq lost'
    BY <1>7, SaysFacts
  <1>8. CASE Receives
    <2>1. Head(queue) \in Reply /\ Receive(Head(queue))
      BY <1>0, <1>8, HeadFacts DEF Receives
    <2> QED BY <1>0, <2>1, ReceiveFacts
  <1> QED BY <1>1, <1>2, <1>3, <1>4, <1>5, <1>6, <1>7, <1>8, Steps

LEMMA RunningStep ==
  TypeInv /\ RunningIsHandled /\ [Next]_vars => RunningIsHandled'
  <1> SUFFICES ASSUME TypeInv, RunningIsHandled, [Next]_vars,
                      NEW t \in TaskId, task'[t].status = "running"
               PROVE  t \in lost' \/ Handled(t)'
    BY DEF RunningIsHandled
  <1>1. CASE UNCHANGED vars
    BY <1>1 DEF vars, RunningIsHandled, Handled
  <1>2. CASE Next
    <2>1. CASE task[t].status = "running" /\ t \in lost
      BY <1>2, <2>1, LostStays
    <2>2. CASE task[t].status = "running" /\ Handled(t)
      <3>1. CASE Receives /\ t = Head(queue).task /\ Head(queue).status # "none"
        <4>1. TypeOK
          BY DEF TypeInv
        <4>2. Head(queue) \in Reply /\ Receive(Head(queue))
          BY <3>1, <4>1, HeadFacts DEF Receives
        <4> QED BY <3>1, <4>1, <4>2, ReceiveFacts
      <3> QED BY <1>2, <2>2, <3>1, HandledStep
    <2> QED BY <1>2, <2>1, <2>2, RunningBefore DEF RunningIsHandled
  <1> QED BY <1>1, <1>2

\* "Dump already running" is true when it is said, and whatever else runs is in
\* somebody's hands, unless it is known to be lost.
THEOREM RunningAlwaysHandled == Spec => []RunningIsHandled
  <1>1. Init => RunningIsHandled
    <2> SUFFICES ASSUME Init PROVE \A t \in TaskId : task[t].status # "running"
      BY DEF RunningIsHandled
    <2> QED BY DEF Init, InitOf, NoTask
  <1> QED BY <1>1, RunningStep, TypeInvariant, PTL DEF Spec

\* The nodes of a row stay the same.
LEMMA NodesStay ==
  ASSUME TypeInv, Next, NEW t \in TaskId, task[t].nodes # {}
  PROVE  task'[t].nodes = task[t].nodes
  <1>0. TypeOK
    BY DEF TypeInv
  <1>1. ASSUME NEW w \in Worker, NEW k \in Single, Check(w, k)
        PROVE  task'[t].nodes = task[t].nodes
    BY <1>0, <1>1, CheckFacts
  <1>2. ASSUME NEW w \in Worker, NEW ns \in SUBSET Node, Adds(w, ns)
        PROVE  task'[t].nodes = task[t].nodes
    BY <1>2, AddsFacts
  <1>3. ASSUME NEW w \in Worker, Drops(w) PROVE task'[t].nodes = task[t].nodes
    BY <1>3, DropsFacts
  <1>4. ASSUME NEW w \in Worker, InstallStart(w)
        PROVE  task'[t].nodes = task[t].nodes
    BY <1>4 DEF InstallStart
  <1>5. ASSUME NEW w \in Worker, CastDump(w) \/ InstallCast(w)
        PROVE  task'[t].nodes = task[t].nodes
    BY <1>5, CastFacts
  <1>6. ASSUME NEW m \in orch, Begin(m) PROVE task'[t].nodes = task[t].nodes
    BY <1>6, BeginFacts
  <1>7. ASSUME NEW m \in orch,
               Answer(m) \/ AnswerDump(m) \/ \E n \in m.nodes : Report(m, n)
        PROVE  task'[t].nodes = task[t].nodes
    BY <1>7, SaysFacts
  <1>8. CASE Receives
    <2>1. Head(queue) \in Reply /\ Receive(Head(queue))
      BY <1>0, <1>8, HeadFacts DEF Receives
    <2> QED BY <1>0, <2>1, ReceiveFacts
  <1> QED BY <1>1, <1>2, <1>3, <1>4, <1>5, <1>6, <1>7, <1>8, Steps

\* The final reply to a task writes every node of the task.
LEMMA FinalWrites ==
  ASSUME TypeInv, Receives, Head(queue).status # "none",
         NEW n \in Node, n \in task[Head(queue).task].nodes
  PROVE  node'[n] # "provisioning"
  <1> DEFINE m == Head(queue)
  <1>1. m \in Reply /\ m = queue[1] /\ 1 \in DOMAIN queue
    BY HeadFacts DEF TypeInv, Receives
  <1>2. m.task \in TaskId /\ m.status \in {"ready", "error"}
    BY <1>1 DEF Reply, Receives
  <1>3. m.status = "ready" => n \in m.installed \/ n \in m.failed
    BY <1>1 DEF TypeInv, Replies
  <1>4. task[m.task].name = "provision"
    BY <1>2 DEF TypeInv, TypeOK
  <1>5. node' = Reported(m)
    BY <1>4 DEF Receives, Receive
  <1>6. StatusAfter(m) = m.status
    BY <1>2 DEF StatusAfter
  <1> HIDE DEF m
  <1>7. Reported(m)[n] # "provisioning"
    BY <1>2, <1>3, <1>6 DEF Reported, m
  <1> QED BY <1>5, <1>7

\* A node in provisioning after a step was so before, or its task made it so.
LEMMA ProvisioningBefore ==
  ASSUME TypeInv, Next, NEW n \in Node, node'[n] = "provisioning"
  PROVE  \/ node[n] = "provisioning"
         \/ \E t \in TaskId : n \in task[t].nodes /\ (t \in lost' \/ Handled(t)')
  <1>0. TypeOK
    BY DEF TypeInv
  <1>1. ASSUME NEW w \in Worker, NEW k \in Single, Check(w, k)
        PROVE  node[n] = "provisioning"
    BY <1>1 DEF Check
  <1>2. ASSUME NEW w \in Worker, NEW ns \in SUBSET Node, Adds(w, ns)
        PROVE  node[n] = "provisioning"
    BY <1>2, AddsFacts
  <1>3. ASSUME NEW w \in Worker, Drops(w)
        PROVE  \/ node[n] = "provisioning"
               \/ \E t \in TaskId : n \in task[t].nodes /\ t \in lost'
    BY <1>3, DropsFacts
  <1>4. ASSUME NEW w \in Worker, InstallStart(w)
        PROVE  \/ node[n] = "provisioning"
               \/ \E t \in TaskId : n \in task[t].nodes /\ Handled(t)'
    <2>1. /\ req[w].pc = "start" /\ Goto(w, "cast")
          /\ node' = [k \in Node |-> IF k \in task[req[w].task].nodes
                                     THEN "provisioning" ELSE node[k]]
      BY <1>4 DEF InstallStart, Mark
    <2>2. req'[w] = [pc |-> "cast", kind |-> req[w].kind, task |-> req[w].task]
      BY <1>0, <2>1, GotoFacts
    <2>3. req'[w].task = req[w].task
      BY <2>2
    <2>4. req[w].task \in TaskId
      BY <1>0, <2>1, BoundsAssumption
         DEF TypeInv, Requests, Active, TypeOK, TaskId
    <2>5. node[n] = "provisioning" \/ n \in task[req[w].task].nodes
      BY <2>1
    <2> QED BY <2>3, <2>4, <2>5 DEF Handled
  <1>5. ASSUME NEW w \in Worker, CastDump(w) \/ InstallCast(w)
        PROVE  node[n] = "provisioning"
    BY <1>5, CastFacts
  <1>6. ASSUME NEW m \in orch, Begin(m) PROVE node[n] = "provisioning"
    BY <1>6, BeginFacts
  <1>7. ASSUME NEW m \in orch,
               Answer(m) \/ AnswerDump(m) \/ \E k \in m.nodes : Report(m, k)
        PROVE  node[n] = "provisioning"
    BY <1>7, SaysFacts
  <1>8. CASE Receives
    <2>1. Head(queue) \in Reply /\ Receive(Head(queue))
      BY <1>0, <1>8, HeadFacts DEF Receives
    <2> QED BY <1>0, <2>1, ReceiveFacts
  <1> QED BY <1>1, <1>2, <1>3, <1>4, <1>5, <1>6, <1>7, <1>8, Steps

LEMMA ProvisioningStep ==
  TypeInv /\ ProvisioningIsHandled /\ [Next]_vars => ProvisioningIsHandled'
  <1> SUFFICES ASSUME TypeInv, ProvisioningIsHandled, [Next]_vars,
                      NEW n \in Node, node'[n] = "provisioning"
               PROVE  \E t \in TaskId :
                        n \in task'[t].nodes /\ (t \in lost' \/ Handled(t)')
    BY DEF ProvisioningIsHandled
  <1>1. CASE UNCHANGED vars
    BY <1>1 DEF vars, ProvisioningIsHandled, Handled
  <1>2. CASE Next
    <2>1. \E t \in TaskId : n \in task[t].nodes /\ (t \in lost' \/ Handled(t)')
      <3>1. CASE node[n] = "provisioning"
        <4>1. PICK t \in TaskId : n \in task[t].nodes /\ (t \in lost \/ Handled(t))
          BY <3>1 DEF ProvisioningIsHandled
        <4>2. t \in lost => t \in lost'
          BY <1>2, LostStays
        <4>3. ASSUME Handled(t) PROVE t \in lost' \/ Handled(t)'
          <5>1. ~ (Receives /\ t = Head(queue).task /\ Head(queue).status # "none")
            BY <4>1, FinalWrites
          <5> QED BY <1>2, <4>1, <4>3, <5>1, HandledStep
        <4> QED BY <4>1, <4>2, <4>3
      <3> QED BY <1>2, <3>1, ProvisioningBefore
    <2> QED BY <1>2, <2>1, NodesStay
  <1> QED BY <1>1, <1>2

\* A node in provisioning is being installed, or its task is lost.
THEOREM ProvisioningAlwaysHandled == Spec => []ProvisioningIsHandled
  <1>1. Init => ProvisioningIsHandled
    <2> SUFFICES ASSUME Init, NEW n \in Node PROVE node[n] # "provisioning"
      BY DEF ProvisioningIsHandled
    <2> QED BY DEF Init, InitOf
  <1> QED BY <1>1, ProvisioningStep, TypeInvariant, PTL DEF Spec

------------------------------------------------------------------------------
(***************************************************************************)
(* A node shown as provisioned is installed or being installed.            *)
(***************************************************************************)

\* An installation of n will be answered after the reply at place i.
Later(n, i) ==
  \/ \E m \in orch : n \in m.nodes
  \/ \E j \in DOMAIN queue : /\ j > i
                             /\ queue[j].status # "none"
                             /\ n \in task[queue[j].task].nodes

\* n has a system on it, or what is on it will be told after place i.
Sound(n, i) == os[n] = "system" \/ Later(n, i)

\* What is said of a node to be installed, in its row and in the queue, is so.
ProvisionedInv ==
  /\ \A n \in Node : node[n] = "provisioned" => Sound(n, 0)
  /\ \A i \in DOMAIN queue : \A n \in queue[i].installed : Sound(n, i)

LEMMA ProvisionedInvIsEnough ==
  TypeInv /\ ProvisionedInv => ProvisionedIsInstalled
  <1> SUFFICES ASSUME TypeInv, NEW n \in Node, Later(n, 0)
               PROVE  \E t \in TaskId : n \in task[t].nodes /\ Handled(t)
    BY DEF ProvisionedInv, Sound, ProvisionedIsInstalled
  <1>1. ASSUME NEW m \in orch, n \in m.nodes
        PROVE  m.task \in TaskId /\ n \in task[m.task].nodes /\ Handled(m.task)
    BY <1>1 DEF TypeInv, TypeOK, Message, Messages, Handled
  <1>2. ASSUME NEW j \in DOMAIN queue, queue[j].status # "none",
               n \in task[queue[j].task].nodes
        PROVE  queue[j].task \in TaskId /\ Handled(queue[j].task)
    BY <1>2, QueueType DEF TypeInv, Handled
  <1> QED BY <1>1, <1>2 DEF Later

\* Steps of requests leave what is known of a machine.
LEMMA SoundStays ==
  ASSUME TypeInv, Next, UNCHANGED <<os, queue>>, orch \subseteq orch',
         NEW n \in Node, NEW i \in Nat, Sound(n, i)
  PROVE  Sound(n, i)'
  <1>1. \A j \in DOMAIN queue :
          n \in task[queue[j].task].nodes => n \in task'[queue[j].task].nodes
    BY NodesStay, QueueType DEF TypeInv
  <1> QED BY <1>1 DEF Sound, Later

LEMMA SoundBegin ==
  ASSUME TypeInv, NEW m \in orch, Begin(m),
         NEW n \in Node, NEW i \in Nat, Sound(n, i)
  PROVE  Sound(n, i)'
  <1>1. PICK b \in orch' : b.nodes = m.nodes /\ orch' = (orch \ {m}) \cup {b}
    BY BeginFacts
  <1>2. /\ os'[n] = IF n \in m.nodes THEN "none" ELSE os[n]
        /\ UNCHANGED <<task, queue>>
    BY BeginFacts
  <1> QED BY <1>1, <1>2 DEF Sound, Later

LEMMA SoundSays ==
  ASSUME TypeInv, NEW m \in orch,
         Answer(m) \/ AnswerDump(m) \/ \E n \in m.nodes : Report(m, n)
  PROVE  /\ \A n \in Node : \A i \in 0 .. Len(queue) : Sound(n, i) => Sound(n, i)'
         /\ \A i \in DOMAIN queue' :
              \/ i \in DOMAIN queue /\ queue'[i] = queue[i] /\ i \in 0 .. Len(queue)
              \/ \A n \in queue'[i].installed : os'[n] = "system"
         /\ UNCHANGED node
  <1>1. PICK st \in {"none", "ready", "error"},
             ins \in SUBSET m.nodes, fl \in SUBSET m.nodes :
          /\ Send(m, st, ins, fl)
          /\ orch' = orch \/ (orch' = orch \ {m} /\ st # "none")
          /\ \A n \in ins : os'[n] = "system"
    BY SaysFacts
  <1>2. /\ \A n \in Node \ m.nodes : os'[n] = os[n]
        /\ orch' = orch => \A n \in Node : os[n] = "system" => os'[n] = "system"
        /\ UNCHANGED <<node, task>>
    BY SaysFacts
  <1>3. /\ Len(queue) \in Nat /\ DOMAIN queue = 1 .. Len(queue)
        /\ DOMAIN queue' = 1 .. (Len(queue) + 1)
        /\ \A i \in DOMAIN queue : queue'[i] = queue[i]
        /\ queue'[Len(queue) + 1] = [task |-> m.task, status |-> st,
                                     installed |-> ins, failed |-> fl]
    <2>1. TypeOK /\ m \in Message /\ ins \in SUBSET Node /\ fl \in SUBSET Node
      BY DEF TypeInv, TypeOK, Message
    <2>2. Appended([task |-> m.task, status |-> st,
                    installed |-> ins, failed |-> fl])
      BY <1>1, <2>1, SendFacts
    <2> QED BY <2>2 DEF Appended
  <1> DEFINE last == Len(queue) + 1
  <1>4. /\ last \in DOMAIN queue' /\ queue'[last].task = m.task
        /\ queue'[last].status = st /\ queue'[last].installed = ins
    BY <1>3
  <1>5. ASSUME NEW n \in Node, NEW i \in 0 .. Len(queue), Sound(n, i)
        PROVE  Sound(n, i)'
    <2>1. last > i
      BY <1>3
    <2>2. \A j \in DOMAIN queue : j \in DOMAIN queue' /\ queue'[j] = queue[j]
      BY <1>3
    <2>3. CASE orch' = orch
      BY <1>2, <1>5, <2>2, <2>3 DEF Sound, Later
    <2>4. CASE orch' = orch \ {m} /\ st # "none"
      <3>1. CASE n \in m.nodes
        <4>1. n \in task'[queue'[last].task].nodes
          BY <1>2, <1>4, <3>1 DEF TypeInv, Messages
        <4> QED BY <1>4, <2>1, <2>4, <4>1 DEF Sound, Later
      <3>2. CASE n \notin m.nodes
        BY <1>2, <1>5, <2>2, <2>4, <3>2 DEF Sound, Later
      <3> QED BY <3>1, <3>2
    <2> QED BY <1>1, <2>3, <2>4
  <1>6. ASSUME NEW i \in DOMAIN queue'
        PROVE  \/ i \in DOMAIN queue /\ queue'[i] = queue[i] /\ i \in 0 .. Len(queue)
               \/ \A n \in queue'[i].installed : os'[n] = "system"
    <2>1. CASE i = last
      BY <1>1, <1>4, <2>1
    <2>2. CASE i # last
      BY <1>3, <2>2
    <2> QED BY <2>1, <2>2
  <1> QED BY <1>2, <1>5, <1>6

\* A node that the reply leaves or makes provisioned: the reply names it as
\* installed, or it was so before and the reply does not end a task of it.
LEMMA ProvisionedAfter ==
  ASSUME TypeInv, Receives, NEW n \in Node, node'[n] = "provisioned"
  PROVE  \/ n \in Head(queue).installed
         \/ /\ node[n] = "provisioned"
            /\ ~ (/\ Head(queue).status # "none"
                  /\ n \in task[Head(queue).task].nodes)
  <1> DEFINE m == Head(queue)
  <1>1. m \in Reply /\ m = queue[1] /\ 1 \in DOMAIN queue
    BY HeadFacts DEF TypeInv, Receives
  <1>2. n \in m.installed \/ node[n] = "provisioned"
    BY <1>1, ReceiveFacts DEF TypeInv, Receives
  <1>3. CASE m.status # "none" /\ n \in task[m.task].nodes
    <2>1. m.task \in TaskId /\ m.status \in {"ready", "error"}
      BY <1>1, <1>3 DEF Reply
    <2>2. m.status = "ready" => n \in m.installed \/ n \in m.failed
      BY <1>1, <1>3 DEF TypeInv, Replies
    <2>3. task[m.task].name = "provision"
      BY <1>3, <2>1 DEF TypeInv, TypeOK
    <2>4. node' = Reported(m)
      BY <2>3 DEF Receives, Receive
    <2>5. StatusAfter(m) = m.status
      BY <2>1 DEF StatusAfter
    <2> HIDE DEF m
    <2>6. Reported(m)[n] = "provisioned" => n \in m.installed
      BY <1>3, <2>1, <2>2, <2>5 DEF Reported
    <2> QED BY <2>4, <2>6 DEF m
  <1> QED BY <1>2, <1>3

\* The reply at place 1 is gone: what was to come after it is still to come.
LEMMA SoundTail ==
  ASSUME TypeInv, Next, Receives, queue' = Tail(queue),
         UNCHANGED <<os, orch>>,
         NEW n \in Node, NEW i \in Nat \ {0}, Sound(n, i)
  PROVE  Sound(n, i - 1)'
  <1>1. TypeOK /\ queue # <<>>
    BY DEF TypeInv, Receives
  <1>2. ASSUME NEW j \in DOMAIN queue, j > i, queue[j].status # "none",
               n \in task[queue[j].task].nodes
        PROVE  Later(n, i - 1)'
    <2>1. j \in Nat /\ j > 1
      BY <1>1, <1>2, TailFacts
    <2>2. j - 1 \in DOMAIN queue' /\ queue'[j - 1] = queue[j] /\ j - 1 > i - 1
      BY <1>1, <1>2, <2>1, TailFacts
    <2>3. n \in task'[queue[j].task].nodes
      BY <1>1, <1>2, NodesStay, QueueType
    <2> QED BY <1>2, <2>2, <2>3 DEF Later
  <1> QED BY <1>2 DEF Sound, Later

LEMMA ProvisionedStep ==
  TypeInv /\ ProvisionedInv /\ [Next]_vars => ProvisionedInv'
  <1> SUFFICES ASSUME TypeInv, ProvisionedInv, [Next]_vars
               PROVE  ProvisionedInv'
    OBVIOUS
  <1>0. TypeOK /\ \A i \in DOMAIN queue : i \in Nat \ {0}
    BY DEF TypeInv, TypeOK
  <1>1. ASSUME Next, UNCHANGED <<os, queue>>, orch \subseteq orch',
               \A n \in Node : node'[n] = "provisioned" => node[n] = "provisioned"
        PROVE  ProvisionedInv'
    <2>1. \A i \in DOMAIN queue : queue[i].installed \subseteq Node
      BY <1>0, QueueType DEF Reply
    <2> QED BY <1>0, <1>1, <2>1, SoundStays DEF ProvisionedInv
  <1>2. ASSUME Next, NEW m \in orch, Begin(m) PROVE ProvisionedInv'
    <2>1. \A i \in DOMAIN queue : queue[i].installed \subseteq Node
      BY <1>0, QueueType DEF Reply
    <2>2. UNCHANGED <<node, queue>>
      BY <1>2, BeginFacts
    <2> QED BY <1>0, <1>2, <2>1, <2>2, SoundBegin DEF ProvisionedInv
  <1>3. ASSUME NEW m \in orch,
               Answer(m) \/ AnswerDump(m) \/ \E n \in m.nodes : Report(m, n)
        PROVE  ProvisionedInv'
    <2>1. \A i \in DOMAIN queue : queue[i].installed \subseteq Node
      BY <1>0, QueueType DEF Reply
    <2>2. 0 \in 0 .. Len(queue)
      BY <1>0 DEF TypeOK
    <2>3. /\ \A n \in Node : \A i \in 0 .. Len(queue) : Sound(n, i) => Sound(n, i)'
          /\ \A i \in DOMAIN queue' :
               \/ i \in DOMAIN queue /\ queue'[i] = queue[i] /\ i \in 0 .. Len(queue)
               \/ \A n \in queue'[i].installed : os'[n] = "system"
          /\ UNCHANGED node
      BY <1>3, SoundSays
    <2>4. \A n \in Node : node'[n] = "provisioned" => Sound(n, 0)'
      BY <2>2, <2>3 DEF ProvisionedInv
    <2>5. \A i \in DOMAIN queue' : \A n \in queue'[i].installed : Sound(n, i)'
      <3> SUFFICES ASSUME NEW i \in DOMAIN queue', NEW n \in queue'[i].installed
                   PROVE  Sound(n, i)'
        OBVIOUS
      <3>1. CASE i \in DOMAIN queue /\ queue'[i] = queue[i] /\ i \in 0 .. Len(queue)
        BY <2>1, <2>3, <3>1 DEF ProvisionedInv
      <3>2. CASE \A k \in queue'[i].installed : os'[k] = "system"
        BY <3>2 DEF Sound
      <3> QED BY <2>3, <3>1, <3>2
    <2> QED BY <2>4, <2>5 DEF ProvisionedInv
  <1>4. CASE /\ Next /\ Receives
             /\ queue' = queue \/ queue' = Tail(queue)
             /\ UNCHANGED <<os, seq, req, orch>>
    <2>1. \A i \in DOMAIN queue : queue[i].installed \subseteq Node
      BY <1>0, QueueType DEF Reply
    <2>2. /\ Head(queue) = queue[1] /\ 1 \in DOMAIN queue
      BY <1>0, <1>4, HeadFacts DEF Receives
    <2>3. ASSUME NEW n \in Node, node'[n] = "provisioned" PROVE Sound(n, 1)
                 \/ (Sound(n, 0) /\ queue' = queue)
      <3>1. CASE n \in Head(queue).installed
        BY <2>2, <3>1 DEF ProvisionedInv
      <3>2. CASE /\ node[n] = "provisioned"
                 /\ ~ (/\ Head(queue).status # "none"
                       /\ n \in task[Head(queue).task].nodes)
        <4>1. Sound(n, 0)
          BY <3>2 DEF ProvisionedInv
        <4>2. \A j \in DOMAIN queue : j # 1 => j > 1
          BY <1>0
        <4> QED BY <2>2, <3>2, <4>1, <4>2 DEF Sound, Later
      <3> QED BY <1>4, <2>3, <3>1, <3>2, ProvisionedAfter
    <2>4. CASE queue' = queue
      <3>1. \A n \in Node : \A i \in Nat : Sound(n, i) => Sound(n, i)'
        BY <1>4, <2>4, SoundStays
      <3>2. \A n \in Node : Sound(n, 1) => Sound(n, 0)
        BY <1>0 DEF Sound, Later
      <3> QED BY <1>0, <2>1, <2>3, <2>4, <3>1, <3>2 DEF ProvisionedInv
    <2>5. CASE queue' = Tail(queue)
      <3>1. \A n \in Node : \A i \in Nat \ {0} : Sound(n, i) => Sound(n, i - 1)'
        BY <1>4, <2>5, SoundTail
      <3>2. queue' # queue
        <4>1. /\ Len(queue) \in Nat \ {0} /\ DOMAIN queue = 1 .. Len(queue)
              /\ DOMAIN queue' = 1 .. (Len(queue) - 1)
          BY <1>0, <1>4, <2>5, TailFacts DEF Receives
        <4>2. Len(queue) \in DOMAIN queue /\ Len(queue) \notin DOMAIN queue'
          BY <4>1
        <4> QED BY <4>2
      <3>3. \A n \in Node : node'[n] = "provisioned" => Sound(n, 0)'
        <4>1. ASSUME NEW n \in Node, Sound(n, 1) PROVE Sound(n, 0)'
          <5>1. Sound(n, 1 - 1)' /\ 1 - 1 = 0
            BY <3>1, <4>1
          <5> QED BY <5>1
        <4> QED BY <2>3, <3>2, <4>1
      <3>4. \A i \in DOMAIN queue' : \A n \in queue'[i].installed : Sound(n, i)'
        <4> SUFFICES ASSUME NEW i \in DOMAIN queue', NEW n \in queue'[i].installed
                     PROVE  Sound(n, i)'
          OBVIOUS
        <4>1. /\ i \in Nat /\ i + 1 \in DOMAIN queue
              /\ queue'[i] = queue[i + 1]
          BY <1>0, <1>4, <2>5, TailFacts DEF Receives
        <4>2. n \in Node /\ Sound(n, i + 1)
          BY <2>1, <4>1 DEF ProvisionedInv
        <4>3. Sound(n, (i + 1) - 1)' /\ (i + 1) - 1 = i
          BY <3>1, <4>1, <4>2
        <4> QED BY <4>3
      <3> QED BY <3>3, <3>4 DEF ProvisionedInv
    <2> QED BY <1>4, <2>4, <2>5
  <1>5. CASE UNCHANGED vars
    BY <1>5 DEF vars, ProvisionedInv, Sound, Later
  <1>6. ASSUME Next, NEW w \in Worker, NEW k \in Single, Check(w, k)
        PROVE  ProvisionedInv'
    <2>1. UNCHANGED <<node, os, orch, queue>>
      BY <1>6 DEF Check
    <2> QED BY <1>1, <1>6, <2>1
  <1>7. ASSUME Next, NEW w \in Worker, NEW ns \in SUBSET Node, Adds(w, ns)
        PROVE  ProvisionedInv'
    <2>1. UNCHANGED <<node, os, orch, queue>>
      BY <1>7, AddsFacts
    <2> QED BY <1>1, <1>7, <2>1
  <1>8. ASSUME Next, NEW w \in Worker, Drops(w) PROVE ProvisionedInv'
    BY <1>1, <1>8, DropsFacts
  <1>9. ASSUME Next, NEW w \in Worker, InstallStart(w) PROVE ProvisionedInv'
    <2>1. UNCHANGED <<os, orch, queue>>
      BY <1>9 DEF InstallStart
    <2>2. \A n \in Node : node'[n] = "provisioned" => node[n] = "provisioned"
      BY <1>9 DEF InstallStart, Mark
    <2> QED BY <1>1, <1>9, <2>1, <2>2
  <1>10. ASSUME Next, NEW w \in Worker, CastDump(w) \/ InstallCast(w)
         PROVE  ProvisionedInv'
    <2>1. orch \subseteq orch' /\ UNCHANGED <<node, os, queue>>
      BY <1>10, CastFacts
    <2> QED BY <1>1, <1>10, <2>1
  <1> QED BY <1>2, <1>3, <1>4, <1>5, <1>6, <1>7, <1>8, <1>9, <1>10, Steps

\* A node shown as provisioned has a system on it, unless an installation that
\* names it is still under way.
THEOREM ProvisionedAlwaysInstalled == Spec => []ProvisionedIsInstalled
  <1>1. Init => ProvisionedInv
    <2> SUFFICES ASSUME Init PROVE ProvisionedInv
      OBVIOUS
    <2>1. os = [n \in Node |-> "system"] /\ queue = <<>>
      BY DEF Init, InitOf
    <2> QED BY <2>1 DEF ProvisionedInv, Sound
  <1>2. Spec => []ProvisionedInv
    BY <1>1, ProvisionedStep, TypeInvariant, PTL DEF Spec
  <1> QED BY <1>2, TypeInvariant, ProvisionedInvIsEnough, PTL

------------------------------------------------------------------------------
(***************************************************************************)
(* Requests served one at a time.                                          *)
(***************************************************************************)

\* No two tasks of a kind run, and none does when a row of the kind is made.
AloneInv ==
  Alone =>
    /\ \A k \in Single : \A t, u \in Named(k, {"running"}) : t = u
    /\ \A w \in Worker :
         req[w].pc = "create" => Named(req[w].kind, {"running"}) = {}

\* A row of those kinds runs if it did, or a request makes it.
LEMMA SingleBefore ==
  ASSUME TypeInv, [Next]_vars, NEW k \in Single, NEW t \in Named(k, {"running"})'
  PROVE  \/ t \in Named(k, {"running"})
         \/ \E w \in Worker : Create(w) /\ req[w].kind = k /\ t = seq + 1
  <1>0. /\ TypeOK /\ t \in TaskId /\ task'[t].name = k /\ task'[t].status = "running"
        /\ NoTask.status # "running" /\ k # "provision"
    BY DEF TypeInv, Named, NoTask, Single
  <1> SUFFICES ASSUME task[t].name # k \/ task[t].status # "running",
                      ~ \E w \in Worker : Create(w) /\ req[w].kind = k /\ t = seq + 1
               PROVE  FALSE
    BY <1>0 DEF Named
  <1>1. ASSUME NEW w \in Worker, NEW j \in Single, Check(w, j) PROVE FALSE
    <2>1. task'[t] = task[t] \/ task'[t] = NoTask
      BY <1>0, <1>1, CheckFacts
    <2> QED BY <1>0, <2>1
  <1>2. ASSUME NEW w \in Worker, NEW ns \in SUBSET Node, NEW j \in Kinds,
               NEW pc \in {"execute", "start"}, Creates(w, j, ns, pc)
        PROVE  t = seq + 1 /\ j = k
    <2>1. /\ task'[seq + 1] = [name |-> j, nodes |-> ns, status |-> "running"]
          /\ \A u \in TaskId \ {seq + 1} : task'[u] = task[u]
      BY <1>0, <1>2, CreatesFacts, ZenonT(60)
    <2> QED BY <1>0, <2>1
  <1>3. ASSUME NEW w \in Worker, NEW ns \in SUBSET Node, Install(w, ns) PROVE FALSE
    BY <1>0, <1>2, <1>3 DEF Install, Kinds
  <1>4. ASSUME NEW w \in Worker, Create(w) PROVE FALSE
    <2>1. req[w].kind \in Kinds /\ {} \in SUBSET Node
      BY <1>4 DEF Create, TypeInv, Requests, Kinds
    <2>2. Creates(w, req[w].kind, {}, "execute")
      BY <1>4 DEF Create
    <2>3. t = seq + 1 /\ req[w].kind = k
      BY <1>2, <2>1, <2>2
    <2> QED BY <1>4, <2>3
  <1>5. ASSUME NEW w \in Worker, Drops(w) PROVE FALSE
    <2>1. CASE WriteLog(w) \/ InstallStartFails(w)
      <3>1. PICK r \in TaskId : r = req[w].task
        BY <1>5, DropsFacts
      <3>2. task[r] \in Row
        BY <1>0, <1>5, <3>1, DropsFacts, RowOrNone DEF TypeInv, Own
      <3>3. PICK st \in {"ready", "error"} : task' = [task EXCEPT ![r].status = st]
        BY <2>1, <3>1 DEF WriteLog, InstallStartFails
      <3>4. /\ task'[r].status = st
            /\ \A u \in TaskId \ {r} : task'[u] = task[u]
        BY <1>0, <3>2, <3>3, StatusFacts
      <3> QED BY <1>0, <3>4
    <2>2. CASE ExecuteFails(w) \/ Crash(w)
      BY <1>0, <2>2 DEF ExecuteFails, Crash
    <2> QED BY <1>5, <2>1, <2>2 DEF Drops
  <1>6. ASSUME NEW w \in Worker, InstallStart(w) \/ CastDump(w) \/ InstallCast(w)
        PROVE  FALSE
    BY <1>0, <1>6 DEF InstallStart, CastDump, InstallCast
  <1>7. ASSUME NEW m \in orch,
               \/ Begin(m) \/ Answer(m) \/ AnswerDump(m)
               \/ \E n \in m.nodes : Report(m, n)
        PROVE  FALSE
    BY <1>0, <1>7 DEF Begin, Answer, AnswerDump, Report
  <1>8. ASSUME Receives PROVE FALSE
    <2>1. Head(queue) \in Reply /\ Receive(Head(queue))
      BY <1>0, <1>8, HeadFacts DEF Receives
    <2>2. /\ task'[t].name = task[t].name
          /\ task'[t].status = "running" => task[t].status = "running"
      BY <1>0, <2>1, ReceiveFacts
    <2> QED BY <1>0, <2>2
  <1>9. CASE UNCHANGED vars
    BY <1>0, <1>9 DEF vars
  <1>10. CASE Next
    BY <1>1, <1>3, <1>4, <1>5, <1>6, <1>7, <1>8, <1>10
       DEF Next, Continue, Work, Drops, Receives, Consume, ConsumeUnacknowledged
  <1> QED BY <1>9, <1>10

\* A request is told to make a row only after it saw that none runs, and is off
\* only if it was.
LEMMA RequestStays ==
  ASSUME TypeInv, [Next]_vars, NEW v \in Worker
  PROVE  /\ req'[v].pc = "off" => req[v].pc = "off"
         /\ \/ req'[v] = req[v]
            \/ req'[v].pc # "create" /\ req[v].pc # "off"
            \/ /\ req'[v].pc = "create" /\ Named(req'[v].kind, {"running"}) = {}
               /\ req[v].pc # "off"
  <1>0. TypeOK /\ req \in [Worker -> Requested]
    BY DEF TypeInv, TypeOK, Requested
  <1> DEFINE Fine == /\ req'[v].pc = "off" => req[v].pc = "off"
                     /\ \/ req'[v] = req[v]
                        \/ req'[v].pc # "create" /\ req[v].pc # "off"
                        \/ /\ req'[v].pc = "create" /\ req[v].pc # "off"
                           /\ Named(req'[v].kind, {"running"}) = {}
  <1>1. ASSUME NEW w \in Worker, NEW j \in Single, Check(w, j) PROVE Fine
    <2>1. CASE req' = req
      BY <2>1
    <2>2. CASE req' # req
      <3>1. Running(j) = {} /\ req[w].pc = "idle"
        BY <1>1, <2>2 DEF Check
      <3>2. /\ req'[w] = [pc |-> "create", kind |-> j, task |-> 0]
            /\ \A u \in Worker \ {w} : req'[u] = req[u]
        BY <1>0, <1>1, <2>2, CheckFacts
      <3> QED BY <3>1, <3>2 DEF Running
    <2> QED BY <2>1, <2>2
  <1>2. ASSUME NEW w \in Worker, NEW ns \in SUBSET Node, Adds(w, ns), req[w].pc # "off"
        PROVE  Fine
    <2>1. PICK j \in Kinds, pc \in {"execute", "start"} : Creates(w, j, ns, pc)
      BY <1>2 DEF Adds
    <2>2. /\ req'[w] = [pc |-> pc, kind |-> j, task |-> seq + 1]
          /\ \A u \in Worker \ {w} : req'[u] = req[u]
      BY <1>0, <2>1, CreatesFacts, ZenonT(60)
    <2> QED BY <1>2, <2>2
  <1>3. ASSUME NEW w \in Worker, Ends(w), Active(w) PROVE Fine
    BY <1>0, <1>3, EndsFacts DEF Active
  <1>4. ASSUME NEW w \in Worker, Goto(w, "cast"), Active(w) PROVE Fine
    <2>1. /\ req'[w] = [pc |-> "cast", kind |-> req[w].kind, task |-> req[w].task]
          /\ \A u \in Worker \ {w} : req'[u] = req[u]
      BY <1>0, <1>4, GotoFacts
    <2>2. req[w].pc # "off"
      BY <1>4 DEF Active
    <2> QED BY <2>1, <2>2
  <1>5. CASE req' = req
    BY <1>5
  <1>6. ASSUME NEW w \in Worker, NEW ns \in SUBSET Node, Install(w, ns) PROVE Fine
    <2>1. "provision" \in Kinds /\ req[w].pc # "off"
      BY <1>6 DEF Kinds, Install
    <2> QED BY <1>2, <1>6, <2>1 DEF Install, Adds, Active
  <1>7. ASSUME NEW w \in Worker, Create(w) PROVE Fine
    <2>1. req[w].kind \in Kinds /\ {} \in SUBSET Node /\ req[w].pc # "off"
      BY <1>7 DEF Create, TypeInv, Requests, Kinds
    <2> QED BY <1>2, <1>7, <2>1 DEF Create, Adds, Active
  <1>8. ASSUME NEW w \in Worker, Drops(w) \/ CastDump(w) \/ InstallCast(w) PROVE Fine
    BY <1>3, <1>8 DEF Drops, Active, WriteLog, ExecuteFails, InstallStartFails, Crash,
                      CastDump, InstallCast
  <1>9. ASSUME NEW w \in Worker, InstallStart(w) PROVE Fine
    BY <1>4, <1>9 DEF InstallStart, Active
  <1>10. ASSUME NEW m \in orch,
                \/ Begin(m) \/ Answer(m) \/ AnswerDump(m)
                \/ \E n \in m.nodes : Report(m, n)
         PROVE  req' = req
    BY <1>10 DEF Begin, Answer, AnswerDump, Report
  <1>11. ASSUME Consume \/ ConsumeUnacknowledged \/ UNCHANGED vars PROVE req' = req
    BY <1>11 DEF Consume, ConsumeUnacknowledged, vars
  <1>12. Fine
    BY <1>1, <1>5, <1>6, <1>7, <1>8, <1>9, <1>10, <1>11
       DEF Next, Continue, Work, Drops
  <1> QED BY <1>12

LEMMA AloneStep ==
  ASSUME TypeInv, AloneInv, [Next]_vars
  PROVE  AloneInv'
  <1> SUFFICES ASSUME Alone'
               PROVE  /\ \A k \in Single : \A t, u \in Named(k, {"running"})' : t = u
                      /\ \A w \in Worker : req'[w].pc = "create" =>
                           \A t \in TaskId : ~ (/\ task'[t].name = req'[w].kind
                                               /\ task'[t].status = "running")
    BY DEF AloneInv, Named
  <1>1. PICK w \in Worker : \A v \in Worker \ {w} : req[v].pc = "off"
    BY RequestStays DEF Alone
  <1>2. /\ \A k \in Single : \A t, u \in Named(k, {"running"}) : t = u
        /\ \A v \in Worker :
             req[v].pc = "create" => Named(req[v].kind, {"running"}) = {}
    BY <1>1 DEF AloneInv, Alone
  <1>3. ASSUME NEW v \in Worker, Create(v) PROVE req[v].pc = "create" /\ v = w
    BY <1>1, <1>3 DEF Create
  <1>4. ASSUME NEW k \in Single, NEW t \in Named(k, {"running"})',
               NEW u \in Named(k, {"running"})'
        PROVE  t = u
    <2>1. /\ \/ t \in Named(k, {"running"})
             \/ Create(w) /\ req[w].kind = k /\ t = seq + 1
          /\ \/ u \in Named(k, {"running"})
             \/ Create(w) /\ req[w].kind = k /\ u = seq + 1
      BY <1>3, <1>4, SingleBefore
    <2>2. Create(w) /\ req[w].kind = k => Named(k, {"running"}) = {}
      BY <1>2, <1>3
    <2> QED BY <1>2, <2>1, <2>2
  <1>5. ASSUME NEW v \in Worker, req'[v].pc = "create"
        PROVE  \A t \in TaskId : ~ (/\ task'[t].name = req'[v].kind
                                   /\ task'[t].status = "running")
    <2>1. PICK k \in Single : k = req'[v].kind
      BY <1>5, NextTypeInv DEF TypeInv, Requests
    <2>2. Named(k, {"running"}) = {}
      BY <1>2, <1>5, <2>1, RequestStays
    <2>3. ~ Create(v)
      <3> SUFFICES ASSUME Create(v) PROVE FALSE
        OBVIOUS
      <3>1. Creates(v, req[v].kind, {}, "execute") /\ req[v].kind \in Kinds
        BY DEF Create, TypeInv, Requests, Kinds
      <3>2. req'[v].pc = "execute"
        BY <3>1 DEF Creates, TypeInv, TypeOK
      <3> QED BY <1>5, <3>2
    <2>4. req'[v].pc # "off" /\ v = w
      BY <1>1, <1>5, RequestStays
    <2>5. \A t \in Named(k, {"running"})' : FALSE
      BY <1>3, <2>2, <2>3, <2>4, SingleBefore
    <2> QED BY <2>1, <2>5 DEF Named
  <1> QED BY <1>4, <1>5

\* Requests that one worker serves never have two snapshots, or two capacity
\* logs, made at once (check_running_task), whatever fails on the way.
THEOREM OneAtATimeAlways == MCSpec => []OneAtATimeInTurn
  <1>1. MCInit => TypeInv /\ AloneInv
    <2> SUFFICES ASSUME MCInit PROVE TypeInv /\ AloneInv
      OBVIOUS
    <2>1. TypeInv
      BY InitTypeInv DEF MCInit
    <2>2. \A t \in TaskId : task[t].status # "running"
      BY DEF MCInit, InitOf, NoTask
    <2> QED BY <2>1, <2>2 DEF AloneInv, Named, MCInit, InitOf, Idle, Off
  <1>2. TypeInv /\ AloneInv /\ [Next]_vars => (TypeInv /\ AloneInv)'
    BY NextTypeInv, AloneStep
  <1>3. AloneInv => OneAtATimeInTurn
    <2> SUFFICES ASSUME AloneInv, Alone, NEW k \in Single
                 PROVE  Cardinality(Named(k, {"running"})) <= 1
      BY DEF OneAtATimeInTurn, OneAtATime
    <2>1. \A t, u \in Named(k, {"running"}) : t = u
      BY DEF AloneInv
    <2>2. CASE Named(k, {"running"}) = {}
      BY <2>2, FS_EmptySet
    <2>3. CASE Named(k, {"running"}) # {}
      <3>1. PICK t \in Named(k, {"running"}) : TRUE
        BY <2>3
      <3>2. Named(k, {"running"}) = {t}
        BY <2>1, <3>1
      <3>3. Cardinality({t}) = 1
        BY FS_Singleton
      <3> QED BY <3>2, <3>3
    <2> QED BY <2>2, <2>3
  <1> QED BY <1>1, <1>2, <1>3, PTL DEF MCSpec

==============================================================================
