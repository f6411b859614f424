--------------------------- MODULE LockOrder_proofs ---------------------------
(***************************************************************************)
(* Theorems about LockOrder, for any number of tasks, nodes and threads:   *)
(* the kinds of transactions below never wait in a circle, and no query of *)
(* theirs is refused by the detector.                                      *)
(*                                                                         *)
(* The first of the two rests on a thread never asking for a row below one *)
(* that it holds; the thread that asks for the highest row of those waited *)
(* for then waits for a thread that asks for nothing.                      *)
(***************************************************************************)
EXTENDS LockOrder, WellFoundedInduction, TLAPS

LEMMA StrengthType == \A op : Strength(op) \in 1 .. 3
BY DEF Strength

\* The kinds of transactions that lock rows in one order.
InOrderKinds ==
  {"apply_delete", "provision_message", "apply_keep", "apply_start",
   "apply_cluster", "stop", "stop_fails", "delete", "erase", "deploy_resp",
   "remove_nodes_resp", "stop_resp", "reset_resp"}

InOrderPrograms ==
  {ApplyCluster, Stop, StopFails, ClusterDeletion}
    \cup {ApplyDelete(S) : S \in NodeSets}
    \cup {ProvisionMessage(x, S) : x \in Subtasks, S \in NodeSets}
    \cup {ApplyKeepMessage(x) : x \in Subtasks}
    \cup {ApplyStart(S) : S \in NodeSets} \cup {Erase(S) : S \in NodeSets}
    \cup {DeployResp(S) : S \in NodeSets}
    \cup {RemoveNodesResp(x, S) : x \in Subtasks, S \in NodeSets}
    \cup {StopResp(S) : S \in NodeSets} \cup {ResetResp(S) : S \in NodeSets}

Rank == [t \in {"tasks", "clusters", "nodes"} |->
           CASE t = "tasks" -> 1 [] t = "clusters" -> 2 [] t = "nodes" -> 3]

\* Row r of step j is one of an earlier step that takes it as strongly, or above
\* all rows of earlier steps.
InPlace(prog, j, r) ==
  \/ \E i \in 1 .. j - 1 :
       r \in prog[i].rows /\ Strength(prog[j].op) <= Strength(prog[i].op)
  \/ \A i \in 1 .. j - 1 : \A s \in prog[i].rows : s < r

\* A program that takes rows in order, and tables in the detector's.
Ordered(prog) ==
  /\ Len(prog) \in Nat /\ Len(prog) >= 1
  /\ \A j \in 1 .. Len(prog) :
       /\ prog[j].op \in {"lock", "write", "insert"}
       /\ prog[j].rows \subseteq Row
       /\ \A r \in prog[j].rows : InPlace(prog, j, r)
  /\ \A j \in 1 .. Len(prog) - 1 :
       prog[j].op = "lock" /\ prog[j + 1].op = "lock"
         => Rank[Table(prog[j].rows)] <= Rank[Table(prog[j + 1].rows)]

------------------------------------------------------------------------------
LEMMA RowsTyped ==
  /\ Tasks \subseteq Row /\ Cluster \in Row /\ Nodes \subseteq Row
  /\ Deploy \in Tasks /\ Asked \in Tasks /\ Subtasks \subseteq Tasks
  /\ \A t \in Tasks : t < Cluster /\ \A n \in Nodes : t < n
  /\ \A n \in Nodes : Cluster < n
BY SizeAssumption DEF Tasks, Cluster, Nodes, Row, Deploy, Asked, Subtasks

\* The tables of the sets of rows that are locked.
LEMMA TableOf ==
  /\ \A R \in SUBSET Tasks : R # {} => Table(R) = "tasks"
  /\ Table({Cluster}) = "clusters"
  /\ \A S \in SUBSET Nodes : Table(S) = "nodes"
  /\ \A R : Table(R) \in {"tasks", "clusters", "nodes"}
<1>1. ASSUME NEW R \in SUBSET Tasks, R # {}
      PROVE  ~ (R \subseteq Nodes) /\ R # {Cluster}
  <2>1. PICK r \in R : r \in Tasks
    BY <1>1
  <2>2. r \notin Nodes /\ r # Cluster
    BY <2>1, SizeAssumption DEF Tasks, Cluster, Nodes
  <2> QED
    BY <2>1, <2>2
<1>2. ~ ({Cluster} \subseteq Nodes)
  BY RowsTyped, SizeAssumption DEF Cluster, Nodes
<1> QED
  BY <1>1, <1>2 DEF Table

LEMMA Ranks ==
  /\ Rank["tasks"] = 1 /\ Rank["clusters"] = 2 /\ Rank["nodes"] = 3
  /\ \A t, u \in {"tasks", "clusters", "nodes"} :
       /\ Rank[t] \in 1 .. 3
       /\ Rank[t] < Rank[u] <=> <<t, u>> \in Allowed
       /\ Rank[t] = Rank[u] <=> t = u
<1>1. Rank["tasks"] = 1 /\ Rank["clusters"] = 2 /\ Rank["nodes"] = 3
  BY DEF Rank
<1>2. ASSUME NEW t \in {"tasks", "clusters", "nodes"},
             NEW u \in {"tasks", "clusters", "nodes"}
      PROVE  /\ Rank[t] \in 1 .. 3
             /\ Rank[t] < Rank[u] <=> <<t, u>> \in Allowed
             /\ Rank[t] = Rank[u] <=> t = u
  BY <1>1 DEF Allowed
<1> QED
  BY <1>1, <1>2

LEMMA StopOrdered ==
  Ordered(Stop)
<1> DEFINE prog == Stop
<1>1. /\ Len(prog) = 3 /\ prog[1] = Lock(Subtasks \cup {Asked})
      /\ prog[2] = Write({Asked}) /\ prog[3] = Insert({Cluster})
  BY DEF Stop
<1> HIDE DEF prog
<1>2. \A j \in 1 .. 3 : j = 1 \/ j = 2 \/ j = 3
  OBVIOUS
<1>3. ASSUME NEW j \in 1 .. 3
      PROVE  /\ prog[j].op \in {"lock", "write", "insert"}
             /\ prog[j].rows \subseteq Row
             /\ \A r \in prog[j].rows : InPlace(prog, j, r)
  BY <1>1, <1>2, RowsTyped DEF InPlace, Lock, Write, Insert, Strength
<1>4. Ordered(prog)
  BY <1>1, <1>3, TableOf, Ranks, RowsTyped DEF Ordered, Lock, Write, Insert
<1> QED
  BY <1>4 DEF prog

LEMMA StopFailsOrdered ==
  Ordered(StopFails)
<1> DEFINE prog == StopFails
<1>1. /\ Len(prog) = 2 /\ prog[1] = Write({Asked}) /\ prog[2] = Write({Cluster})
  BY DEF StopFails
<1> HIDE DEF prog
<1>2. \A j \in 1 .. 2 : j = 1 \/ j = 2
  OBVIOUS
<1>3. ASSUME NEW j \in 1 .. 2
      PROVE  /\ prog[j].op \in {"lock", "write", "insert"}
             /\ prog[j].rows \subseteq Row
             /\ \A r \in prog[j].rows : InPlace(prog, j, r)
  BY <1>1, <1>2, RowsTyped DEF InPlace, Write, Strength
<1>4. Ordered(prog)
  BY <1>1, <1>3, TableOf, Ranks, RowsTyped DEF Ordered, Write
<1> QED
  BY <1>4 DEF prog

LEMMA ApplyDeleteOrdered ==
  ASSUME NEW S \in NodeSets PROVE Ordered(ApplyDelete(S))
<1> DEFINE prog == ApplyDelete(S)
<1>1. /\ Len(prog) = 4 /\ prog[1] = Lock(Tasks) /\ prog[2] = Insert({Cluster})
      /\ prog[3] = Lock(S) /\ prog[4] = Write(S)
  BY DEF ApplyDelete
<1> HIDE DEF prog
<1>2. \A j \in 1 .. 4 : j = 1 \/ j = 2 \/ j = 3 \/ j = 4
  OBVIOUS
<1>3. ASSUME NEW j \in 1 .. 4
      PROVE  /\ prog[j].op \in {"lock", "write", "insert"}
             /\ prog[j].rows \subseteq Row
             /\ \A r \in prog[j].rows : InPlace(prog, j, r)
  BY <1>1, <1>2, RowsTyped DEF InPlace, Lock, Write, Insert, Strength, NodeSets
<1>4. Ordered(prog)
  BY <1>1, <1>3, TableOf, Ranks, RowsTyped DEF Ordered, Lock, Write, Insert, NodeSets
<1> QED
  BY <1>4 DEF prog

LEMMA ProvisionMessageOrdered ==
  ASSUME NEW x \in Subtasks, NEW S \in NodeSets PROVE Ordered(ProvisionMessage(x, S))
<1> DEFINE prog == ProvisionMessage(x, S)
<1>1. /\ Len(prog) = 3 /\ prog[1] = Lock({x}) /\ prog[2] = Lock(S)
      /\ prog[3] = Write({x} \cup S)
  BY DEF ProvisionMessage
<1> HIDE DEF prog
<1>2. \A j \in 1 .. 3 : j = 1 \/ j = 2 \/ j = 3
  OBVIOUS
<1>3. ASSUME NEW j \in 1 .. 3
      PROVE  /\ prog[j].op \in {"lock", "write", "insert"}
             /\ prog[j].rows \subseteq Row
             /\ \A r \in prog[j].rows : InPlace(prog, j, r)
  BY <1>1, <1>2, RowsTyped DEF InPlace, Lock, Write, Strength, NodeSets
<1>4. Ordered(prog)
  BY <1>1, <1>3, TableOf, Ranks, RowsTyped DEF Ordered, Lock, Write, NodeSets
<1> QED
  BY <1>4 DEF prog

LEMMA ApplyKeepMessageOrdered ==
  ASSUME NEW x \in Subtasks PROVE Ordered(ApplyKeepMessage(x))
<1> DEFINE prog == ApplyKeepMessage(x)
<1>1. /\ Len(prog) = 2 /\ prog[1] = Lock({x}) /\ prog[2] = Write({x})
  BY DEF ApplyKeepMessage
<1> HIDE DEF prog
<1>2. \A j \in 1 .. 2 : j = 1 \/ j = 2
  OBVIOUS
<1>3. ASSUME NEW j \in 1 .. 2
      PROVE  /\ prog[j].op \in {"lock", "write", "insert"}
             /\ prog[j].rows \subseteq Row
             /\ \A r \in prog[j].rows : InPlace(prog, j, r)
  BY <1>1, <1>2, RowsTyped DEF InPlace, Lock, Write, Strength
<1>4. Ordered(prog)
  BY <1>1, <1>3, TableOf, Ranks, RowsTyped DEF Ordered, Lock, Write
<1> QED
  BY <1>4 DEF prog

LEMMA ApplyStartOrdered ==
  ASSUME NEW S \in NodeSets PROVE Ordered(ApplyStart(S))
<1> DEFINE prog == ApplyStart(S)
<1>1. /\ Len(prog) = 2 /\ prog[1] = Lock(S) /\ prog[2] = Write(S)
  BY DEF ApplyStart
<1> HIDE DEF prog
<1>2. \A j \in 1 .. 2 : j = 1 \/ j = 2
  OBVIOUS
<1>3. ASSUME NEW j \in 1 .. 2
      PROVE  /\ prog[j].op \in {"lock", "write", "insert"}
             /\ prog[j].rows \subseteq Row
             /\ \A r \in prog[j].rows : InPlace(prog, j, r)
  BY <1>1, <1>2, RowsTyped DEF InPlace, Lock, Write, Strength, NodeSets
<1>4. Ordered(prog)
  BY <1>1, <1>3, TableOf, Ranks, RowsTyped DEF Ordered, Lock, Write, NodeSets
<1> QED
  BY <1>4 DEF prog

LEMMA ApplyClusterOrdered ==
  Ordered(ApplyCluster)
<1> DEFINE prog == ApplyCluster
<1>1. /\ Len(prog) = 2 /\ prog[1] = Lock({Cluster})
      /\ prog[2] = Write({Cluster})
  BY DEF ApplyCluster
<1> HIDE DEF prog
<1>2. \A j \in 1 .. 2 : j = 1 \/ j = 2
  OBVIOUS
<1>3. ASSUME NEW j \in 1 .. 2
      PROVE  /\ prog[j].op \in {"lock", "write", "insert"}
             /\ prog[j].rows \subseteq Row
             /\ \A r \in prog[j].rows : InPlace(prog, j, r)
  BY <1>1, <1>2, RowsTyped DEF InPlace, Lock, Write, Strength
<1>4. Ordered(prog)
  BY <1>1, <1>3, TableOf, Ranks, RowsTyped DEF Ordered, Lock, Write
<1> QED
  BY <1>4 DEF prog

LEMMA EraseOrdered ==
  ASSUME NEW S \in NodeSets PROVE Ordered(Erase(S))
<1> DEFINE prog == Erase(S)
<1>1. /\ Len(prog) = 2 /\ prog[1] = Lock(S) /\ prog[2] = Write(S)
  BY DEF Erase
<1> HIDE DEF prog
<1>2. \A j \in 1 .. 2 : j = 1 \/ j = 2
  OBVIOUS
<1>3. ASSUME NEW j \in 1 .. 2
      PROVE  /\ prog[j].op \in {"lock", "write", "insert"}
             /\ prog[j].rows \subseteq Row
             /\ \A r \in prog[j].rows : InPlace(prog, j, r)
  BY <1>1, <1>2, RowsTyped DEF InPlace, Lock, Write, Strength, NodeSets
<1>4. Ordered(prog)
  BY <1>1, <1>3, TableOf, Ranks, RowsTyped DEF Ordered, Lock, Write, NodeSets
<1> QED
  BY <1>4 DEF prog

LEMMA ClusterDeletionOrdered ==
  Ordered(ClusterDeletion)
<1> DEFINE prog == ClusterDeletion
<1>1. /\ Len(prog) = 6 /\ prog[1] = Lock(Tasks)
      /\ prog[2] = Lock({Cluster}) /\ prog[3] = Lock(Nodes)
      /\ prog[4] = Write(Tasks) /\ prog[5] = Write(Nodes)
      /\ prog[6] = Write({Cluster})
  BY DEF ClusterDeletion
<1> HIDE DEF prog
<1>2. \A j \in 1 .. 6 : j = 1 \/ j = 2 \/ j = 3 \/ j = 4 \/ j = 5 \/ j = 6
  OBVIOUS
<1>3. ASSUME NEW j \in 1 .. 6
      PROVE  /\ prog[j].op \in {"lock", "write", "insert"}
             /\ prog[j].rows \subseteq Row
             /\ \A r \in prog[j].rows : InPlace(prog, j, r)
  BY <1>1, <1>2, RowsTyped DEF InPlace, Lock, Write, Strength
<1>4. Ordered(prog)
  BY <1>1, <1>3, TableOf, Ranks, RowsTyped DEF Ordered, Lock, Write
<1> QED
  BY <1>4 DEF prog

LEMMA DeployRespOrdered ==
  ASSUME NEW S \in NodeSets PROVE Ordered(DeployResp(S))
<1> DEFINE prog == DeployResp(S)
<1>1. /\ Len(prog) = 6 /\ prog[1] = Lock(Tasks)
      /\ prog[2] = Lock({Cluster}) /\ prog[3] = Lock(S)
      /\ prog[4] = Write(S) /\ prog[5] = Write(Tasks)
      /\ prog[6] = Write({Cluster})
  BY DEF DeployResp
<1> HIDE DEF prog
<1>2. \A j \in 1 .. 6 : j = 1 \/ j = 2 \/ j = 3 \/ j = 4 \/ j = 5 \/ j = 6
  OBVIOUS
<1>3. ASSUME NEW j \in 1 .. 6
      PROVE  /\ prog[j].op \in {"lock", "write", "insert"}
             /\ prog[j].rows \subseteq Row
             /\ \A r \in prog[j].rows : InPlace(prog, j, r)
  BY <1>1, <1>2, RowsTyped DEF InPlace, Lock, Write, Strength, NodeSets
<1>4. Ordered(prog)
  BY <1>1, <1>3, TableOf, Ranks, RowsTyped DEF Ordered, Lock, Write, NodeSets
<1> QED
  BY <1>4 DEF prog

LEMMA RemoveNodesRespOrdered ==
  ASSUME NEW x \in Subtasks, NEW S \in NodeSets PROVE Ordered(RemoveNodesResp(x, S))
<1> DEFINE prog == RemoveNodesResp(x, S)
<1>1. /\ Len(prog) = 7 /\ prog[1] = Lock(Tasks) /\ prog[2] = Lock({x})
      /\ prog[3] = Lock({Cluster}) /\ prog[4] = Lock(S)
      /\ prog[5] = Write(S) /\ prog[6] = Write(Tasks)
      /\ prog[7] = Write({Cluster})
  BY DEF RemoveNodesResp
<1> HIDE DEF prog
<1>2. \A j \in 1 .. 7 : j = 1 \/ j = 2 \/ j = 3 \/ j = 4 \/ j = 5 \/ j = 6 \/ j = 7
  OBVIOUS
<1>3. ASSUME NEW j \in 1 .. 7
      PROVE  /\ prog[j].op \in {"lock", "write", "insert"}
             /\ prog[j].rows \subseteq Row
             /\ \A r \in prog[j].rows : InPlace(prog, j, r)
  BY <1>1, <1>2, RowsTyped DEF InPlace, Lock, Write, Strength, NodeSets
<1>4. Ordered(prog)
  BY <1>1, <1>3, TableOf, Ranks, RowsTyped DEF Ordered, Lock, Write, NodeSets
<1> QED
  BY <1>4 DEF prog

LEMMA StopRespOrdered ==
  ASSUME NEW S \in NodeSets PROVE Ordered(StopResp(S))
<1> DEFINE prog == StopResp(S)
<1>1. /\ Len(prog) = 5 /\ prog[1] = Lock(Tasks)
      /\ prog[2] = Lock({Deploy} \cup Subtasks)
      /\ prog[3] = Lock({Cluster}) /\ prog[4] = Lock(S)
      /\ prog[5] = Write(S \cup Tasks \cup {Cluster})
  BY DEF StopResp
<1> HIDE DEF prog
<1>2. \A j \in 1 .. 5 : j = 1 \/ j = 2 \/ j = 3 \/ j = 4 \/ j = 5
  OBVIOUS
<1>3. ASSUME NEW j \in 1 .. 5
      PROVE  /\ prog[j].op \in {"lock", "write", "insert"}
             /\ prog[j].rows \subseteq Row
             /\ \A r \in prog[j].rows : InPlace(prog, j, r)
  BY <1>1, <1>2, RowsTyped DEF InPlace, Lock, Write, Strength, NodeSets
<1>4. Ordered(prog)
  BY <1>1, <1>3, TableOf, Ranks, RowsTyped DEF Ordered, Lock, Write, NodeSets
<1> QED
  BY <1>4 DEF prog

LEMMA ResetRespOrdered ==
  ASSUME NEW S \in NodeSets PROVE Ordered(ResetResp(S))
<1> DEFINE prog == ResetResp(S)
<1>1. /\ Len(prog) = 6 /\ prog[1] = Lock({Asked})
      /\ prog[2] = Lock({Cluster}) /\ prog[3] = Write({Cluster})
      /\ prog[4] = Lock(S) /\ prog[5] = Write(S)
      /\ prog[6] = Write({Asked})
  BY DEF ResetResp
<1> HIDE DEF prog
<1>2. \A j \in 1 .. 6 : j = 1 \/ j = 2 \/ j = 3 \/ j = 4 \/ j = 5 \/ j = 6
  OBVIOUS
<1>3. ASSUME NEW j \in 1 .. 6
      PROVE  /\ prog[j].op \in {"lock", "write", "insert"}
             /\ prog[j].rows \subseteq Row
             /\ \A r \in prog[j].rows : InPlace(prog, j, r)
  BY <1>1, <1>2, RowsTyped DEF InPlace, Lock, Write, Strength, NodeSets
<1>4. Ordered(prog)
  BY <1>1, <1>3, TableOf, Ranks, RowsTyped DEF Ordered, Lock, Write, NodeSets
<1> QED
  BY <1>4 DEF prog

------------------------------------------------------------------------------
LEMMA ProgramsInOrder ==
  ASSUME Kinds \subseteq InOrderKinds
  PROVE  \A p \in Thread : \A prog \in Programs(p) : Ordered(prog)
<1> SUFFICES ASSUME NEW p \in Thread, NEW prog \in Programs(p)
             PROVE  prog \in InOrderPrograms
  BY StopOrdered, StopFailsOrdered, ApplyDeleteOrdered, ProvisionMessageOrdered,
     ApplyKeepMessageOrdered, ApplyStartOrdered, ApplyClusterOrdered,
     EraseOrdered, ClusterDeletionOrdered, DeployRespOrdered,
     RemoveNodesRespOrdered, StopRespOrdered, ResetRespOrdered
     DEF InOrderPrograms
<1>1. PICK k \in InOrderKinds : 
         prog \in Managers(k) \cup Failures(k) \cup Receivers(k)
  BY DEF Programs
<1>2. CASE prog \in Managers(k)
  BY <1>2 DEF Managers, InOrderKinds, InOrderPrograms
<1>3. CASE prog \in Receivers(k)
  BY <1>3 DEF Receivers, InOrderKinds, InOrderPrograms
<1>4. CASE prog \in Failures(k)
  BY <1>4 DEF Failures, InOrderKinds, InOrderPrograms
<1> QED
  BY <1>1, <1>2, <1>3, <1>4

\* A transaction holds the rows of the steps before, is about to get only rows
\* above those it holds, and the detector's list for it ends with its step.
TxnOK(t) ==
  /\ t.at = 0 => t = NoTxn
  /\ t.at > 0 =>
       /\ Ordered(t.prog)
       /\ t.at \in 1 .. Len(t.prog)
       /\ \A i \in 1 .. t.at - 1 : \A r \in t.prog[i].rows :
            Strength(t.prog[i].op) <= t.held[r]
       /\ \A r \in Row : t.held[r] > 0 => \E i \in 1 .. t.at : r \in t.prog[i].rows
       /\ \A r \in Row, s \in t.prog[t.at].rows :
            t.held[r] > 0 /\ t.held[s] < Strength(t.prog[t.at].op) => r < s
       /\ IF t.prog[t.at].op = "lock"
          THEN t.ctx # <<>> /\ t.ctx[Len(t.ctx)] = Table(t.prog[t.at].rows)
          ELSE t.ctx = <<>>
  /\ \A i \in 1 .. Len(t.ctx) - 1 : Rank[t.ctx[i]] < Rank[t.ctx[i + 1]]

Tables == {"tasks", "clusters", "nodes"}

Txn == [prog : {<<>>} \cup UNION {Programs(p) : p \in Thread},
        at : Nat, held : [Row -> 0 .. 3], ctx : Seq(Tables)]

\* The inductive invariant.
LockInv == txn \in [Thread -> Txn] /\ \A p \in Thread : TxnOK(txn[p])

LEMMA InitLockInv == Init => LockInv
<1>1. NoTxn \in Txn
  BY DEF NoTxn, NoRows, Txn, Tables
<1>2. TxnOK(NoTxn)
  BY DEF NoTxn, NoRows, TxnOK
<1> QED
  BY <1>1, <1>2 DEF Init, LockInv

\* What the detector's list becomes at a step keeps the tables in order.
LEMMA ContextInOrder ==
  ASSUME NEW c \in Seq(Tables), NEW s, s.op \in {"lock", "write", "insert"},
         \A i \in 1 .. Len(c) - 1 : Rank[c[i]] < Rank[c[i + 1]],
         c # <<>> /\ s.op = "lock" => Rank[c[Len(c)]] <= Rank[Table(s.rows)]
  PROVE  LET d == Context(c, s)
         IN  /\ d \in Seq(Tables)
             /\ \A i \in 1 .. Len(d) - 1 : Rank[d[i]] < Rank[d[i + 1]]
             /\ IF s.op = "lock"
                THEN d # <<>> /\ d[Len(d)] = Table(s.rows)
                ELSE d = <<>>
<1>1. CASE s.op # "lock"
  BY <1>1 DEF Context
<1>2. CASE s.op = "lock" /\ c # <<>> /\ c[Len(c)] = Table(s.rows)
  BY <1>2 DEF Context, HandleLock
<1>3. CASE s.op = "lock" /\ ~ (c # <<>> /\ c[Len(c)] = Table(s.rows))
  <2> DEFINE t == Table(s.rows)
  <2>1. t \in Tables /\ Context(c, s) = Append(c, t)
    BY <1>3, TableOf DEF Context, HandleLock, Tables
  <2>2. c # <<>> => Rank[c[Len(c)]] < Rank[t]
    <3> SUFFICES ASSUME c # <<>> PROVE Rank[c[Len(c)]] < Rank[t]
      OBVIOUS
    <3>1. c[Len(c)] \in Tables
      OBVIOUS
    <3>2. Rank[c[Len(c)]] \in 1 .. 3 /\ Rank[t] \in 1 .. 3
          /\ Rank[c[Len(c)]] # Rank[t]
      BY <3>1, <2>1, <1>3, Ranks DEF Tables
    <3> QED
      BY <3>2, <1>3
  <2> HIDE DEF t
  <2> DEFINE d == Append(c, t)
  <2>3. /\ d \in Seq(Tables) /\ Len(d) = Len(c) + 1 /\ d[Len(d)] = t /\ d # <<>>
        /\ \A i \in 1 .. Len(c) : d[i] = c[i]
    BY <2>1
  <2>4. ASSUME NEW i \in 1 .. Len(d) - 1 PROVE Rank[d[i]] < Rank[d[i + 1]]
    <3>1. CASE i < Len(c)
      BY <3>1, <2>3
    <3>2. CASE i = Len(c)
      <4>1. c # <<>> /\ d[i] = c[Len(c)] /\ d[i + 1] = t
        BY <3>2, <2>3
      <4> QED
        BY <4>1, <2>2
    <3> QED
      BY <3>1, <3>2, <2>3
  <2> HIDE DEF d
  <2>5. Context(c, s) = d
    BY <2>1 DEF d
  <2> QED
    BY <2>3, <2>4, <2>5, <1>3 DEF t
<1> QED
  BY <1>1, <1>2, <1>3

------------------------------------------------------------------------------
\* A step of thread p changes the transaction of p alone.
LEMMA StepOfOne ==
  ASSUME LockInv, NEW p \in Thread, NEW t \in Txn, TxnOK(t),
         txn' = [txn EXCEPT ![p] = t]
  PROVE  LockInv'
BY DEF LockInv

\* A record with other rows held, or at another step.
LEMMA HeldRecord ==
  ASSUME NEW u \in Txn, NEW r \in Row, NEW k
  PROVE  [u EXCEPT !.held[r] = k]
           = [prog |-> u.prog, at |-> u.at, held |-> [u.held EXCEPT ![r] = k],
              ctx |-> u.ctx]
BY DEF Txn

LEMMA AtRecord ==
  ASSUME NEW u \in Txn, NEW a \in Nat, NEW c \in Seq(Tables)
  PROVE  [u EXCEPT !.at = a, !.ctx = c]
           = [prog |-> u.prog, at |-> a, held |-> u.held, ctx |-> c]
<1> DEFINE P == {<<>>} \cup UNION {Programs(p) : p \in Thread}
           v == [u EXCEPT !.at = a]
<1>1. u \in [prog : P, at : Nat, held : [Row -> 0 .. 3], ctx : Seq(Tables)]
  BY DEF Txn
<1> HIDE DEF P
<1>2. v = [prog |-> u.prog, at |-> a, held |-> u.held, ctx |-> u.ctx]
  BY <1>1
<1>3. v \in [prog : P, at : Nat, held : [Row -> 0 .. 3], ctx : Seq(Tables)]
  BY <1>2, <1>1
<1> HIDE DEF v
<1>4. [v EXCEPT !.ctx = c]
        = [prog |-> v.prog, at |-> v.at, held |-> v.held, ctx |-> c]
  BY <1>3
<1> QED
  BY <1>2, <1>4 DEF v

LEMMA BeginInv ==
  ASSUME Kinds \subseteq InOrderKinds, LockInv, NEW p \in Thread, Begin(p)
  PROVE  LockInv'
<1>1. PICK prog \in Programs(p) :
        txn' = [txn EXCEPT ![p] = [prog |-> prog, at |-> 1, held |-> NoRows,
                                   ctx |-> Context(<<>>, prog[1])]]
  BY DEF Begin
<1> DEFINE c == Context(<<>>, prog[1])
           t == [prog |-> prog, at |-> 1, held |-> NoRows, ctx |-> c]
<1>2. Ordered(prog)
  BY ProgramsInOrder
<1>3. /\ prog[1].op \in {"lock", "write", "insert"} /\ 1 \in 1 .. Len(prog)
      /\ \A r \in prog[1].rows : r \in Row
  BY <1>2 DEF Ordered
<1>4. /\ c \in Seq(Tables)
      /\ \A i \in 1 .. Len(c) - 1 : Rank[c[i]] < Rank[c[i + 1]]
      /\ IF prog[1].op = "lock"
         THEN c # <<>> /\ c[Len(c)] = Table(prog[1].rows) ELSE c = <<>>
  <2> DEFINE e == <<>>
             s == prog[1]
  <2>1. e \in Seq(Tables)
    OBVIOUS
  <2>2. /\ \A i \in 1 .. Len(e) - 1 : Rank[e[i]] < Rank[e[i + 1]]
        /\ e # <<>> /\ s.op = "lock" => Rank[e[Len(e)]] <= Rank[Table(s.rows)]
    OBVIOUS
  <2>3. c = Context(e, s) /\ s.op \in {"lock", "write", "insert"}
    BY <1>3
  <2> HIDE DEF e, s, c
  <2>4. /\ c \in Seq(Tables)
        /\ \A i \in 1 .. Len(c) - 1 : Rank[c[i]] < Rank[c[i + 1]]
        /\ IF s.op = "lock" THEN c # <<>> /\ c[Len(c)] = Table(s.rows) ELSE c = <<>>
    BY <2>1, <2>2, <2>3, ContextInOrder
  <2> QED
    BY <2>4 DEF s
<1> HIDE DEF c
<1>5. t \in Txn
  BY <1>4 DEF Txn, NoRows
<1>6. TxnOK(t)
  BY <1>2, <1>3, <1>4 DEF TxnOK, NoRows
<1>7. txn' = [txn EXCEPT ![p] = t]
  BY <1>1 DEF c
<1> HIDE DEF t
<1> QED
  BY <1>5, <1>6, <1>7, StepOfOne

LEMMA AcquireInv ==
  ASSUME LockInv, NEW p \in Thread, Acquire(p)
  PROVE  LockInv'
<1>1. PICK r \in NextRows(p) : txn' = [txn EXCEPT ![p].held[r] = Needed(p)]
  BY DEF Acquire
<1> DEFINE u == txn[p]
           s == u.prog[u.at]
           k == Strength(s.op)
           h == [u.held EXCEPT ![r] = k]
           t == [prog |-> u.prog, at |-> u.at, held |-> h, ctx |-> u.ctx]
<1>2. u \in Txn /\ TxnOK(u)
  BY DEF LockInv
<1>3. Active(p) /\ r \in Wanted(p)
  BY DEF NextRows, Wanted
<1>4. u.at > 0 /\ r \in s.rows /\ u.held[r] < k /\ Needed(p) = k
  BY <1>3 DEF Active, Wanted, Needed, Step
<1>5. Ordered(u.prog) /\ u.at \in 1 .. Len(u.prog)
  BY <1>2, <1>4 DEF TxnOK
<1>6. s.op # "each" /\ s.rows \subseteq Row /\ r \in Row
  BY <1>4, <1>5 DEF Ordered
<1>7. \A w \in s.rows : u.held[w] < k => r <= w
  BY <1>3, <1>6 DEF NextRows, Wanted, Needed, Step
<1>8. u.held \in [Row -> 0 .. 3] /\ k \in 1 .. 3
  BY <1>2, StrengthType DEF Txn
<1> HIDE DEF u, k
<1>9. /\ h \in [Row -> 0 .. 3] /\ h[r] = k
      /\ \A x \in Row : x # r => h[x] = u.held[x]
  BY <1>6, <1>8
<1> HIDE DEF h
<1>10. t \in Txn
  BY <1>2, <1>9 DEF Txn
<1>11. TxnOK(t)
  <2>1. ASSUME NEW i \in 1 .. u.at - 1, NEW x \in u.prog[i].rows
        PROVE  Strength(u.prog[i].op) <= h[x]
    <3>1. Strength(u.prog[i].op) <= u.held[x] /\ x \in Row
      BY <1>2, <1>4, <1>5 DEF TxnOK, Ordered
    <3>2. u.held[x] <= h[x] /\ h[x] \in Int /\ u.held[x] \in Int
      BY <3>1, <1>4, <1>8, <1>9
    <3>3. Strength(u.prog[i].op) \in Int
      BY StrengthType
    <3> QED
      BY <3>1, <3>2, <3>3
  <2>2. ASSUME NEW x \in Row, h[x] > 0
        PROVE  \E i \in 1 .. u.at : x \in u.prog[i].rows
    <3>1. CASE x = r
      <4>1. u.at \in 1 .. u.at /\ x \in u.prog[u.at].rows
        BY <3>1, <1>4, <1>5 DEF s
      <4> QED
        BY <4>1
    <3>2. CASE x # r
      BY <3>2, <2>2, <1>2, <1>4, <1>9 DEF TxnOK
    <3> QED
      BY <3>1, <3>2
  <2>3. ASSUME NEW x \in Row, NEW w \in s.rows, h[x] > 0, h[w] < k
        PROVE  x < w
    <3>1. w # r /\ w \in Row /\ u.held[w] < k
      BY <2>3, <1>6, <1>8, <1>9
    <3>2. CASE x = r
      <4>1. r <= w /\ w \in Int /\ r \in Int
        BY <3>1, <1>6, <1>7 DEF Row
      <4> QED
        BY <3>1, <3>2, <4>1
    <3>3. CASE x # r
      BY <2>3, <3>1, <3>3, <1>2, <1>4, <1>9 DEF TxnOK, s, k
    <3> QED
      BY <3>2, <3>3
  <2>4. /\ t.prog = u.prog /\ t.at = u.at /\ t.ctx = u.ctx /\ t.held = h
    OBVIOUS
  <2> HIDE DEF t
  <2> QED
    BY <1>2, <1>4, <1>5, <2>1, <2>2, <2>3, <2>4 DEF TxnOK, s, k
<1>12. txn' = [txn EXCEPT ![p] = t]
  <2>1. txn' = [txn EXCEPT ![p] = [u EXCEPT !.held[r] = k]]
    BY <1>1, <1>4 DEF u
  <2>2. [u EXCEPT !.held[r] = k] = t
    BY <1>2, <1>6, HeldRecord DEF h
  <2> QED
    BY <2>1, <2>2
<1> HIDE DEF t
<1> QED
  BY <1>10, <1>11, <1>12, StepOfOne

LEMMA AdvanceInv ==
  ASSUME LockInv, NEW p \in Thread, Advance(p)
  PROVE  LockInv'
<1> DEFINE u == txn[p]
           s == u.prog[u.at + 1]
           c == Context(u.ctx, s)
           t == [prog |-> u.prog, at |-> u.at + 1, held |-> u.held, ctx |-> c]
<1>1. u \in Txn /\ TxnOK(u)
  BY DEF LockInv
<1>2. /\ u.at > 0 /\ u.at < Len(u.prog)
      /\ \A r \in u.prog[u.at].rows : ~ (u.held[r] < Strength(u.prog[u.at].op))
  BY DEF Advance, Active, Wanted, Needed, Step
<1>3. txn' = [txn EXCEPT ![p] = [u EXCEPT !.at = u.at + 1, !.ctx = c]]
  BY DEF Advance
<1> HIDE DEF u
<1>4. /\ Ordered(u.prog) /\ u.at \in 1 .. Len(u.prog) /\ u.at \in Nat
      /\ u.at + 1 \in 1 .. Len(u.prog)
  BY <1>1, <1>2 DEF TxnOK, Ordered
<1>5. /\ s.op \in {"lock", "write", "insert"} /\ s.rows \subseteq Row
      /\ \A r \in s.rows : InPlace(u.prog, u.at + 1, r)
  BY <1>4 DEF Ordered
<1>6. /\ c \in Seq(Tables)
      /\ \A i \in 1 .. Len(c) - 1 : Rank[c[i]] < Rank[c[i + 1]]
      /\ IF s.op = "lock" THEN c # <<>> /\ c[Len(c)] = Table(s.rows) ELSE c = <<>>
  <2>1. u.ctx \in Seq(Tables)
    BY <1>1 DEF Txn
  <2>2. \A i \in 1 .. Len(u.ctx) - 1 : Rank[u.ctx[i]] < Rank[u.ctx[i + 1]]
    BY <1>1 DEF TxnOK
  <2>3. u.ctx # <<>> /\ s.op = "lock"
          => Rank[u.ctx[Len(u.ctx)]] <= Rank[Table(s.rows)]
    <3> SUFFICES ASSUME u.ctx # <<>>, s.op = "lock"
                 PROVE  Rank[u.ctx[Len(u.ctx)]] <= Rank[Table(s.rows)]
      OBVIOUS
    <3>1. u.prog[u.at].op = "lock" /\ u.ctx[Len(u.ctx)] = Table(u.prog[u.at].rows)
      BY <1>1, <1>2 DEF TxnOK
    <3>2. u.at \in 1 .. Len(u.prog) - 1
      BY <1>4, <1>2 DEF Ordered
    <3> QED
      BY <3>1, <3>2, <1>4 DEF Ordered
  <2> HIDE DEF s
  <2> QED
    BY <1>5, <2>1, <2>2, <2>3, ContextInOrder
<1> HIDE DEF c, s
<1>7. t \in Txn
  BY <1>1, <1>4, <1>6 DEF Txn
<1>8. TxnOK(t)
  <2>1. ASSUME NEW i \in 1 .. u.at, NEW r \in u.prog[i].rows
        PROVE  Strength(u.prog[i].op) <= u.held[r]
    <3>1. r \in Row /\ u.held \in [Row -> 0 .. 3]
      BY <1>1, <1>4 DEF Ordered, Txn
    <3>2. u.held[r] \in Int /\ Strength(u.prog[i].op) \in Int
      BY <3>1, StrengthType
    <3>3. CASE i = u.at
      BY <3>2, <3>3, <1>2
    <3>4. CASE i # u.at
      <4>1. i \in 1 .. u.at - 1
        BY <3>4, <1>4
      <4> QED
        BY <4>1, <1>1, <1>2 DEF TxnOK
    <3> QED
      BY <3>3, <3>4
  <2>2. \A r \in Row : u.held[r] > 0 => \E i \in 1 .. u.at : r \in u.prog[i].rows
    BY <1>1, <1>2 DEF TxnOK
  <2>3. ASSUME NEW r \in Row, NEW w \in s.rows, u.held[r] > 0,
               u.held[w] < Strength(s.op)
        PROVE  r < w
    <3>1. InPlace(u.prog, u.at + 1, w)
      BY <1>5
    <3>2. u.at + 1 - 1 = u.at
      BY <1>4
    <3>3. ~ \E i \in 1 .. u.at :
             w \in u.prog[i].rows /\ Strength(s.op) <= Strength(u.prog[i].op)
      <4> SUFFICES ASSUME NEW i \in 1 .. u.at, w \in u.prog[i].rows,
                          Strength(s.op) <= Strength(u.prog[i].op)
                   PROVE  FALSE
        OBVIOUS
      <4>1. Strength(u.prog[i].op) <= u.held[w] /\ w \in Row
        BY <2>1, <1>5
      <4>2. /\ u.held[w] \in Int /\ Strength(u.prog[i].op) \in Int
            /\ Strength(s.op) \in Int
        BY <4>1, <1>1, StrengthType DEF Txn
      <4> QED
        BY <2>3, <4>1, <4>2
    <3>4. \A i \in 1 .. u.at : \A x \in u.prog[i].rows : x < w
      BY <3>1, <3>2, <3>3, <1>4 DEF InPlace, s
    <3> QED
      BY <2>2, <2>3, <3>4
  <2>4. u.at + 1 > 0 /\ u.at + 1 # 0 /\ (u.at + 1) - 1 = u.at
    BY <1>4
  <2>5. \A r \in Row : u.held[r] > 0 => \E i \in 1 .. u.at + 1 : r \in u.prog[i].rows
    BY <2>2, <1>4
  <2>6. t.prog = u.prog /\ t.at = u.at + 1 /\ t.held = u.held /\ t.ctx = c
        /\ t.prog[t.at] = s
    BY DEF s
  <2> HIDE DEF t
  <2> QED
    BY <1>4, <1>6, <2>1, <2>3, <2>4, <2>5, <2>6 DEF TxnOK
<1>9. [u EXCEPT !.at = u.at + 1, !.ctx = c] = t
  <2>1. u.at + 1 \in Nat
    BY <1>4
  <2> QED
    BY <2>1, <1>1, <1>6, AtRecord, ZenonT(30)
<1> HIDE DEF t
<1> QED
  BY <1>3, <1>7, <1>8, <1>9, StepOfOne

LEMMA EndInv ==
  ASSUME LockInv, NEW p \in Thread, End(p)
  PROVE  LockInv'
<1>1. NoTxn \in Txn /\ TxnOK(NoTxn)
  BY DEF NoTxn, NoRows, Txn, Tables, TxnOK
<1> QED
  BY <1>1, StepOfOne DEF End

\* No transaction asks for a row below one that it holds.
THEOREM AlwaysLockInv ==
  ASSUME Kinds \subseteq InOrderKinds PROVE Spec => []LockInv
<1>1. LockInv /\ [Next]_vars => LockInv'
  <2> SUFFICES ASSUME LockInv, [Next]_vars PROVE LockInv'
    OBVIOUS
  <2>1. CASE UNCHANGED vars
    BY <2>1 DEF LockInv, vars
  <2>2. ASSUME NEW p \in Thread, Begin(p) PROVE LockInv'
    BY <2>2, BeginInv
  <2>3. ASSUME NEW p \in Thread, Acquire(p) PROVE LockInv'
    BY <2>3, AcquireInv
  <2>4. ASSUME NEW p \in Thread, Advance(p) PROVE LockInv'
    BY <2>4, AdvanceInv
  <2>5. ASSUME NEW p \in Thread, End(p) PROVE LockInv'
    BY <2>5, EndInv
  <2> QED
    BY <2>1, <2>2, <2>3, <2>4, <2>5 DEF Next
<1> QED
  BY <1>1, InitLockInv, PTL DEF Spec

------------------------------------------------------------------------------
\* A set of numbers that is bounded and not empty has a greatest.
LEMMA Greatest ==
  ASSUME NEW n \in Nat, NEW S \in SUBSET (1 .. n), S # {}
  PROVE  \E m \in S : \A s \in S : s <= m
<1> DEFINE T == {n - s : s \in S}
           R == {x \in Nat \X Nat : x[1] < x[2]}
<1>1. IsWellFoundedOn(R, Nat)
  <2>1. R \cap (Nat \X Nat) \subseteq OpToRel(<, Nat)
    BY DEF OpToRel
  <2> QED
    BY <2>1, NatLessThanWellFounded, IsWellFoundedOnSubrelation
<1>2. T \subseteq Nat /\ T # {}
  <2>1. \A s \in S : s \in 1 .. n /\ n - s \in Nat
    OBVIOUS
  <2>2. PICK s \in S : TRUE
    OBVIOUS
  <2> QED
    BY <2>1, <2>2
<1> HIDE DEF T
<1>3. PICK x \in T : \A y \in T : ~ (<<y, x>> \in R)
  BY <1>1, <1>2, WFMin
<1>4. ASSUME NEW y \in T PROVE x <= y
  <2>1. x \in Nat /\ y \in Nat /\ ~ (<<y, x>> \in R)
    BY <1>2, <1>3
  <2> QED
    BY <2>1
<1>5. PICK m \in S : x = n - m
  BY DEF T
<1>6. \A s \in S : s <= m
  BY <1>4, <1>5 DEF T
<1> QED
  BY <1>6

\* While no transaction asks for a row below one that it holds, none wait in a
\* circle.
LEMMA NoCircle == LockInv => NoDeadlock
<1> SUFFICES ASSUME LockInv, NEW P \in SUBSET Thread, P # {},
                    \A p \in P : \E q \in P : WaitsFor(p, q)
             PROVE  FALSE
  BY DEF NoDeadlock
<1> DEFINE n == NTask + 1 + NNode
           S == {r \in Row : \E p \in P : r \in NextRows(p)}
<1>1. \A p \in P : \A r \in NextRows(p) :
        /\ Active(p) /\ r \in Wanted(p) /\ r \in Row
  <2> SUFFICES ASSUME NEW p \in P, NEW r \in NextRows(p)
               PROVE  Active(p) /\ r \in Wanted(p) /\ r \in Row
    OBVIOUS
  <2>1. Active(p) /\ r \in Wanted(p)
    BY DEF NextRows, Wanted
  <2>2. TxnOK(txn[p]) /\ txn[p].at > 0 /\ r \in txn[p].prog[txn[p].at].rows
    BY <2>1 DEF LockInv, Active, Wanted, Step
  <2> QED
    BY <2>1, <2>2 DEF TxnOK, Ordered
<1>2. S # {}
  <2>1. PICK p \in P : TRUE
    OBVIOUS
  <2>2. PICK r \in NextRows(p) : TRUE
    BY <2>1 DEF WaitsFor
  <2> QED
    BY <2>1, <2>2, <1>1
<1>3. PICK m \in S : \A s \in S : s <= m
  <2>1. n \in Nat /\ S \in SUBSET (1 .. n)
    BY SizeAssumption DEF Row
  <2> HIDE DEF S, n
  <2> QED
    BY <1>2, <2>1, Greatest
<1>4. PICK p \in P : m \in NextRows(p)
  OBVIOUS
<1>5. PICK q \in P : WaitsFor(p, q)
  BY <1>4
<1>6. PICK w \in NextRows(q) : TRUE
  BY <1>5 DEF WaitsFor
<1>7. w \in S /\ Active(q) /\ w \in Wanted(q)
  BY <1>1, <1>6
<1>8. m < w
  <2>1. /\ TxnOK(txn[q]) /\ txn[q].at > 0 /\ w \in txn[q].prog[txn[q].at].rows
        /\ txn[q].held[w] < Strength(txn[q].prog[txn[q].at].op)
    BY <1>7 DEF LockInv, Active, Wanted, Needed, Step
  <2>2. m \in Row /\ txn[q].held[m] \in 0 .. 3
    BY <1>3 DEF LockInv, Txn
  <2>3. ~ (txn[q].held[m] + Needed(p) <= 3) /\ Needed(p) \in 1 .. 3
    BY <1>4, <1>5, StrengthType DEF WaitsFor, Compatible, Needed
  <2>4. txn[q].held[m] > 0
    BY <2>2, <2>3
  <2> QED
    BY <2>1, <2>2, <2>4 DEF TxnOK
<1>9. w <= m /\ w \in Int /\ m \in Int
  BY <1>3, <1>7, SizeAssumption DEF Row
<1> QED
  BY <1>8, <1>9

\* The transactions of managers and receivers that lock in one order never wait
\* in a circle for each other's rows.
THEOREM NeverDeadlock ==
  ASSUME Kinds \subseteq InOrderKinds PROVE Spec => []NoDeadlock
BY AlwaysLockInv, NoCircle, PTL

\* None of their queries is refused by the detector.
THEOREM DetectorStaysSilent ==
  ASSUME Kinds \subseteq InOrderKinds PROVE Spec => []DetectorIsSilent
<1>1. LockInv => DetectorIsSilent
  <2> SUFFICES ASSUME LockInv, NEW p \in Thread, NEW i \in 1 .. Len(txn[p].ctx) - 1
               PROVE  <<txn[p].ctx[i], txn[p].ctx[i + 1]>> \in Allowed
    BY DEF DetectorIsSilent
  <2>1. txn[p].ctx \in Seq(Tables) /\ Rank[txn[p].ctx[i]] < Rank[txn[p].ctx[i + 1]]
    BY DEF LockInv, Txn, TxnOK
  <2>2. txn[p].ctx[i] \in Tables /\ txn[p].ctx[i + 1] \in Tables
    BY <2>1
  <2> QED
    BY <2>1, <2>2, Ranks DEF Tables
<1> QED
  BY <1>1, AlwaysLockInv, PTL

\* The transactions stay of their types, and the detector's list short.
THEOREM TypeCorrect ==
  ASSUME Kinds \subseteq InOrderKinds PROVE Spec => []TypeOK
<1>1. LockInv => TypeOK
  <2> SUFFICES ASSUME LockInv PROVE TypeOK
    OBVIOUS
  <2>1. ASSUME NEW p \in Thread PROVE Len(txn[p].ctx) <= 3
    <3> DEFINE c == txn[p].ctx
    <3>1. c \in Seq(Tables)
          /\ \A i \in 1 .. Len(c) - 1 : Rank[c[i]] < Rank[c[i + 1]]
      BY DEF LockInv, Txn, TxnOK
    <3> HIDE DEF c
    <3> SUFFICES ASSUME Len(c) >= 4 PROVE FALSE
      BY <3>1 DEF c
    <3>2. /\ c[1] \in Tables /\ c[2] \in Tables
          /\ c[3] \in Tables /\ c[4] \in Tables
      BY <3>1
    <3>3. /\ Rank[c[1]] \in 1 .. 3 /\ Rank[c[2]] \in 1 .. 3
          /\ Rank[c[3]] \in 1 .. 3 /\ Rank[c[4]] \in 1 .. 3
      BY <3>2, Ranks DEF Tables
    <3>4. Rank[c[1]] < Rank[c[2]]
      BY <3>1
    <3>5. Rank[c[2]] < Rank[c[3]]
      BY <3>1
    <3>6. Rank[c[3]] < Rank[c[4]]
      BY <3>1
    <3> QED
      BY <3>3, <3>4, <3>5, <3>6
  <2> QED
    BY <2>1 DEF TypeOK, LockInv, Txn, Tables
<1> QED
  BY <1>1, AlwaysLockInv, PTL
===============================================================================
