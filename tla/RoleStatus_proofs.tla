-------------------------- MODULE RoleStatus_proofs ---------------------------
(***************************************************************************)
(* What the runs check of RoleStatus, for any number of nodes, roles, tabs, *)
(* presses and faults.                                                      *)
(*                                                                          *)
(* Whatever tabs are open, a request that goes on works on a task of its    *)
(* own that runs and of which nobody else knows (IInv). When one tab is     *)
(* open, one task matters, the last; it is being made, or something is      *)
(* under way for each part of it that runs, or it is forgotten (OneJob).    *)
(* As long as no part of several fails, what is under way is alone to       *)
(* change the row it is about (Flight), and every row either says whether   *)
(* its role runs or will do so when that has been answered (Rows), unless   *)
(* the last task was forgotten while it ran (Stuck): it then refuses every  *)
(* request that follows (CleanInv).                                         *)
(***************************************************************************)
EXTENDS MCRoleStatus, TLAPS

Asking == {"mark", "changes", "create"}
Making == {"deploy", "role", "all", "start", "cast"}
Places == {"idle", "closed"} \cup Asking \cup Making

Cookie == [role : Role \cup {All, NoRole}, act : Actions]

Request ==
  [pc : Places, want : Role \cup {All, NoRole}, act : {"start", "stop"},
   clear : SUBSET JobId, patch : BOOLEAN, cookie : Cookie, seen : SUBSET JobId,
   job : JobId \cup {NoJobId}, nodes : SUBSET Node, orders : SUBSET Order]

Statuses == {"none", "running", "ready", "error"}
JobRow == [status : Statuses, sub : [Part -> Statuses]]

TypeInv ==
  /\ type \in Types
  /\ cluster \in {"operational", "deployment", "error"}
  /\ node \in [Node -> {"ready", "error"}]
  /\ row \in [Role -> 0 .. 3]
  /\ seq \in 0 .. MaxJob
  /\ job \in [JobId -> JobRow]
  /\ cookie \in Cookie
  /\ tab \in [Tab -> Request]
  /\ orders \subseteq Order
  /\ queue \in Seq(Reply)
  /\ begun \subseteq RolesHere
  /\ DOMAIN budget = {"presses", "faults"}

------------------------------------------------------------------------------
(***************************************************************************)
(* Whatever tabs are open.                                                 *)
(***************************************************************************)

\* The orders whose answers are in the queue.
Queued == {queue[i].order : i \in 1 .. Len(queue)}

\* Nothing is under way for job k.
Forgotten(k) == \A o \in orders \cup Queued : o.job # k

\* What an environment of this type can be told to do.
Fitting(c) ==
  /\ c.role \in RolesHere \cup {All}
  /\ type = OnestType => c.role = Onest
  /\ c.act = "started" => type = OnestType

Proper(o) ==
  /\ o.job <= seq
  /\ o.part \in RolesHere \cup {NoRole}
  /\ o.act = "started" => type = OnestType /\ o.part # NoRole

\* A task that does not exist has no subtasks, one that has ended none that run.
Agrees(k) ==
  /\ job[k].status = "none" \/ k > seq => job[k] = NoJob
  /\ \A p \in Part : /\ job[k].sub[p] = "running" => job[k].status = "running"
                     /\ job[k].sub[p] = "error" => job[k].status = "error"

\* Not more than one part, unless all roles of an EBS environment are operated.
FewParts(k) ==
  type # Ebs => \A p, q \in Part : job[k].sub[p] # "none" /\ job[k].sub[q] # "none" => p = q

\* The task a request makes runs, and its orders are those of its subtasks.
Makes(t) ==
  /\ t.job \in JobId /\ job[t.job].status = "running" /\ Forgotten(t.job)
  /\ \A o \in t.orders :
       Proper(o) /\ o.job = t.job /\ job[t.job].sub[o.part] = "running"
  /\ \A p \in Part :
       \/ job[t.job].sub[p] = "none"
       \/ job[t.job].sub[p] = "running" /\ \E o \in t.orders : o.part = p
  /\ t.pc \in {"deploy", "role"} => job[t.job].sub = NoParts /\ t.orders = {}

TabOK(t) ==
  /\ t.pc = "closed" => t = Closed
  /\ t.pc \notin Making => t.job = NoJobId /\ t.orders = {}
  /\ t.pc = "mark" => t.want \in RolesHere \cup {All}
  /\ t.pc \in Making \cup {"create"} => Fitting(t.cookie)
  /\ t.pc = "role" => t.cookie.role # All
  /\ t.pc = "all" => type = Ebs /\ t.cookie.role = All
  /\ \A k \in t.clear : k <= seq /\ job[k].status # "running"
  /\ t.pc \in Making => Makes(t)

Apart ==
  \A v, w \in Tab :
    tab[v].pc \in Making /\ tab[w].pc \in Making /\ tab[v].job = tab[w].job => v = w

State ==
  /\ cookie.role # NoRole /\ Fitting(cookie)
  /\ \A r \in Role : row[r] = 3 => type = OnestType
  /\ \A k \in JobId : Agrees(k) /\ FewParts(k)
  /\ \A o \in orders \cup Queued : Proper(o)
  /\ \A i \in 1 .. Len(queue) : queue[i].failed \cap queue[i].ready = {}
  /\ cluster = "operational" => InError = {}

IInv == TypeInv /\ State /\ (\A w \in Tab : TabOK(tab[w])) /\ Apart

------------------------------------------------------------------------------
(***************************************************************************)
(* The operators of the model.                                             *)
(***************************************************************************)
LEMMA Kinds ==
  /\ NoRole \in Part /\ Role \subseteq Part /\ NoRole \notin Role /\ Onest \in Role
  /\ RolesHere \subseteq Role /\ RolesHere \cup {NoRole} \subseteq Part
  /\ All \notin Part
  /\ NoJob \in JobRow /\ NoParts \in [Part -> Statuses]
  /\ \A p \in Part : NoJob.sub[p] = "none" /\ NoParts[p] = "none"
BY RolesAssumption DEF Part, RolesHere, NoJob, NoParts, JobRow, Statuses

LEMMA IdleTyped ==
  /\ Idle \in Request /\ Closed \in Request
  /\ Idle.pc = "idle" /\ Idle.clear = {} /\ ~ Idle.patch /\ Idle.orders = {}
  /\ Idle.job = NoJobId /\ Idle.want = NoRole
  /\ Closed.pc = "closed" /\ Closed.clear = {} /\ ~ Closed.patch /\ Closed.orders = {}
  /\ Closed.job = NoJobId
BY DEF Idle, Closed, Request, Places, Asking, Making, Cookie, Actions, NoJobId, JobId

LEMMA QueuedTyped ==
  ASSUME TypeInv
  PROVE  /\ \A i \in 1 .. Len(queue) : queue[i] \in Reply /\ queue[i].order \in Order
         /\ \A o \in orders \cup Queued : o \in Order /\ o.job \in JobId /\ o.job \in Int
<1>1. \A i \in 1 .. Len(queue) : queue[i] \in Reply
  BY DEF TypeInv
<1>2. \A m \in Reply : m.order \in Order
  BY DEF Reply
<1>3. \A o \in Order : o.job \in JobId /\ o.job \in Int
  BY DEF Order, JobId
<1>4. \A o \in orders \cup Queued : o \in Order
  BY <1>1, <1>2 DEF TypeInv, Queued
<1> QED BY <1>1, <1>2, <1>3, <1>4

LEMMA TabFrame ==
  ASSUME TypeInv, NEW w \in Tab, NEW r \in Request, tab' = [tab EXCEPT ![w] = r]
  PROVE  /\ tab' \in [Tab -> Request] /\ tab'[w] = r
         /\ \A v \in Tab : v # w => tab'[v] = tab[v]
BY DEF TypeInv

LEMMA LeftTyped ==
  ASSUME TypeInv, NEW w \in Tab
  PROVE  /\ Left(w) \in Request /\ Left(w).pc = "idle" /\ Left(w).clear = tab[w].clear
         /\ Left(w).patch = tab[w].patch /\ Left(w).orders = {} /\ Left(w).job = NoJobId
<1>1. tab[w] \in Request
  BY DEF TypeInv
<1>2. tab[w].clear \in SUBSET JobId /\ tab[w].patch \in BOOLEAN
  BY <1>1 DEF Request
<1> QED BY <1>2 DEF Left, Idle, Request, Places, Asking, Making, Cookie, Actions,
                    NoJobId, JobId

LEMMA GotoTyped ==
  ASSUME TypeInv, NEW w \in Tab, NEW pc \in Places, Goto(w, pc)
  PROVE  \E r \in Request :
           /\ tab' = [tab EXCEPT ![w] = r] /\ r.pc = pc
           /\ r.want = tab[w].want /\ r.act = tab[w].act /\ r.clear = tab[w].clear
           /\ r.patch = tab[w].patch /\ r.cookie = tab[w].cookie
           /\ r.seen = tab[w].seen /\ r.job = tab[w].job /\ r.nodes = tab[w].nodes
           /\ r.orders = tab[w].orders
<1> DEFINE r == [tab[w] EXCEPT !.pc = pc]
<1>1. tab[w] \in Request /\ tab \in [Tab -> Request]
  BY DEF TypeInv
<1>2. r \in Request /\ tab' = [tab EXCEPT ![w] = r]
  BY <1>1 DEF Request, Goto
<1>3. /\ r.pc = pc /\ r.want = tab[w].want /\ r.act = tab[w].act
      /\ r.clear = tab[w].clear /\ r.patch = tab[w].patch /\ r.cookie = tab[w].cookie
      /\ r.seen = tab[w].seen /\ r.job = tab[w].job /\ r.nodes = tab[w].nodes
      /\ r.orders = tab[w].orders
  BY <1>1 DEF Request
<1> QED BY <1>2, <1>3

\* What a task is after one of its subtasks has ended.
Ended(j, p, st, u) ==
  /\ u \in JobRow /\ u.status \in {"error", "ready", j.status}
  /\ u.status = "ready" => st = "ready"
  /\ \A q \in Part : u.sub[q] = "none" <=> q # p /\ j.sub[q] = "none"
  /\ (\E q \in Part : u.sub[q] = "error") =>
       u.status = "error" /\ \A q \in Part : u.sub[q] # "running"
  /\ \A q \in Part : u.sub[q] = "running" => q # p /\ j.sub[q] = "running"
                                             /\ u.status = j.status
  /\ \A q \in Part : u.sub[q] = "ready" => q = p \/ j.sub[q] = "ready"
  /\ u.sub[p] = st
  /\ st = "error" => u.status = "error"
  /\ \A q \in Part : u.sub[q] # j.sub[q] => q = p \/ u.status = "error"
  /\ (\A q \in Part : u.sub[q] \in {"none", "ready"}) => u.status = "ready"
  /\ u.status = "error" => j.status = "error" \/ \E q \in Part : u.sub[q] = "error"
  /\ st = "ready" /\ (\A q \in Part : j.sub[q] # "error") =>
       \A q \in Part : u.sub[q] = IF q = p THEN "ready" ELSE j.sub[q]
  /\ \A q \in Part : q # p /\ j.sub[q] # "running" => u.sub[q] = j.sub[q]

LEMMA UpdatedRow ==
  ASSUME NEW j \in JobRow, NEW p \in Part, NEW st \in {"ready", "error"}
  PROVE  Ended(j, p, st, Updated(j, p, st))
<1> DEFINE sub == [j.sub EXCEPT ![p] = st]
           failed == \E q \in Part : sub[q] = "error"
           done == \A q \in Part : sub[q] \in {"none", "ready"}
           new == [q \in Part |-> IF failed /\ sub[q] = "running" THEN "error" ELSE sub[q]]
           status == IF failed THEN "error" ELSE IF done THEN "ready" ELSE j.status
           u == Updated(j, p, st)
<1>1. u.status = status /\ u.sub = new /\ u = [status |-> status, sub |-> new]
  BY DEF Updated
<1>2. /\ j.sub \in [Part -> Statuses] /\ j.status \in Statuses
      /\ sub \in [Part -> Statuses] /\ sub[p] = st
      /\ \A q \in Part : q # p => sub[q] = j.sub[q]
  BY DEF JobRow, Statuses
<1>3. \A q \in Part : new[q] = IF failed /\ sub[q] = "running" THEN "error" ELSE sub[q]
  OBVIOUS
<1>4. new \in [Part -> Statuses] /\ status \in Statuses
  BY <1>2 DEF Statuses
<1>5. u \in JobRow
  BY <1>1, <1>4 DEF JobRow
<1>6. (failed => status = "error") /\ (~ failed /\ done => status = "ready")
      /\ (~ failed /\ ~ done => status = j.status)
  OBVIOUS
<1>7. failed <=> \E q \in Part : new[q] = "error"
  BY <1>3
<1>8. ~ failed => \A q \in Part : new[q] = sub[q]
  BY <1>3
<1>9. st = "error" => failed
  BY <1>2
<1>10. new[p] = st
  BY <1>2, <1>3
<1>11. \A q \in Part : (new[q] = "none" <=> q # p /\ j.sub[q] = "none")
                     /\ (new[q] = "ready" => q = p \/ j.sub[q] = "ready")
  BY <1>2, <1>3
<1>12. \A q \in Part : new[q] = "running" => q # p /\ j.sub[q] = "running" /\ ~ failed /\ ~ done
  BY <1>2, <1>3
<1> HIDE DEF u, new, status, failed, done, sub
<1>13. u.status = "ready" => st = "ready"
  BY <1>1, <1>6, <1>9
<1>14. failed => \A q \in Part : new[q] # "running"
  BY <1>12
<1>15. \A q \in Part : new[q] # j.sub[q] => q = p \/ failed
  BY <1>2, <1>8
<1>16. (\A q \in Part : new[q] \in {"none", "ready"}) => ~ failed /\ done
  BY <1>7, <1>8 DEF done
<1>17. u.status \in {"error", "ready", j.status}
  BY <1>1, <1>6
<1>18. (\E q \in Part : u.sub[q] = "error") =>
         u.status = "error" /\ \A q \in Part : u.sub[q] # "running"
  BY <1>1, <1>6, <1>7, <1>14
<1>19. \A q \in Part : u.sub[q] = "running" =>
         q # p /\ j.sub[q] = "running" /\ u.status = j.status
  BY <1>1, <1>6, <1>12
<1>20. \A q \in Part : u.sub[q] # j.sub[q] => q = p \/ u.status = "error"
  BY <1>1, <1>6, <1>15
<1>21. (\A q \in Part : u.sub[q] \in {"none", "ready"}) => u.status = "ready"
  BY <1>1, <1>6, <1>16
<1>22. /\ \A q \in Part : u.sub[q] = "none" <=> q # p /\ j.sub[q] = "none"
       /\ \A q \in Part : u.sub[q] = "ready" => q = p \/ j.sub[q] = "ready"
       /\ u.sub[p] = st
       /\ st = "error" => u.status = "error"
  BY <1>1, <1>6, <1>9, <1>10, <1>11
<1>23. u.status = "error" => j.status = "error" \/ \E q \in Part : u.sub[q] = "error"
  BY <1>1, <1>6, <1>7
<1>24. st = "ready" /\ (\A q \in Part : j.sub[q] # "error") =>
         \A q \in Part : u.sub[q] = IF q = p THEN "ready" ELSE j.sub[q]
  <2>1. st = "ready" /\ (\A q \in Part : j.sub[q] # "error") => ~ failed
    BY <1>2 DEF failed
  <2> QED BY <1>1, <1>2, <1>8, <2>1
<1>25. \A q \in Part : q # p /\ j.sub[q] # "running" => u.sub[q] = j.sub[q]
  BY <1>1, <1>2, <1>3
<1>26. Ended(j, p, st, u)
  BY <1>23, <1>24, <1>25, <1>5, <1>13, <1>17, <1>18, <1>19, <1>20, <1>21, <1>22 DEF Ended
<1> QED BY <1>26 DEF u

------------------------------------------------------------------------------
(***************************************************************************)
(* One lemma per action: whatever tabs are open.                           *)
(***************************************************************************)

\* A tab that does nothing stays as it should be.
LEMMA Bystander ==
  ASSUME IInv, NEW v \in Tab, tab'[v] = tab[v], type' = type, seq \in Int, seq' \in Int,
         seq <= seq',
         \A k \in JobId : k <= seq /\ job'[k].status = "running" => job[k].status = "running",
         tab[v].pc \in Making => job'[tab[v].job] = job[tab[v].job] /\ Forgotten(tab[v].job)'
  PROVE  TabOK(tab[v])'
<1> DEFINE t == tab[v]
<1>1. TabOK(t) /\ t \in Request
  BY DEF IInv, TypeInv
<1>2. t.clear \subseteq JobId
  BY <1>1 DEF Request
<1>3. \A k \in t.clear : k <= seq' /\ job'[k].status # "running"
  BY <1>1, <1>2 DEF TabOK, JobId
<1>4. t.pc \in Making => Makes(t)'
  <2> SUFFICES ASSUME t.pc \in Making PROVE Makes(t)'
    OBVIOUS
  <2>1. Makes(t)
    BY <1>1 DEF TabOK
  <2>2. \A o \in t.orders : Proper(o)'
    <3> SUFFICES ASSUME NEW o \in t.orders PROVE Proper(o)'
      OBVIOUS
    <3>1. Proper(o) /\ o.job = t.job /\ t.job \in JobId
      BY <2>1 DEF Makes
    <3> QED BY <3>1 DEF Proper, RolesHere, JobId
  <2>3. t' = t
    OBVIOUS
  <2>4. t.pc \in {"deploy", "role"} => job'[t.job].sub = NoParts /\ t.orders = {}
    BY <2>1 DEF Makes
  <2> QED BY <2>1, <2>2, <2>3, <2>4 DEF Makes
<1>5. t.pc \in Making \cup {"create"} => Fitting(t.cookie)'
  BY <1>1 DEF TabOK, Fitting, RolesHere
<1>6. t' = t /\ (t.pc = "mark" => t.want \in RolesHere' \cup {All})
  BY <1>1 DEF TabOK, RolesHere
<1> HIDE DEF t
<1>7. TabOK(t)'
  BY <1>1, <1>3, <1>4, <1>5, <1>6 DEF TabOK
<1> QED BY <1>7, <1>6 DEF t

\* A step of one tab that touches no task, order or reply.
LEMMA TabStep ==
  ASSUME IInv, NEW w \in Tab, NEW r \in Request, tab' = [tab EXCEPT ![w] = r],
         UNCHANGED <<type, node, job, seq, orders, queue, begun>>,
         TabOK(r)',
         r.pc \in Making => tab[w].pc \in Making /\ r.job = tab[w].job,
         cluster' = cluster \/ cluster' = "deployment",
         row' \in [Role -> 0 .. 3], \A s \in Role : row'[s] = 3 => type = OnestType,
         cookie' \in Cookie, cookie'.role # NoRole, Fitting(cookie)',
         DOMAIN budget' = {"presses", "faults"}
  PROVE  IInv'
<1>1. /\ tab' \in [Tab -> Request] /\ tab'[w] = r
      /\ \A v \in Tab : v # w => tab'[v] = tab[v]
  BY TabFrame DEF IInv
<1>2. TypeInv'
  BY <1>1 DEF IInv, TypeInv, RolesHere
<1>3. State'
  BY DEF IInv, State, TypeInv, Agrees, FewParts, Proper, Queued, InError, RolesHere
<1>4. \A v \in Tab : TabOK(tab[v])'
  <2> SUFFICES ASSUME NEW v \in Tab PROVE TabOK(tab[v])'
    OBVIOUS
  <2>1. CASE v = w
    <3>1. tab'[v] = r
      BY <1>1, <2>1
    <3> QED BY <3>1
  <2>2. CASE v # w
    <3>1. tab[v].pc \in Making => Forgotten(tab[v].job)'
      BY <1>1, <2>2 DEF IInv, TabOK, Makes, Forgotten, Queued
    <3>2. tab'[v] = tab[v] /\ seq \in Int /\ seq' = seq /\ seq <= seq'
      BY <1>1, <2>2 DEF IInv, TypeInv
    <3> QED BY <3>1, <3>2, Bystander
  <2> QED BY <2>1, <2>2
<1>5. Apart'
  BY <1>1 DEF IInv, Apart
<1> QED BY <1>2, <1>3, <1>4, <1>5 DEF IInv

LEMMA AsksKeeps ==
  ASSUME IInv, NEW w \in Tab, NEW r \in Request, Asks(w, r), r.pc \in {"mark", "changes"},
         r.pc = "mark" => r.want \in RolesHere \cup {All},
         r.clear = Finished, r.job = NoJobId, r.orders = {}
  PROVE  IInv'
<1>1. /\ tab' = [tab EXCEPT ![w] = r]
      /\ UNCHANGED <<type, cluster, node, row, job, seq, cookie, orders, queue, begun>>
      /\ DOMAIN budget' = {"presses", "faults"}
  BY DEF Asks, IInv, TypeInv
<1>2. \A k \in Finished : k \in JobId /\ k <= seq /\ job[k].status # "running"
  <2> SUFFICES ASSUME NEW k \in Finished PROVE k \in JobId /\ k <= seq /\ job[k].status # "running"
    OBVIOUS
  <2>1. k \in JobId /\ job[k].status \in {"ready", "error"}
    BY DEF Finished, Jobs
  <2>2. k > seq => job[k] = NoJob
    BY <2>1 DEF IInv, State, Agrees
  <2>3. k \in Int /\ seq \in Int
    BY <2>1 DEF JobId, IInv, TypeInv
  <2> QED BY <2>1, <2>2, <2>3 DEF NoJob
<1>3. r.pc \notin Making /\ r.pc \notin {"closed", "create", "role", "all"}
  BY DEF Making
<1>4. TabOK(r)'
  BY <1>1, <1>2, <1>3 DEF TabOK, RolesHere
<1>5. /\ row' \in [Role -> 0 .. 3] /\ \A s \in Role : row'[s] = 3 => type = OnestType
      /\ cookie' \in Cookie /\ cookie'.role # NoRole /\ Fitting(cookie)'
  BY <1>1 DEF IInv, TypeInv, State, Fitting, RolesHere
<1> QED BY <1>1, <1>3, <1>4, <1>5, TabStep

LEMMA PressKeeps ==
  ASSUME IInv, NEW w \in Tab, NEW x \in Role \cup {All}, NEW act \in {"start", "stop"},
         Press(w, x, act)
  PROVE  /\ IInv'
         /\ \E r \in Request : /\ tab' = [tab EXCEPT ![w] = r] /\ r.pc = "mark"
                               /\ r.want = x /\ r.act = act /\ r.job = NoJobId
                               /\ r.orders = {} /\ tab[w].pc = "idle"
<1> DEFINE r == [Idle EXCEPT !.pc = "mark", !.want = x, !.act = act,
                             !.clear = Finished, !.patch = TRUE]
<1>1. /\ r.pc = "mark" /\ r.want = x /\ r.act = act /\ r.clear = Finished /\ r.job = NoJobId
      /\ r.orders = {}
  BY DEF Idle
<1>2. r \in Request
  BY DEF Request, Idle, Places, Asking, Making, Cookie, Actions, Finished, Jobs, JobId, NoJobId
<1>3. Asks(w, r) /\ x \in RolesHere \cup {All}
  BY DEF Press, Offered
<1> HIDE DEF r
<1>4. IInv'
  BY <1>1, <1>2, <1>3, AsksKeeps
<1>5. tab' = [tab EXCEPT ![w] = r] /\ tab[w].pc = "idle"
  BY <1>3 DEF Asks
<1> QED BY <1>1, <1>2, <1>4, <1>5

LEMMA PressDeployKeeps ==
  ASSUME IInv, NEW w \in Tab, PressDeploy(w)
  PROVE  /\ IInv'
         /\ \E r \in Request : /\ tab' = [tab EXCEPT ![w] = r] /\ r.pc = "changes"
                               /\ r.want = NoRole /\ r.job = NoJobId
                               /\ r.orders = {} /\ tab[w].pc = "idle"
<1> DEFINE r == [Idle EXCEPT !.pc = "changes", !.clear = Finished]
<1>1. /\ r.pc = "changes" /\ r.clear = Finished /\ r.job = NoJobId /\ r.orders = {}
      /\ r.want = NoRole
  BY DEF Idle
<1>2. r \in Request
  BY DEF Request, Idle, Places, Asking, Making, Cookie, Actions, Finished, Jobs, JobId, NoJobId
<1>3. Asks(w, r)
  BY DEF PressDeploy
<1> HIDE DEF r
<1>4. IInv'
  BY <1>1, <1>2, <1>3, AsksKeeps
<1>5. tab' = [tab EXCEPT ![w] = r] /\ tab[w].pc = "idle"
  BY <1>3 DEF Asks
<1> QED BY <1>1, <1>2, <1>4, <1>5

\* A request goes on from one place to the next.
LEMMA GotoKeeps ==
  ASSUME IInv, NEW w \in Tab, NEW pc \in Places, Goto(w, pc),
         UNCHANGED <<type, node, job, seq, orders, queue, begun, budget>>,
         pc \in {"changes", "start", "cast"},
         pc \in Making <=> tab[w].pc \in Making,
         cluster' = cluster \/ cluster' = "deployment",
         row' \in [Role -> 0 .. 3], \A s \in Role : row'[s] = 3 => type = OnestType,
         cookie' \in Cookie, cookie'.role # NoRole, Fitting(cookie)'
  PROVE  IInv'
<1>1. PICK r \in Request :
         /\ tab' = [tab EXCEPT ![w] = r] /\ r.pc = pc
         /\ r.want = tab[w].want /\ r.act = tab[w].act /\ r.clear = tab[w].clear
         /\ r.patch = tab[w].patch /\ r.cookie = tab[w].cookie
         /\ r.seen = tab[w].seen /\ r.job = tab[w].job /\ r.nodes = tab[w].nodes
         /\ r.orders = tab[w].orders
  BY GotoTyped DEF IInv
<1>2. TabOK(tab[w]) /\ DOMAIN budget' = {"presses", "faults"}
  BY DEF IInv, TypeInv
<1>3. tab[w].pc \in Making => Makes(r)'
  <2> SUFFICES ASSUME tab[w].pc \in Making, Makes(tab[w]) PROVE Makes(r)'
    BY <1>2 DEF TabOK
  <2>1. Forgotten(r.job)'
    BY <1>1 DEF Makes, Forgotten, Queued
  <2>2. \A o \in r.orders : Proper(o)'
    BY <1>1 DEF Makes, Proper, RolesHere
  <2>3. r.pc \notin {"deploy", "role"}
    BY <1>1
  <2> QED BY <1>1, <2>1, <2>2, <2>3 DEF Makes
<1>4. TabOK(r)'
  <2>1. pc = "changes" => pc \notin Making
    BY DEF Making
  <2>2. r.pc \in Making => r.pc \in {"start", "cast"} /\ tab[w].pc \in Making
    BY <1>1 DEF Making
  <2>3. r.pc \in Making \cup {"create"} => Fitting(r.cookie)'
    BY <1>1, <1>2, <2>2 DEF TabOK, Fitting, RolesHere
  <2>4. pc \notin Making => r.job = NoJobId /\ r.orders = {}
    BY <1>1, <1>2 DEF TabOK
  <2>5. \A k \in r.clear : k <= seq' /\ job'[k].status # "running"
    BY <1>1, <1>2 DEF TabOK
  <2>6. r' = r /\ r.pc \notin {"closed", "mark", "role", "all"}
    BY <1>1
  <2> QED BY <1>1, <1>3, <2>2, <2>3, <2>4, <2>5, <2>6 DEF TabOK
<1> QED BY <1>1, <1>2, <1>4, TabStep

LEMMA MarkedRow ==
  ASSUME IInv, NEW x \in RolesHere \cup {All}, NEW act \in {"start", "stop"}
  PROVE  /\ RoleNamed(x) \in RolesHere \cup {All}
         /\ type = OnestType => RoleNamed(x) = Onest
         /\ Marked(RoleNamed(x), act) \in [Role -> 0 .. 3]
         /\ \A s \in Role : Marked(RoleNamed(x), act)[s] = 3 => type = OnestType
<1>1. /\ RoleNamed(x) \in RolesHere \cup {All}
      /\ type = OnestType => RoleNamed(x) = Onest
  BY DEF RoleNamed, RolesHere
<1> DEFINE r == RoleNamed(x)
<1>2. row \in [Role -> 0 .. 3] /\ \A s \in Role : row[s] = 3 => type = OnestType
  BY DEF IInv, TypeInv, State
<1>3. r \in Role \cup {All} /\ Stopped \in 0 .. 3 /\ (Stopped = 3 => type = OnestType)
  BY <1>1, Kinds DEF Stopped
<1> HIDE DEF r
<1>4. Marked(r, act) \in [Role -> 0 .. 3]
      /\ \A s \in Role : Marked(r, act)[s] = 3 => type = OnestType
  <2>1. CASE r = All
    <3>1. [row EXCEPT ![All] = 2] = row
      BY <1>2, RolesAssumption
    <3>2. [row EXCEPT ![All] = IF row[All] = 0 THEN 1 ELSE Stopped] = row
      BY <1>2, RolesAssumption
    <3>3. Marked(r, act) = row
      BY <2>1, <3>1, <3>2 DEF Marked
    <3> QED BY <1>2, <3>3
  <2>2. CASE r # All /\ act = "start"
    <3>1. Marked(r, act) = [row EXCEPT ![r] = 2]
      BY <2>2 DEF Marked
    <3> QED BY <1>2, <1>3, <2>2, <3>1
  <2>3. CASE r # All /\ act = "stop"
    <3>1. Marked(r, act) = [row EXCEPT ![r] = IF row[r] = 0 THEN 1 ELSE Stopped]
      BY <1>2, <2>3 DEF Marked
    <3> QED BY <1>2, <1>3, <2>3, <3>1
  <2> QED BY <2>1, <2>2, <2>3
<1> QED BY <1>1, <1>4 DEF r

LEMMA MarkKeeps ==
  ASSUME IInv, NEW w \in Tab, Mark(w)
  PROVE  IInv'
<1> DEFINE x == tab[w].want
           r == RoleNamed(x)
           act == IF tab[w].act = "start" THEN StartAction(r) ELSE "stop"
<1>1. tab[w].pc = "mark" /\ tab[w] \in Request /\ TabOK(tab[w])
  BY DEF Mark, IInv, TypeInv
<1>2. x \in RolesHere \cup {All} /\ tab[w].act \in {"start", "stop"}
  BY <1>1 DEF TabOK, Request
<1>3. /\ row' = Marked(r, tab[w].act) /\ cookie' = [role |-> r, act |-> act]
      /\ Goto(w, "changes")
      /\ UNCHANGED <<type, cluster, node, job, seq, orders, queue, runs, begun, budget>>
  BY DEF Mark
<1>4. act \in Actions /\ (act = "started" => type = OnestType)
  BY <1>2 DEF StartAction, Actions
<1> HIDE DEF x, act
<1>5. /\ r \in RolesHere \cup {All} /\ (type = OnestType => r = Onest)
      /\ row' \in [Role -> 0 .. 3]
      /\ \A s \in Role : row'[s] = 3 => type = OnestType
  BY <1>2, <1>3, MarkedRow
<1> HIDE DEF r
<1>6. r # NoRole /\ r \in Role \cup {All, NoRole}
  BY <1>5, Kinds, RolesAssumption
<1>7. cookie' \in Cookie /\ cookie'.role # NoRole /\ Fitting(cookie)'
  BY <1>3, <1>4, <1>5, <1>6 DEF Cookie, Fitting, RolesHere
<1>8. "changes" \in Places /\ "changes" \notin Making /\ tab[w].pc \notin Making
  BY <1>1 DEF Places, Asking, Making
<1> QED BY <1>3, <1>5, <1>7, <1>8, GotoKeeps

LEMMA StartKeeps ==
  ASSUME IInv, NEW w \in Tab, Start(w) \/ AllOperated(w)
  PROVE  IInv'
<1>1. PICK pc \in {"start", "cast"} : Goto(w, pc)
  BY DEF Start, AllOperated
<1>2. tab[w].pc \in Making /\ pc \in Places /\ pc \in Making
  BY <1>1 DEF Start, AllOperated, Making, Places
<1>3. /\ UNCHANGED <<type, node, job, seq, orders, queue, begun, budget, row, cookie>>
      /\ cluster' = cluster \/ cluster' = "deployment"
  BY DEF Start, AllOperated
<1>4. /\ row' \in [Role -> 0 .. 3] /\ \A s \in Role : row'[s] = 3 => type = OnestType
      /\ cookie' \in Cookie /\ cookie'.role # NoRole /\ Fitting(cookie)'
  BY <1>3 DEF IInv, TypeInv, State, Fitting, RolesHere
<1> QED BY <1>1, <1>2, <1>3, <1>4, GotoKeeps

LEMMA PatchKeeps ==
  ASSUME IInv, NEW w \in Tab, Patch(w)
  PROVE  IInv'
<1>1. tab[w] \in Request /\ TabOK(tab[w])
  BY DEF IInv, TypeInv
<1>2. PICK r \in Request :
        /\ tab' = [tab EXCEPT ![w] = r]
        /\ r.pc = tab[w].pc /\ r.job = tab[w].job /\ r.orders = tab[w].orders
        /\ r.want = tab[w].want /\ r.cookie = tab[w].cookie /\ r.clear = tab[w].clear
  <2> DEFINE r == [tab[w] EXCEPT !.patch = FALSE]
  <2>1. r \in Request /\ r.pc = tab[w].pc /\ r.job = tab[w].job /\ r.orders = tab[w].orders
        /\ r.want = tab[w].want /\ r.cookie = tab[w].cookie /\ r.clear = tab[w].clear
    BY <1>1 DEF Request
  <2>2. tab' = [tab EXCEPT ![w] = r]
    BY DEF Patch
  <2> HIDE DEF r
  <2> QED BY <2>1, <2>2
<1>3. /\ cluster' = "deployment"
      /\ UNCHANGED <<type, node, row, job, seq, cookie, orders, queue, runs, begun, budget>>
  BY DEF Patch
<1>4. r.pc # "closed"
  BY <1>1, <1>2, IdleTyped DEF TabOK, Patch
<1>5. r.pc \in Making => Makes(r)'
  BY <1>1, <1>2, <1>3 DEF TabOK, Makes, Forgotten, Queued, Proper, RolesHere
<1>6. TabOK(r)'
  BY <1>1, <1>2, <1>3, <1>4, <1>5 DEF TabOK, Fitting, RolesHere
<1>7. /\ row' \in [Role -> 0 .. 3] /\ \A s \in Role : row'[s] = 3 => type = OnestType
      /\ cookie' \in Cookie /\ cookie'.role # NoRole /\ Fitting(cookie)'
      /\ DOMAIN budget' = {"presses", "faults"}
  BY <1>3 DEF IInv, TypeInv, State, Fitting, RolesHere
<1> QED BY <1>2, <1>3, <1>6, <1>7, TabStep

\* A request ends early: what is left are the requests that were sent beside it.
LEMMA LeftKeeps ==
  ASSUME IInv, NEW w \in Tab, tab[w].pc # "closed", tab' = [tab EXCEPT ![w] = Left(w)],
         UNCHANGED <<type, cluster, node, row, job, seq, cookie, orders, queue, begun>>,
         DOMAIN budget' = {"presses", "faults"}
  PROVE  IInv'
<1>1. PICK r \in Request :
        /\ tab' = [tab EXCEPT ![w] = r] /\ r.pc = "idle" /\ r.clear = tab[w].clear
        /\ r.orders = {} /\ r.job = NoJobId
  BY LeftTyped DEF IInv
<1>2. TabOK(tab[w])
  BY DEF IInv
<1>3. r.pc \notin Making /\ r.pc \notin {"closed", "mark", "create", "role", "all"}
  BY <1>1 DEF Making
<1>4. TabOK(r)'
  BY <1>1, <1>2, <1>3 DEF TabOK
<1>5. /\ row' \in [Role -> 0 .. 3] /\ \A s \in Role : row'[s] = 3 => type = OnestType
      /\ cookie' \in Cookie /\ cookie'.role # NoRole /\ Fitting(cookie)'
  BY DEF IInv, TypeInv, State, Fitting, RolesHere
<1> QED BY <1>1, <1>3, <1>4, <1>5, TabStep

LEMMA RefuseKeeps ==
  ASSUME IInv, NEW w \in Tab, Refuse(w) \/ Crash(w)
  PROVE  IInv'
<1>1. tab[w].pc # "closed" /\ tab' = [tab EXCEPT ![w] = Left(w)]
      /\ UNCHANGED <<type, cluster, node, row, job, seq, cookie, orders, queue, begun>>
      /\ DOMAIN budget' = {"presses", "faults"}
  BY DEF Refuse, Crash, Abandon, IInv, TypeInv
<1> QED BY <1>1, LeftKeeps

LEMMA LookKeeps ==
  ASSUME IInv, NEW w \in Tab, Look(w)
  PROVE  /\ IInv'
         /\ \E r \in Request : /\ tab' = [tab EXCEPT ![w] = r] /\ r.pc = "create"
                               /\ r.cookie = cookie /\ r.want = tab[w].want
                               /\ r.seen = Jobs({"running", "ready", "error"})
                               /\ r.job = NoJobId /\ r.orders = {}
                               /\ r.clear = tab[w].clear /\ r.patch = tab[w].patch
<1> DEFINE r == [tab[w] EXCEPT !.pc = "create", !.cookie = cookie,
                    !.seen = Jobs({"running", "ready", "error"})]
<1>1. tab[w] \in Request /\ TabOK(tab[w]) /\ tab[w].pc = "changes"
  BY DEF IInv, TypeInv, Look
<1>2. /\ r.pc = "create" /\ r.cookie = cookie /\ r.want = tab[w].want
      /\ r.seen = Jobs({"running", "ready", "error"})
      /\ r.job = tab[w].job /\ r.orders = tab[w].orders
      /\ r.clear = tab[w].clear /\ r.patch = tab[w].patch
  BY <1>1 DEF Request
<1>3. tab[w].job = NoJobId /\ tab[w].orders = {}
  BY <1>1 DEF TabOK, Making
<1>4. r \in Request
  <2>1. "create" \in Places /\ cookie \in Cookie
        /\ Jobs({"running", "ready", "error"}) \in SUBSET JobId
    BY DEF Places, Asking, Jobs, IInv, TypeInv
  <2> QED BY <1>1, <2>1 DEF Request
<1>5. tab' = [tab EXCEPT ![w] = r]
      /\ UNCHANGED <<type, cluster, node, row, job, seq, cookie, orders, queue, runs, begun,
                     budget>>
  BY DEF Look
<1> HIDE DEF r
<1>6. PICK x \in Request :
        /\ tab' = [tab EXCEPT ![w] = x] /\ x.pc = "create" /\ x.cookie = cookie
        /\ x.want = tab[w].want /\ x.seen = Jobs({"running", "ready", "error"})
        /\ x.job = NoJobId /\ x.orders = {}
        /\ x.clear = tab[w].clear /\ x.patch = tab[w].patch
  BY <1>2, <1>3, <1>4, <1>5
<1>7. x.pc \notin Making /\ x.pc \notin {"closed", "mark", "role", "all"}
  BY <1>6 DEF Making
<1>8. /\ row' \in [Role -> 0 .. 3] /\ \A s \in Role : row'[s] = 3 => type = OnestType
      /\ cookie' \in Cookie /\ cookie'.role # NoRole /\ Fitting(cookie)'
      /\ DOMAIN budget' = {"presses", "faults"} /\ Fitting(x.cookie)'
  BY <1>5, <1>6 DEF IInv, TypeInv, State, Fitting, RolesHere
<1>9. TabOK(x)'
  BY <1>1, <1>5, <1>6, <1>7, <1>8 DEF TabOK
<1>10. IInv'
  BY <1>5, <1>6, <1>7, <1>8, <1>9, TabStep
<1> QED BY <1>6, <1>10

\* A step of one tab on the task it works on.
LEMMA JobStep ==
  ASSUME IInv, NEW w \in Tab, NEW r \in Request, tab' = [tab EXCEPT ![w] = r],
         UNCHANGED <<type, node, cookie, orders, queue, begun>>,
         job' \in [JobId -> JobRow], seq' \in 0 .. MaxJob, seq <= seq',
         \A k \in JobId : Agrees(k)' /\ FewParts(k)',
         \A k \in JobId : k <= seq /\ job'[k].status = "running" => job[k].status = "running",
         \A v \in Tab : v # w /\ tab[v].pc \in Making =>
           job'[tab[v].job] = job[tab[v].job] /\ (r.pc \in Making => tab[v].job # r.job),
         TabOK(r)',
         cluster' \in {cluster, "deployment", "error"},
         row' \in [Role -> 0 .. 3], \A s \in Role : row'[s] = 3 => type = OnestType,
         DOMAIN budget' = {"presses", "faults"}
  PROVE  IInv'
<1>1. /\ tab' \in [Tab -> Request] /\ tab'[w] = r
      /\ \A v \in Tab : v # w => tab'[v] = tab[v]
  BY TabFrame DEF IInv
<1>2. TypeInv'
  BY <1>1 DEF IInv, TypeInv, RolesHere
<1>3. State'
  <2>1. \A o \in orders' \cup Queued' : Proper(o)'
    <3> SUFFICES ASSUME NEW o \in orders \cup Queued PROVE Proper(o)'
      BY DEF Queued
    <3>1. Proper(o) /\ o.job \in Int /\ seq \in Int /\ seq' \in Int
      BY QueuedTyped DEF IInv, State, TypeInv
    <3> QED BY <3>1 DEF Proper, RolesHere
  <2>2. cluster' = "operational" => InError' = {}
    BY DEF IInv, State, InError
  <2>3. cookie'.role # NoRole /\ Fitting(cookie)'
    BY DEF IInv, State, Fitting, RolesHere
  <2>4. \A i \in 1 .. Len(queue') : queue'[i].failed \cap queue'[i].ready = {}
    BY DEF IInv, State
  <2> QED BY <2>1, <2>2, <2>3, <2>4 DEF State
<1>4. \A v \in Tab : TabOK(tab[v])'
  <2> SUFFICES ASSUME NEW v \in Tab PROVE TabOK(tab[v])'
    OBVIOUS
  <2>1. CASE v = w
    <3>1. tab'[v] = r
      BY <1>1, <2>1
    <3> QED BY <3>1
  <2>2. CASE v # w
    <3>1. tab[v].pc \in Making => Forgotten(tab[v].job)'
      BY <1>1, <2>2 DEF IInv, TabOK, Makes, Forgotten, Queued
    <3>2. tab'[v] = tab[v] /\ seq \in Int /\ seq' \in Int
      BY <1>1, <2>2 DEF IInv, TypeInv
    <3> QED BY <2>2, <3>1, <3>2, Bystander
  <2> QED BY <2>1, <2>2
<1>5. Apart'
  BY <1>1 DEF IInv, Apart
<1> QED BY <1>2, <1>3, <1>4, <1>5 DEF IInv

LEMMA ClearKeeps ==
  ASSUME IInv, NEW w \in Tab, Clear(w)
  PROVE  IInv'
<1>1. tab[w] \in Request /\ TabOK(tab[w]) /\ tab[w].clear \in SUBSET JobId
  BY DEF IInv, TypeInv, Request
<1>2. PICK r \in Request :
        /\ tab' = [tab EXCEPT ![w] = r]
        /\ r.pc = tab[w].pc /\ r.job = tab[w].job /\ r.orders = tab[w].orders
        /\ r.want = tab[w].want /\ r.cookie = tab[w].cookie /\ r.clear = {}
  <2> DEFINE r == [tab[w] EXCEPT !.clear = {}]
  <2>1. r \in Request /\ r.pc = tab[w].pc /\ r.job = tab[w].job /\ r.orders = tab[w].orders
        /\ r.want = tab[w].want /\ r.cookie = tab[w].cookie /\ r.clear = {}
    BY <1>1 DEF Request
  <2>2. tab' = [tab EXCEPT ![w] = r]
    BY DEF Clear
  <2> HIDE DEF r
  <2> QED BY <2>1, <2>2
<1>3. /\ job' = [k \in JobId |-> IF k \in tab[w].clear THEN NoJob ELSE job[k]]
      /\ UNCHANGED <<type, cluster, node, row, seq, cookie, orders, queue, runs, begun, budget>>
  BY DEF Clear
<1>4. \A k \in JobId : /\ k \in tab[w].clear => job'[k] = NoJob
                       /\ job[k].status = "running" => job'[k] = job[k]
                       /\ job'[k] = NoJob \/ job'[k] = job[k]
  BY <1>1, <1>3 DEF TabOK
<1>5. job' \in [JobId -> JobRow] /\ seq' \in 0 .. MaxJob /\ seq \in Int /\ seq <= seq'
  BY <1>3, Kinds DEF IInv, TypeInv
<1>6. \A k \in JobId : Agrees(k)' /\ FewParts(k)'
  <2> SUFFICES ASSUME NEW k \in JobId PROVE Agrees(k)' /\ FewParts(k)'
    OBVIOUS
  <2>1. CASE job'[k] = NoJob
    BY <1>3, <2>1, Kinds DEF Agrees, FewParts
  <2>2. CASE job'[k] = job[k]
    BY <1>3, <2>2 DEF Agrees, FewParts, IInv, State
  <2> QED BY <1>4, <2>1, <2>2
<1>7. \A v \in Tab : tab[v].pc \in Making =>
        tab[v].job \in JobId /\ job'[tab[v].job] = job[tab[v].job]
  BY <1>4 DEF IInv, TabOK, Makes
<1>8. r.pc # "closed"
  BY <1>1, <1>2, IdleTyped DEF TabOK, Clear
<1>9. r.pc \in Making => Makes(r)'
  BY <1>1, <1>2, <1>3, <1>7 DEF TabOK, Makes, Forgotten, Queued, Proper, RolesHere
<1>10. TabOK(r)'
  BY <1>1, <1>2, <1>3, <1>8, <1>9 DEF TabOK, Fitting, RolesHere
<1>11. /\ row' \in [Role -> 0 .. 3] /\ \A s \in Role : row'[s] = 3 => type = OnestType
       /\ DOMAIN budget' = {"presses", "faults"}
  BY <1>3 DEF IInv, TypeInv, State
<1>12. \A k \in JobId : k <= seq /\ job'[k].status = "running" => job[k].status = "running"
  BY <1>4 DEF NoJob
<1>13. \A v \in Tab : v # w /\ tab[v].pc \in Making =>
         job'[tab[v].job] = job[tab[v].job] /\ (r.pc \in Making => tab[v].job # r.job)
  BY <1>2, <1>7 DEF IInv, Apart
<1>14. cluster' \in {cluster, "deployment", "error"}
  BY <1>3
<1> QED BY <1>2, <1>3, <1>5, <1>6, <1>10, <1>11, <1>12, <1>13, <1>14, JobStep

LEMMA CreateKeeps ==
  ASSUME IInv, NEW w \in Tab, Create(w)
  PROVE  /\ IInv'
         /\ \E r \in Request :
              /\ tab' = [tab EXCEPT ![w] = r] /\ r.job = seq' /\ r.cookie = tab[w].cookie
              /\ r.want = tab[w].want /\ r.clear = tab[w].clear /\ r.patch = tab[w].patch
              /\ r.nodes = InError /\ r.orders = {} /\ r.pc \in Making
              /\ r.pc = IF InError # {} THEN "deploy"
                        ELSE IF tab[w].cookie.role # All THEN "role"
                        ELSE IF type = Ebs THEN "all" ELSE "start"
         /\ seq' \in JobId /\ seq' = seq + 1
         /\ \A k \in JobId :
              /\ k = seq' => job'[k].status = "running" /\ job'[k].sub = NoParts
              /\ k # seq' => job'[k] = IF k \in tab[w].seen THEN NoJob ELSE job[k]
<1>1. tab[w] \in Request /\ TabOK(tab[w]) /\ tab[w].pc = "create"
      /\ tab[w].seen \in SUBSET JobId /\ tab[w].cookie \in Cookie
  BY DEF IInv, TypeInv, Request, Create
<1> DEFINE pc == IF InError # {} THEN "deploy"
                 ELSE IF tab[w].cookie.role # All THEN "role"
                 ELSE IF type = Ebs THEN "all" ELSE "start"
           new == [NoJob EXCEPT !.status = "running"]
<1>2. seq \in Int /\ 0 <= seq /\ seq < MaxJob /\ seq' = seq + 1 /\ MaxJob \in Nat
  BY BoundsAssumption DEF IInv, TypeInv, Create
<1>3. seq' \in JobId /\ seq' \in 0 .. MaxJob /\ seq <= seq'
  BY <1>2 DEF JobId
<1>4. /\ job' = [k \in JobId |-> IF k = seq' THEN new
                                 ELSE IF k \in tab[w].seen THEN NoJob ELSE job[k]]
      /\ UNCHANGED <<type, cluster, node, row, cookie, orders, queue, runs, begun, budget>>
  BY DEF Create
<1>5. new \in JobRow /\ new.status = "running" /\ new.sub = NoParts
  BY Kinds DEF NoJob, JobRow, Statuses
<1>6. InError \in SUBSET Node
  BY DEF InError
<1>7. PICK r \in Request :
        /\ tab' = [tab EXCEPT ![w] = r] /\ r.job = seq' /\ r.cookie = tab[w].cookie
        /\ r.want = tab[w].want /\ r.clear = tab[w].clear /\ r.patch = tab[w].patch
        /\ r.nodes = InError /\ r.orders = tab[w].orders
        /\ r.pc = pc
  <2> DEFINE r == [tab[w] EXCEPT !.job = seq', !.nodes = InError, !.pc = pc]
  <2>1. pc \in Places /\ seq' \in JobId \cup {NoJobId}
    BY <1>3 DEF Places, Making
  <2>2. tab' = [tab EXCEPT ![w] = r]
    BY DEF Create
  <2> HIDE DEF pc
  <2>3. /\ r \in Request /\ r.job = seq' /\ r.cookie = tab[w].cookie
        /\ r.want = tab[w].want /\ r.clear = tab[w].clear /\ r.patch = tab[w].patch
        /\ r.nodes = InError /\ r.orders = tab[w].orders /\ r.pc = pc
    BY <1>1, <1>6, <2>1 DEF Request
  <2> HIDE DEF r
  <2> QED BY <2>2, <2>3
<1>8. r.orders = {} /\ r.pc \in Making
  BY <1>1, <1>7 DEF TabOK, Making
<1>9. \A k \in JobId :
        /\ k = seq' => job'[k] = new
        /\ k # seq' => job'[k] = IF k \in tab[w].seen THEN NoJob ELSE job[k]
  BY <1>4
<1> HIDE DEF new
<1>10. job' \in [JobId -> JobRow]
  BY <1>4, <1>5, Kinds DEF IInv, TypeInv
<1>11. \A k \in JobId : k > seq' => k > seq
  BY <1>2 DEF JobId
<1>12. \A k \in JobId : Agrees(k)' /\ FewParts(k)'
  <2> SUFFICES ASSUME NEW k \in JobId PROVE Agrees(k)' /\ FewParts(k)'
    OBVIOUS
  <2>1. CASE k = seq'
    <3>1. job'[k] = new /\ ~ (k > seq') /\ \A p \in Part : new.sub[p] = "none"
      BY <1>2, <1>5, <1>9, <2>1, Kinds
    <3> QED BY <1>5, <3>1 DEF Agrees, FewParts
  <2>2. CASE k # seq' /\ k \in tab[w].seen
    <3>1. job'[k] = NoJob
      BY <1>9, <2>2
    <3> QED BY <3>1, Kinds DEF Agrees, FewParts
  <2>3. CASE k # seq' /\ k \notin tab[w].seen
    <3>1. job'[k] = job[k] /\ type' = type
      BY <1>4, <1>9, <2>3
    <3> QED BY <1>11, <3>1 DEF Agrees, FewParts, IInv, State
  <2> QED BY <2>1, <2>2, <2>3
<1>13. \A k \in JobId : k <= seq => k # seq'
  BY <1>2 DEF JobId
<1>14. \A k \in JobId : k <= seq /\ job'[k].status = "running" => job[k].status = "running"
  BY <1>9, <1>13 DEF NoJob
<1>15. \A v \in Tab : tab[v].pc \in Making =>
         /\ tab[v].job \in JobId /\ job[tab[v].job].status = "running"
         /\ tab[v].job <= seq
  <2> SUFFICES ASSUME NEW v \in Tab, tab[v].pc \in Making
               PROVE  /\ tab[v].job \in JobId /\ job[tab[v].job].status = "running"
                      /\ tab[v].job <= seq
    OBVIOUS
  <2>1. tab[v].job \in JobId /\ job[tab[v].job].status = "running"
    BY DEF IInv, TabOK, Makes
  <2>2. tab[v].job > seq => job[tab[v].job] = NoJob
    BY <2>1 DEF IInv, State, Agrees
  <2> QED BY <1>2, <2>1, <2>2 DEF NoJob, JobId
<1>16. \A v \in Tab : v # w /\ tab[v].pc \in Making =>
         job'[tab[v].job] = job[tab[v].job] /\ (r.pc \in Making => tab[v].job # r.job)
  <2> SUFFICES ASSUME NEW v \in Tab, tab[v].pc \in Making
               PROVE  job'[tab[v].job] = job[tab[v].job] /\ tab[v].job # r.job
    OBVIOUS
  <2>1. tab[v].job \notin tab[w].seen
    BY <1>15 DEF Create, Jobs
  <2>2. tab[v].job # seq'
    BY <1>13, <1>15
  <2> QED BY <1>7, <1>9, <1>15, <2>1, <2>2
<1>17. Makes(r)'
  <2>1. \A o \in orders \cup Queued : o.job # seq'
    <3> SUFFICES ASSUME NEW o \in orders \cup Queued PROVE o.job # seq'
      OBVIOUS
    <3>1. o.job <= seq /\ o.job \in JobId
      BY QueuedTyped DEF IInv, State, Proper
    <3> QED BY <1>13, <3>1
  <2>3. job'[seq'].sub = NoParts /\ job'[seq'].status = "running"
    BY <1>3, <1>5, <1>9
  <2>4. Forgotten(r.job)'
    BY <1>4, <1>7, <2>1 DEF Forgotten, Queued
  <2> QED BY <1>3, <1>7, <1>8, <2>3, <2>4, Kinds DEF Makes
<1>18. TabOK(r)'
  <2>1. r.pc \notin {"closed", "mark", "create"}
    BY <1>7
  <2>2. Fitting(r.cookie)'
    BY <1>1, <1>4, <1>7 DEF TabOK, Fitting, RolesHere
  <2>3. (r.pc = "role" => r.cookie.role # All)
        /\ (r.pc = "all" => type' = Ebs /\ r.cookie.role = All)
    BY <1>4, <1>7
  <2>4. \A k \in r.clear : k <= seq' /\ job'[k].status # "running"
    <3> SUFFICES ASSUME NEW k \in r.clear PROVE k <= seq' /\ job'[k].status # "running"
      OBVIOUS
    <3>1. k \in JobId /\ k <= seq /\ job[k].status # "running"
      BY <1>1, <1>7 DEF TabOK, Request
    <3> QED BY <1>2, <1>14, <3>1 DEF JobId
  <2> QED BY <1>8, <1>17, <2>1, <2>2, <2>3, <2>4 DEF TabOK
<1>19. /\ row' \in [Role -> 0 .. 3] /\ \A s \in Role : row'[s] = 3 => type = OnestType
       /\ DOMAIN budget' = {"presses", "faults"}
  BY <1>4 DEF IInv, TypeInv, State
<1>20. IInv'
  BY <1>3, <1>4, <1>7, <1>10, <1>12, <1>14, <1>16, <1>18, <1>19, JobStep
<1> QED BY <1>2, <1>3, <1>5, <1>7, <1>8, <1>9, <1>20

\* A subtask and its message are made.
Subtasked(w, p, act, nodes, pc) ==
  /\ tab[w].job \in JobId
  /\ \E r \in Request :
       /\ tab' = [tab EXCEPT ![w] = r] /\ r.pc = pc /\ r.job = tab[w].job
       /\ r.cookie = tab[w].cookie /\ r.want = tab[w].want
       /\ r.clear = tab[w].clear /\ r.patch = tab[w].patch
       /\ r.orders = tab[w].orders \cup
            {[job |-> tab[w].job, part |-> p, act |-> act, nodes |-> nodes]}
  /\ \A k \in JobId : /\ job'[k].status = job[k].status
                      /\ k # tab[w].job => job'[k] = job[k]
  /\ \A q \in Part : job'[tab[w].job].sub[q] =
                       IF q = p THEN "running" ELSE job[tab[w].job].sub[q]

LEMMA SubtaskKeeps ==
  ASSUME IInv, NEW w \in Tab, NEW p \in RolesHere \cup {NoRole}, NEW act \in Actions,
         NEW nodes \in SUBSET Node, NEW pc \in {"start", "all"},
         tab[w].pc \in {"deploy", "role", "all"}, pc = "all" => tab[w].pc = "all",
         act = "started" => type = OnestType /\ p # NoRole,
         Subtask(w, p, act, nodes, pc),
         UNCHANGED <<type, cluster, node, seq, cookie, orders, queue, runs, begun, budget>>,
         row' \in [Role -> 0 .. 3], \A s \in Role : row'[s] = 3 => type = OnestType
  PROVE  IInv' /\ Subtasked(w, p, act, nodes, pc)
<1> DEFINE t == tab[w]
<1>1. t \in Request /\ TabOK(t) /\ Makes(t) /\ p \in Part
  BY Kinds DEF IInv, TypeInv, TabOK, Making
<1>2. t.job \in JobId /\ job[t.job].status = "running" /\ job[t.job] \in JobRow
      /\ job \in [JobId -> JobRow]
  BY <1>1 DEF Makes, IInv, TypeInv
<1>3. PICK o \in Order :
        /\ o = [job |-> t.job, part |-> p, act |-> act, nodes |-> nodes]
        /\ o.job = t.job /\ o.part = p /\ o.act = act
  <2> DEFINE x == [job |-> t.job, part |-> p, act |-> act, nodes |-> nodes]
  <2>1. x \in Order /\ x.job = t.job /\ x.part = p /\ x.act = act
    BY <1>1, <1>2 DEF Order
  <2> QED BY <2>1
<1>4. t.job <= seq
  <2>1. t.job > seq => job[t.job] = NoJob
    BY <1>2 DEF IInv, State, Agrees
  <2> QED BY <1>2, <2>1 DEF NoJob, JobId, IInv, TypeInv
<1>5. PICK r \in Request :
        /\ tab' = [tab EXCEPT ![w] = r] /\ r.pc = pc /\ r.job = t.job
        /\ r.cookie = t.cookie /\ r.want = t.want
        /\ r.clear = t.clear /\ r.patch = t.patch
        /\ r.orders = t.orders \cup {o}
  <2> DEFINE r == [t EXCEPT !.pc = pc, !.orders = t.orders \cup {o}]
  <2>1. tab' = [tab EXCEPT ![w] = r]
    <3>1. tab' = [tab EXCEPT ![w] = [tab[w] EXCEPT !.pc = pc, !.orders = tab[w].orders \cup
                    {[job |-> tab[w].job, part |-> p, act |-> act, nodes |-> nodes]}]]
      BY <1>1 DEF Subtask, Request
    <3> QED BY <1>3, <3>1
  <2> HIDE DEF t
  <2>2. pc \in Places /\ t.orders \cup {o} \in SUBSET Order
    BY <1>1, <1>3 DEF Places, Making, Request
  <2>3. /\ r \in Request /\ r.pc = pc /\ r.job = t.job
        /\ r.cookie = t.cookie /\ r.want = t.want
        /\ r.clear = t.clear /\ r.patch = t.patch
        /\ r.orders = t.orders \cup {o}
    BY <1>1, <2>2 DEF Request
  <2> HIDE DEF r
  <2> QED BY <2>1, <2>3
<1>6. /\ \A k \in JobId : /\ job'[k].status = job[k].status
                          /\ k # t.job => job'[k] = job[k]
      /\ \A q \in Part : job'[t.job].sub[q] = IF q = p THEN "running" ELSE job[t.job].sub[q]
      /\ job' \in [JobId -> JobRow]
  <2> DEFINE new == [job[t.job] EXCEPT !.sub = [job[t.job].sub EXCEPT ![p] = "running"]]
  <2>1. job' = [job EXCEPT ![t.job] = new]
    BY <1>2, <1>1 DEF Subtask, JobRow, TypeInv, IInv
  <2>2. new \in JobRow /\ new.status = job[t.job].status
        /\ \A q \in Part : new.sub[q] = IF q = p THEN "running" ELSE job[t.job].sub[q]
    BY <1>1, <1>2 DEF JobRow, Statuses
  <2> HIDE DEF new
  <2> QED BY <1>2, <2>1, <2>2
<1>7. \A k \in JobId : Agrees(k)' /\ FewParts(k)'
  <2> SUFFICES ASSUME NEW k \in JobId PROVE Agrees(k)' /\ FewParts(k)'
    OBVIOUS
  <2>1. Agrees(k) /\ FewParts(k) /\ type' = type /\ seq' = seq
    BY DEF IInv, State
  <2>2. CASE k # t.job
    BY <1>6, <2>1, <2>2 DEF Agrees, FewParts
  <2>3. CASE k = t.job
    <3>1. ~ (k > seq)
      BY <1>2, <1>4, <2>3 DEF JobId, IInv, TypeInv
    <3>2. Agrees(k)'
      BY <1>2, <1>6, <2>1, <2>3, <3>1 DEF Agrees
    <3>3. type # Ebs => job[k].sub = NoParts
      BY <1>1, <2>3 DEF TabOK, Makes
    <3>4. FewParts(k)'
      BY <1>6, <2>1, <2>3, <3>3, Kinds DEF FewParts
    <3> QED BY <3>2, <3>4
  <2> QED BY <2>2, <2>3
<1>8. \A v \in Tab : v # w /\ tab[v].pc \in Making =>
        job'[tab[v].job] = job[tab[v].job] /\ (r.pc \in Making => tab[v].job # r.job)
  <2> SUFFICES ASSUME NEW v \in Tab, v # w, tab[v].pc \in Making
               PROVE  job'[tab[v].job] = job[tab[v].job] /\ tab[v].job # r.job
    OBVIOUS
  <2>1. tab[v].job \in JobId /\ tab[w].pc \in Making
    BY DEF IInv, TabOK, Makes, Making
  <2>2. tab[v].job # tab[w].job
    BY <2>1 DEF IInv, Apart
  <2> QED BY <1>5, <1>6, <2>1, <2>2
<1>9. Makes(r)'
  <2>1. \A x \in r.orders : Proper(x)' /\ x.job = r.job /\ job'[r.job].sub[x.part] = "running"
    <3> SUFFICES ASSUME NEW x \in r.orders
                 PROVE  Proper(x)' /\ x.job = r.job /\ job'[r.job].sub[x.part] = "running"
      OBVIOUS
    <3>1. CASE x = o
      <4>1. Proper(o)'
        BY <1>3, <1>4 DEF Proper, RolesHere
      <4> QED BY <1>1, <1>3, <1>5, <1>6, <3>1, <4>1
    <3>2. CASE x \in t.orders
      <4>1. Proper(x) /\ x.job = t.job /\ job[t.job].sub[x.part] = "running"
        BY <1>1, <3>2 DEF Makes
      <4>2. Proper(x)' /\ x.part \in Part
        BY <4>1, Kinds DEF Proper, RolesHere
      <4> QED BY <1>5, <1>6, <4>1, <4>2
    <3> QED BY <1>5, <3>1, <3>2
  <2>2. \A q \in Part : job'[r.job].sub[q] = "none"
                        \/ (job'[r.job].sub[q] = "running" /\ \E x \in r.orders : x.part = q)
    <3> SUFFICES ASSUME NEW q \in Part
                 PROVE  job'[r.job].sub[q] = "none"
                        \/ (job'[r.job].sub[q] = "running" /\ \E x \in r.orders : x.part = q)
      OBVIOUS
    <3>1. CASE q = p
      <4>1. o \in r.orders /\ o.part = q /\ job'[r.job].sub[q] = "running"
        BY <1>3, <1>5, <1>6, <3>1
      <4> QED BY <4>1
    <3>2. CASE q # p
      <4>1. job'[r.job].sub[q] = job[t.job].sub[q] /\ t.orders \subseteq r.orders
        BY <1>5, <1>6, <3>2
      <4>2. \/ job[t.job].sub[q] = "none"
            \/ job[t.job].sub[q] = "running" /\ \E x \in t.orders : x.part = q
        BY <1>1 DEF Makes
      <4>3. r.job = t.job
        BY <1>5
      <4> HIDE DEF t
      <4> QED BY <4>1, <4>2, <4>3
    <3> QED BY <3>1, <3>2
  <2>3. Forgotten(r.job)'
    BY <1>1, <1>5 DEF Makes, Forgotten, Queued
  <2>4. r.pc \notin {"deploy", "role"} /\ r.job \in JobId /\ job'[r.job].status = "running"
    BY <1>2, <1>5, <1>6
  <2> QED BY <2>1, <2>2, <2>3, <2>4 DEF Makes
<1>10. TabOK(r)'
  <2>1. r.pc \in Making /\ r.pc \notin {"closed", "mark", "role"}
    BY <1>5 DEF Making
  <2>2. Fitting(r.cookie)' /\ (r.pc = "all" => type' = Ebs /\ r.cookie.role = All)
    BY <1>1, <1>5 DEF TabOK, Fitting, RolesHere, Making
  <2>3. \A k \in r.clear : k <= seq' /\ job'[k].status # "running"
    <3>1. r.clear = t.clear /\ \A k \in t.clear : k \in JobId
      BY <1>1, <1>5 DEF Request
    <3> QED BY <1>1, <1>6, <3>1 DEF TabOK
  <2> QED BY <1>9, <2>1, <2>2, <2>3 DEF TabOK
<1>11. /\ DOMAIN budget' = {"presses", "faults"} /\ seq' \in 0 .. MaxJob /\ seq <= seq'
       /\ cluster' \in {cluster, "deployment", "error"}
  BY DEF IInv, TypeInv
<1>12. \A k \in JobId : k <= seq /\ job'[k].status = "running" => job[k].status = "running"
  BY <1>6
<1>13. IInv'
  BY <1>5, <1>6, <1>7, <1>8, <1>10, <1>11, <1>12, JobStep
<1> QED BY <1>2, <1>3, <1>5, <1>6, <1>13 DEF Subtasked

LEMMA DeployNodesKeeps ==
  ASSUME IInv, NEW w \in Tab, DeployNodes(w)
  PROVE  /\ IInv' /\ tab[w].nodes \in SUBSET Node
         /\ Subtasked(w, NoRole, "start", tab[w].nodes, "start")
<1>1. tab[w].nodes \in SUBSET Node
  BY DEF IInv, TypeInv, Request
<1>2. /\ Subtask(w, NoRole, "start", tab[w].nodes, "start") /\ tab[w].pc = "deploy"
      /\ UNCHANGED <<type, cluster, node, row, seq, cookie, orders, queue, runs, begun, budget>>
  BY DEF DeployNodes
<1>3. row' \in [Role -> 0 .. 3] /\ \A s \in Role : row'[s] = 3 => type = OnestType
  BY <1>2 DEF IInv, TypeInv, State
<1>4. "start" \in Actions
  BY DEF Actions
<1> DEFINE nodes == tab[w].nodes
<1> HIDE DEF nodes
<1>5. Subtask(w, NoRole, "start", nodes, "start") /\ nodes \in SUBSET Node
  BY <1>1, <1>2 DEF nodes
<1>6. IInv' /\ Subtasked(w, NoRole, "start", nodes, "start")
  BY <1>2, <1>3, <1>4, <1>5, SubtaskKeeps
<1> QED BY <1>1, <1>6 DEF nodes

LEMMA RoleCookie ==
  ASSUME IInv, NEW w \in Tab, tab[w].pc = "role"
  PROVE  /\ tab[w].cookie.role \in RolesHere /\ tab[w].cookie.act \in Actions
         /\ tab[w].cookie.act = "started" => type = OnestType
<1>1. tab[w] \in Request /\ TabOK(tab[w]) /\ tab[w].pc \in Making
  BY DEF IInv, TypeInv, Making
<1>2. tab[w].cookie \in Cookie /\ Fitting(tab[w].cookie) /\ tab[w].cookie.role # All
  BY <1>1 DEF Request, TabOK
<1> QED BY <1>2 DEF Cookie, Fitting

LEMMA OperateRoleKeeps ==
  ASSUME IInv, NEW w \in Tab, OperateRole(w)
  PROVE  IInv' /\ Subtasked(w, tab[w].cookie.role, tab[w].cookie.act, Ready, "start")
<1>1. tab[w].pc = "role"
  BY DEF OperateRole
<1> DEFINE p == tab[w].cookie.role
           act == tab[w].cookie.act
           nodes == Ready
<1>2. /\ p \in RolesHere /\ act \in Actions
      /\ act = "started" => type = OnestType
      /\ p # NoRole /\ p \in RolesHere \cup {NoRole}
  BY <1>1, RoleCookie, Kinds
<1>3. /\ Subtask(w, p, act, nodes, "start") /\ nodes \in SUBSET Node
      /\ UNCHANGED <<type, cluster, node, row, seq, cookie, orders, queue, runs, begun, budget>>
  BY DEF OperateRole, Ready
<1>4. row' \in [Role -> 0 .. 3] /\ \A s \in Role : row'[s] = 3 => type = OnestType
  BY <1>3 DEF IInv, TypeInv, State
<1> HIDE DEF p, act, nodes
<1>5. IInv' /\ Subtasked(w, p, act, nodes, "start")
  BY <1>1, <1>2, <1>3, <1>4, SubtaskKeeps
<1> QED BY <1>5 DEF p, act, nodes

LEMMA OperateAllKeeps ==
  ASSUME IInv, NEW w \in Tab, OperateAll(w)
  PROVE  /\ IInv'
         /\ \E p \in ToOperate(w) :
              /\ Subtasked(w, p, AllAction(w), NodesOf[p] \cap Ready, "all")
              /\ row' = [row EXCEPT ![p] = IF AllAction(w) = "stop" THEN 1 ELSE 2]
<1>1. tab[w].pc = "all" /\ type = Ebs
  BY DEF OperateAll, IInv, TabOK
<1>2. PICK p \in ToOperate(w) :
        /\ Subtask(w, p, AllAction(w), NodesOf[p] \cap Ready, "all")
        /\ row' = [row EXCEPT ![p] = IF AllAction(w) = "stop" THEN 1 ELSE 2]
  BY DEF OperateAll
<1>3. UNCHANGED <<type, cluster, node, seq, cookie, orders, queue, runs, begun, budget>>
  BY DEF OperateAll
<1> DEFINE act == AllAction(w)
           nodes == NodesOf[p] \cap Ready
<1>4. p \in Role /\ p \in RolesHere \cup {NoRole} /\ act \in Actions /\ act # "started"
      /\ nodes \in SUBSET Node
  BY <1>1 DEF ToOperate, RolesHere, AllAction, Actions, Ready, Ebs, OnestType
<1>5. row' \in [Role -> 0 .. 3] /\ \A s \in Role : row'[s] = 3 => type = OnestType
  BY <1>2, <1>4 DEF IInv, TypeInv, State
<1>6. Subtask(w, p, act, nodes, "all")
  BY <1>2
<1> HIDE DEF act, nodes
<1>7. IInv' /\ Subtasked(w, p, act, nodes, "all")
  BY <1>1, <1>3, <1>4, <1>5, <1>6, SubtaskKeeps
<1> QED BY <1>2, <1>7 DEF act, nodes

\* A subtask ends: what the task is then agrees with its subtasks.
LEMMA UpdatedAgrees ==
  ASSUME IInv, NEW k \in JobId, NEW p \in Part, NEW st \in {"ready", "error"},
         job[k].status # "none", job[k].sub[p] # "none" \/ job[k].sub = NoParts,
         job'[k] = Updated(job[k], p, st), type' = type, seq' = seq
  PROVE  /\ Agrees(k)' /\ FewParts(k)'
         /\ job'[k] \in JobRow
         /\ job'[k].status = "running" => job[k].status = "running"
<1> DEFINE u == Updated(job[k], p, st)
<1>1. job[k] \in JobRow /\ Agrees(k) /\ FewParts(k)
  BY DEF IInv, TypeInv, State
<1>2. Ended(job[k], p, st, u)
  BY <1>1, UpdatedRow
<1> HIDE DEF u
<1>3. ~ (k > seq) /\ u.status # "none"
  BY <1>1, <1>2 DEF Agrees, NoJob, Ended
<1>4. job'[k] = u
  BY DEF u
<1>5. Agrees(k)'
  BY <1>1, <1>2, <1>3, <1>4 DEF Agrees, Ended
<1>6. \A q \in Part : u.sub[q] # "none" => q = p \/ job[k].sub[q] # "none"
  BY <1>2 DEF Ended
<1>7. job[k].sub = NoParts => \A q \in Part : job[k].sub[q] = "none"
  BY Kinds
<1>8. FewParts(k)'
  BY <1>1, <1>4, <1>6, <1>7 DEF FewParts
<1>9. u \in JobRow /\ (u.status = "running" => job[k].status = "running")
  BY <1>2 DEF Ended
<1> QED BY <1>4, <1>5, <1>8, <1>9

\* The request ends, and with it the making of its task.
LEMMA EndStep ==
  ASSUME IInv, NEW w \in Tab, tab[w].pc \in {"deploy", "role"},
         tab' = [tab EXCEPT ![w] = Left(w)],
         UNCHANGED <<type, node, row, seq, cookie, orders, queue, begun>>,
         job' \in [JobId -> JobRow],
         \A k \in JobId : k # tab[w].job => job'[k] = job[k],
         \A k \in JobId : Agrees(k)' /\ FewParts(k)',
         cluster' \in {cluster, "deployment", "error"},
         DOMAIN budget' = {"presses", "faults"}
  PROVE  IInv'
<1>1. PICK r \in Request :
        /\ tab' = [tab EXCEPT ![w] = r] /\ r.pc = "idle" /\ r.clear = tab[w].clear
        /\ r.orders = {} /\ r.job = NoJobId
  BY LeftTyped DEF IInv
<1>2. TabOK(tab[w]) /\ tab[w].pc \in Making /\ tab[w].clear \in SUBSET JobId
      /\ tab[w].job \in JobId /\ job[tab[w].job].status = "running"
  BY DEF IInv, TypeInv, Request, Making, TabOK, Makes
<1>3. r.pc \notin Making /\ r.pc \notin {"closed", "mark", "create", "role", "all"}
  BY <1>1 DEF Making
<1>4. \A k \in JobId : k <= seq /\ job'[k].status = "running" => job[k].status = "running"
  BY <1>2
<1>5. \A k \in r.clear : k <= seq' /\ job'[k].status # "running"
  BY <1>1, <1>2, <1>4 DEF TabOK
<1>6. TabOK(r)'
  BY <1>1, <1>3, <1>5 DEF TabOK
<1>7. \A v \in Tab : v # w /\ tab[v].pc \in Making =>
        job'[tab[v].job] = job[tab[v].job] /\ (r.pc \in Making => tab[v].job # r.job)
  BY <1>2, <1>3 DEF IInv, Apart, TabOK, Makes
<1>8. /\ seq' \in 0 .. MaxJob /\ seq <= seq' /\ row' \in [Role -> 0 .. 3]
      /\ \A s \in Role : row'[s] = 3 => type = OnestType
  BY DEF IInv, TypeInv, State
<1> QED BY <1>1, <1>4, <1>6, <1>7, <1>8, JobStep

LEMMA DeployNodesFailsKeeps ==
  ASSUME IInv, NEW w \in Tab, DeployNodesFails(w)
  PROVE  /\ IInv'
         /\ tab[w].job \in JobId
         /\ job'[tab[w].job] = Updated(job[tab[w].job], NoRole, "error")
         /\ \A k \in JobId : k # tab[w].job => job'[k] = job[k]
<1>1. tab[w].pc = "deploy" /\ tab[w].pc \in Making /\ TabOK(tab[w])
  BY DEF DeployNodesFails, Making, IInv
<1>2. /\ tab[w].job \in JobId /\ job[tab[w].job].status = "running"
      /\ job[tab[w].job].sub = NoParts
  BY <1>1 DEF TabOK, Makes
<1>3. /\ job' = [job EXCEPT ![tab[w].job] = Updated(job[tab[w].job], NoRole, "error")]
      /\ cluster' = "error" /\ tab' = [tab EXCEPT ![w] = Left(w)]
      /\ UNCHANGED <<type, node, row, seq, cookie, orders, queue, begun>>
      /\ DOMAIN budget' = {"presses", "faults"}
  BY DEF DeployNodesFails, IInv, TypeInv
<1>4. job'[tab[w].job] = Updated(job[tab[w].job], NoRole, "error")
      /\ \A k \in JobId : k # tab[w].job => job'[k] = job[k]
  BY <1>2, <1>3 DEF IInv, TypeInv
<1>5. PICK i \in JobId : i = tab[w].job
  BY <1>2
<1>6. /\ \A k \in JobId : Agrees(k)' /\ FewParts(k)'
      /\ job'[i] \in JobRow
  <2>1. Agrees(i)' /\ FewParts(i)' /\ job'[i] \in JobRow
    <3>1. /\ job[i].status # "none" /\ job[i].sub = NoParts
          /\ job'[i] = Updated(job[i], NoRole, "error") /\ NoRole \in Part
      BY <1>2, <1>4, <1>5, Kinds
    <3> QED BY <1>3, <3>1, UpdatedAgrees
  <2>2. \A k \in JobId : k # i => Agrees(k)' /\ FewParts(k)'
    BY <1>3, <1>4, <1>5 DEF IInv, State, Agrees, FewParts
  <2> QED BY <2>1, <2>2
<1>7. job' \in [JobId -> JobRow]
  BY <1>3, <1>4, <1>5, <1>6 DEF IInv, TypeInv
<1>8. IInv'
  BY <1>1, <1>3, <1>4, <1>6, <1>7, EndStep
<1> QED BY <1>2, <1>4, <1>8

LEMMA OperateRoleFailsKeeps ==
  ASSUME IInv, NEW w \in Tab, OperateRoleFails(w)
  PROVE  /\ IInv'
         /\ tab[w].job \in JobId
         /\ \A k \in JobId : /\ job'[k].status = job[k].status
                             /\ k # tab[w].job => job'[k] = job[k]
         /\ \A q \in Part : job'[tab[w].job].sub[q] =
              IF q = tab[w].cookie.role THEN "running" ELSE job[tab[w].job].sub[q]
<1>1. tab[w].pc = "role" /\ tab[w].pc \in Making /\ TabOK(tab[w])
  BY DEF OperateRoleFails, Making, IInv
<1> DEFINE i == tab[w].job
           p == tab[w].cookie.role
           new == [job[i] EXCEPT !.sub = [job[i].sub EXCEPT ![p] = "running"]]
<1>2. /\ i \in JobId /\ job[i].status = "running" /\ job[i].sub = NoParts
      /\ p \in Part /\ job[i] \in JobRow
  BY <1>1, RoleCookie, Kinds DEF TabOK, Makes, IInv, TypeInv
<1>3. /\ job' = [job EXCEPT ![i].sub[p] = "running"] /\ tab' = [tab EXCEPT ![w] = Left(w)]
      /\ UNCHANGED <<type, cluster, node, row, seq, cookie, orders, queue, begun>>
      /\ DOMAIN budget' = {"presses", "faults"}
  BY DEF OperateRoleFails, Abandon, IInv, TypeInv
<1>4. job' = [job EXCEPT ![i] = new]
  BY <1>2, <1>3 DEF JobRow, IInv, TypeInv
<1>5. new \in JobRow /\ new.status = job[i].status
      /\ \A q \in Part : new.sub[q] = IF q = p THEN "running" ELSE job[i].sub[q]
  BY <1>2 DEF JobRow, Statuses
<1> HIDE DEF new
<1>6. job' \in [JobId -> JobRow] /\ job'[i] = new
      /\ \A k \in JobId : k # i => job'[k] = job[k]
  BY <1>2, <1>4, <1>5 DEF IInv, TypeInv
<1>7. \A k \in JobId : Agrees(k)' /\ FewParts(k)'
  <2> SUFFICES ASSUME NEW k \in JobId PROVE Agrees(k)' /\ FewParts(k)'
    OBVIOUS
  <2>1. CASE k = i
    <3>1. job'[k] = new /\ seq' = seq /\ type' = type
      BY <1>3, <1>6, <2>1
    <3>2. ~ (k > seq) /\ new.status # "none"
      BY <1>2, <1>5, <2>1 DEF IInv, State, Agrees, NoJob
    <3>3. \A q \in Part : job[i].sub[q] = "none"
      BY <1>2, Kinds
    <3> HIDE DEF i, p
    <3>4. Agrees(k)'
      BY <1>2, <1>5, <3>1, <3>2, <3>3 DEF Agrees
    <3>5. FewParts(k)'
      BY <1>5, <3>1, <3>3 DEF FewParts
    <3> QED BY <3>4, <3>5
  <2>2. CASE k # i
    <3>1. job'[k] = job[k] /\ Agrees(k) /\ FewParts(k)
      BY <1>6, <2>2 DEF IInv, State
    <3> QED BY <1>3, <3>1 DEF Agrees, FewParts
  <2> QED BY <2>1, <2>2
<1>8. IInv'
  BY <1>1, <1>3, <1>6, <1>7, EndStep
<1> QED BY <1>2, <1>5, <1>6, <1>8

\* A step of the world around the tabs, one of which may come to rest.
LEMMA WorldStep ==
  ASSUME IInv, TypeInv', State', type' = type, seq' = seq,
         \A v \in Tab : tab'[v] = tab[v] \/ tab'[v] = Idle,
         \A k \in JobId : k <= seq /\ job'[k].status = "running" => job[k].status = "running",
         \A v \in Tab : tab'[v] = tab[v] /\ tab[v].pc \in Making =>
           job'[tab[v].job] = job[tab[v].job] /\ Forgotten(tab[v].job)'
  PROVE  IInv'
<1>1. \A v \in Tab : TabOK(tab[v])'
  <2> SUFFICES ASSUME NEW v \in Tab PROVE TabOK(tab[v])'
    OBVIOUS
  <2>1. CASE tab'[v] = tab[v]
    <3>1. seq \in Int /\ seq' \in Int /\ seq <= seq'
      BY DEF IInv, TypeInv
    <3> QED BY <2>1, <3>1, Bystander
  <2>2. CASE tab'[v] = Idle
    <3>1. Idle.pc \notin Making \cup {"closed", "mark", "create", "role", "all"}
      BY IdleTyped DEF Making
    <3>2. TabOK(Idle)'
      BY <3>1, IdleTyped DEF TabOK
    <3> QED BY <2>2, <3>2 DEF TabOK
  <2> QED BY <2>1, <2>2
<1>2. Apart'
  <2>1. Idle.pc \notin Making
    BY IdleTyped DEF Making
  <2> QED BY <2>1 DEF IInv, Apart
<1> QED BY <1>1, <1>2 DEF IInv

LEMMA CastKeeps ==
  ASSUME IInv, NEW w \in Tab, Cast(w)
  PROVE  IInv'
<1>1. /\ tab[w] \in Request /\ TabOK(tab[w]) /\ tab[w].pc \in Making
      /\ tab[w].orders \in SUBSET Order
  BY DEF IInv, TypeInv, Request, Cast, Making
<1>2. /\ orders' = orders \cup tab[w].orders /\ tab' = [tab EXCEPT ![w] = Idle]
      /\ UNCHANGED <<type, cluster, node, row, job, seq, cookie, queue, runs, begun, budget>>
  BY DEF Cast
<1>3. /\ tab' \in [Tab -> Request] /\ tab'[w] = Idle
      /\ \A v \in Tab : v # w => tab'[v] = tab[v]
  BY <1>2, TabFrame, IdleTyped DEF IInv
<1>4. \A o \in tab[w].orders : Proper(o) /\ o.job = tab[w].job
  BY <1>1 DEF TabOK, Makes
<1>5. TypeInv'
  BY <1>1, <1>2, <1>3 DEF IInv, TypeInv, RolesHere
<1>6. State'
  <2>1. \A o \in orders' \cup Queued' : Proper(o)'
    BY <1>2, <1>4 DEF IInv, State, Queued, Proper, RolesHere
  <2>2. /\ cookie'.role # NoRole /\ Fitting(cookie)'
        /\ \A r \in Role : row'[r] = 3 => type' = OnestType
        /\ \A k \in JobId : Agrees(k)' /\ FewParts(k)'
        /\ \A i \in 1 .. Len(queue') : queue'[i].failed \cap queue'[i].ready = {}
        /\ cluster' = "operational" => InError' = {}
    BY <1>2 DEF IInv, State, Fitting, RolesHere, Agrees, FewParts, InError
  <2> QED BY <2>1, <2>2 DEF State
<1>7. \A v \in Tab : tab'[v] = tab[v] \/ tab'[v] = Idle
  BY <1>3
<1>8. \A v \in Tab : tab'[v] = tab[v] /\ tab[v].pc \in Making =>
        job'[tab[v].job] = job[tab[v].job] /\ Forgotten(tab[v].job)'
  <2> SUFFICES ASSUME NEW v \in Tab, tab'[v] = tab[v], tab[v].pc \in Making
               PROVE  Forgotten(tab[v].job)'
    BY <1>2
  <2>1. v # w
    BY <1>1, <1>3, IdleTyped DEF Making
  <2>2. tab[v].job # tab[w].job /\ Forgotten(tab[v].job)
    BY <1>1, <2>1 DEF IInv, Apart, TabOK, Makes
  <2> QED BY <1>2, <1>4, <2>2 DEF Forgotten, Queued
<1>9. type' = type /\ seq' = seq
      /\ \A k \in JobId : k <= seq /\ job'[k].status = "running" => job[k].status = "running"
  BY <1>2
<1> QED BY <1>5, <1>6, <1>7, <1>8, <1>9, WorldStep

\* A reply joins the queue, the order it answers is no longer worked on.
LEMMA AnswerKeeps ==
  ASSUME IInv, NEW o \in orders, Answer(o)
  PROVE  /\ IInv'
         /\ \E m \in Reply :
              /\ m.order = o /\ queue' = Append(queue, m)
              /\ Len(queue') = Len(queue) + 1 /\ queue'[Len(queue) + 1] = m
              /\ \A i \in 1 .. Len(queue) : queue'[i] = queue[i]
              /\ Queued' = Queued \cup {o}
              /\ m.failed \cap m.ready = {} /\ m.failed \subseteq o.nodes
              /\ m.ready \subseteq o.nodes
              /\ m.status = "ready" => m.ready = o.nodes \ m.failed
              /\ IF Succeeds(m) /\ o.part # NoRole
                 THEN CarriedOut(o) ELSE UNCHANGED <<runs, begun>>
<1>1. o \in Order /\ o.nodes \in SUBSET Node
  BY DEF IInv, TypeInv, Order
<1>2. PICK st \in {"ready", "error"}, failed \in SUBSET o.nodes :
        \E ready \in {{}, o.nodes \ failed} :
          LET m == [order |-> o, status |-> st, failed |-> failed, ready |-> ready] IN
          /\ st = "ready" => ready = o.nodes \ failed
          /\ queue' = Append(queue, m)
          /\ IF Succeeds(m) /\ o.part # NoRole
             THEN CarriedOut(o) ELSE UNCHANGED <<runs, begun>>
  BY DEF Answer
<1>3. PICK ready \in {{}, o.nodes \ failed} :
          LET m == [order |-> o, status |-> st, failed |-> failed, ready |-> ready] IN
          /\ st = "ready" => ready = o.nodes \ failed
          /\ queue' = Append(queue, m)
          /\ IF Succeeds(m) /\ o.part # NoRole
             THEN CarriedOut(o) ELSE UNCHANGED <<runs, begun>>
  BY <1>2
<1>4. PICK m \in Reply :
        /\ m.order = o /\ m.status = st /\ m.failed = failed /\ m.ready = ready
        /\ queue' = Append(queue, m)
        /\ IF Succeeds(m) /\ o.part # NoRole THEN CarriedOut(o) ELSE UNCHANGED <<runs, begun>>
  <2> DEFINE m == [order |-> o, status |-> st, failed |-> failed, ready |-> ready]
  <2>1. m \in Reply /\ m.order = o /\ m.status = st /\ m.failed = failed /\ m.ready = ready
    BY <1>1, <1>2, <1>3 DEF Reply
  <2>2. /\ queue' = Append(queue, m)
        /\ IF Succeeds(m) /\ o.part # NoRole THEN CarriedOut(o) ELSE UNCHANGED <<runs, begun>>
    BY <1>3
  <2> HIDE DEF m
  <2> QED BY <2>1, <2>2
<1>5. m.failed \cap m.ready = {} /\ m.failed \subseteq o.nodes /\ m.ready \subseteq o.nodes
      /\ (m.status = "ready" => m.ready = o.nodes \ m.failed)
  BY <1>2, <1>3, <1>4
<1>6. /\ queue \in Seq(Reply) /\ queue' \in Seq(Reply)
      /\ Len(queue') = Len(queue) + 1 /\ queue'[Len(queue) + 1] = m
      /\ \A i \in 1 .. Len(queue) : queue'[i] = queue[i]
      /\ \A i \in 1 .. Len(queue') : i \in 1 .. Len(queue) \/ i = Len(queue) + 1
      /\ Len(queue) \in Nat
  BY <1>4 DEF IInv, TypeInv
<1>7. Queued' = Queued \cup {o}
  <2>1. Queued' \subseteq Queued \cup {o}
    BY <1>4, <1>6 DEF Queued
  <2>2. \A i \in 1 .. Len(queue) : i \in 1 .. Len(queue')
    BY <1>6
  <2>3. Len(queue) + 1 \in 1 .. Len(queue')
    BY <1>6
  <2>4. Queued \subseteq Queued'
    BY <1>6, <2>2 DEF Queued
  <2>5. o \in Queued'
    BY <1>4, <1>6, <2>3 DEF Queued
  <2> QED BY <2>1, <2>4, <2>5
<1>8. /\ orders' = orders \ {o}
      /\ UNCHANGED <<type, cluster, node, row, job, seq, cookie, tab, budget>>
  BY DEF Answer
<1>9. orders' \cup Queued' = orders \cup Queued
  BY <1>7, <1>8
<1>10. begun' \subseteq RolesHere
  <2>1. begun' = begun \/ (o.part # NoRole /\ begun' = begun \cup {o.part})
    BY <1>4 DEF CarriedOut
  <2>2. o.part \in RolesHere \cup {NoRole}
    BY DEF IInv, State, Proper
  <2> QED BY <2>1, <2>2 DEF IInv, TypeInv
<1>11. TypeInv'
  BY <1>6, <1>8, <1>10 DEF IInv, TypeInv, RolesHere
<1>12. State'
  <2>1. \A x \in orders' \cup Queued' : Proper(x)'
    BY <1>8, <1>9 DEF IInv, State, Proper, RolesHere
  <2>2. \A i \in 1 .. Len(queue') : queue'[i].failed \cap queue'[i].ready = {}
    BY <1>5, <1>6 DEF IInv, State
  <2>3. /\ cookie'.role # NoRole /\ Fitting(cookie)'
        /\ \A r \in Role : row'[r] = 3 => type' = OnestType
        /\ \A k \in JobId : Agrees(k)' /\ FewParts(k)'
        /\ cluster' = "operational" => InError' = {}
    BY <1>8 DEF IInv, State, Fitting, RolesHere, Agrees, FewParts, InError
  <2> QED BY <2>1, <2>2, <2>3 DEF State
<1>13. \A v \in Tab : tab'[v] = tab[v] /\ tab[v].pc \in Making =>
        job'[tab[v].job] = job[tab[v].job] /\ Forgotten(tab[v].job)'
  BY <1>8, <1>9 DEF IInv, TabOK, Makes, Forgotten
<1>14. IInv'
  BY <1>8, <1>11, <1>12, <1>13, WorldStep
<1> QED BY <1>4, <1>5, <1>6, <1>7, <1>14

\* The head of the queue and what remains.
LEMMA Oldest ==
  ASSUME TypeInv, queue # <<>>
  PROVE  /\ Head(queue) = queue[1] /\ 1 \in 1 .. Len(queue) /\ queue[1] \in Reply
         /\ queue[1].order \in Queued /\ queue[1].order \in Order
         /\ Tail(queue) \in Seq(Reply) /\ Len(Tail(queue)) = Len(queue) - 1
         /\ \A i \in 1 .. Len(Tail(queue)) :
              Tail(queue)[i] = queue[i + 1] /\ i + 1 \in 1 .. Len(queue)
<1>1. queue \in Seq(Reply) /\ Len(queue) \in Nat /\ Len(queue) > 0
  BY DEF TypeInv
<1>2. 1 \in 1 .. Len(queue) /\ Head(queue) = queue[1] /\ queue[1] \in Reply
  BY <1>1
<1>3. /\ Tail(queue) \in Seq(Reply) /\ Len(Tail(queue)) = Len(queue) - 1
      /\ \A i \in 1 .. Len(Tail(queue)) :
           Tail(queue)[i] = queue[i + 1] /\ i + 1 \in 1 .. Len(queue)
  BY <1>1
<1>4. queue[1].order \in Queued
  BY <1>2 DEF Queued
<1> QED BY <1>2, <1>3, <1>4 DEF Reply

\* A reply is handled: its task is gone, or one part of it ends.
LEMMA Received ==
  ASSUME IInv, NEW m \in Reply, m.order \in Queued, Receive(m), type' = type, seq' = seq
  PROVE  /\ m.order.job \in JobId /\ m.order.part \in Part
         /\ \/ /\ job[m.order.job].sub[m.order.part] = "none"
               /\ UNCHANGED <<cluster, node, row, job>>
            \/ /\ job[m.order.job].sub[m.order.part] # "none"
               /\ node' = Reported(m)
               /\ Ended(job[m.order.job], m.order.part, Verdict(m), job'[m.order.job])
               /\ \A k \in JobId : k # m.order.job => job'[k] = job[k]
               /\ cluster' = (CASE job'[m.order.job].status = "error" -> "error"
                                [] job'[m.order.job].status = "ready" -> "operational"
                                [] OTHER -> cluster)
               /\ \A r \in Role : row'[r] = IF Verdict(m) = "error" /\ r = m.order.part
                                            THEN RolledBack(m.order.act) ELSE row[r]
         /\ Verdict(m) = "ready" => InError' = {} \/ job[m.order.job].sub[m.order.part] = "none"
         /\ node' \in [Node -> {"ready", "error"}] /\ row' \in [Role -> 0 .. 3]
         /\ job' \in [JobId -> JobRow]
         /\ \A k \in JobId : Agrees(k)' /\ FewParts(k)'
         /\ \A k \in JobId : job'[k].status = "running" => job[k].status = "running"
         /\ \A r \in Role : row'[r] = 3 => type = OnestType
         /\ cluster' \in {"operational", "deployment", "error"}
         /\ cluster' = "operational" => InError' = {}
<1>1. PICK o \in Order : o = m.order
  BY DEF Reply
<1>2. Proper(o) /\ o.job \in JobId /\ o.part \in RolesHere \cup {NoRole} /\ o.act \in Actions
  BY <1>1, QueuedTyped DEF IInv, State, Proper, Order
<1>3. PICK k \in JobId : k = o.job
  BY <1>2
<1>4. PICK p \in Part : p = o.part
  BY <1>2, Kinds
<1>5. /\ node \in [Node -> {"ready", "error"}] /\ row \in [Role -> 0 .. 3]
      /\ job \in [JobId -> JobRow] /\ cluster \in {"operational", "deployment", "error"}
      /\ \A i \in JobId : Agrees(i) /\ FewParts(i)
      /\ \A r \in Role : row[r] = 3 => type = OnestType
      /\ cluster = "operational" => InError = {}
  BY DEF IInv, TypeInv, State
<1>6. CASE job[k].sub[p] = "none"
  <2>1. UNCHANGED <<cluster, node, row, job>>
    BY <1>1, <1>3, <1>4, <1>6 DEF Receive
  <2>2. \A i \in JobId : Agrees(i)' /\ FewParts(i)'
    BY <1>5, <2>1 DEF Agrees, FewParts
  <2>3. InError' = InError
    BY <2>1 DEF InError
  <2> QED BY <1>1, <1>3, <1>4, <1>5, <1>6, <2>1, <2>2, <2>3
<1>7. CASE job[k].sub[p] # "none"
  <2>1. PICK st \in {"ready", "error"} : st = Verdict(m)
    BY DEF Verdict
  <2> DEFINE j == Updated(job[k], p, st)
  <2>2. /\ node' = Reported(m) /\ job' = [job EXCEPT ![k] = j]
        /\ cluster' = (CASE j.status = "error" -> "error"
                         [] j.status = "ready" -> "operational"
                         [] OTHER -> cluster)
        /\ row' = IF st = "error" /\ p # NoRole THEN [row EXCEPT ![p] = RolledBack(o.act)]
                  ELSE row
    BY <1>1, <1>3, <1>4, <1>7, <2>1 DEF Receive
  <2>3. Ended(job[k], p, st, j)
    BY <1>5, UpdatedRow
  <2>4. job'[k] = j /\ \A i \in JobId : i # k => job'[i] = job[i]
    BY <1>5, <2>2
  <2>5. job[k].status # "none"
    BY <1>5, <1>7, Kinds DEF Agrees
  <2>6. Agrees(k)' /\ FewParts(k)' /\ job'[k] \in JobRow
        /\ (job'[k].status = "running" => job[k].status = "running")
    BY <1>7, <2>4, <2>5, UpdatedAgrees
  <2>7. \A i \in JobId : i # k => Agrees(i)' /\ FewParts(i)'
    BY <1>5, <2>4 DEF Agrees, FewParts
  <2>8. job' \in [JobId -> JobRow]
    BY <1>5, <2>2, <2>6, <2>4
  <2>9. RolledBack(o.act) \in 0 .. 3 /\ (RolledBack(o.act) = 3 => type = OnestType)
    BY <1>2 DEF RolledBack, Proper, Actions
  <2>10. \A r \in Role : row'[r] = IF st = "error" /\ r = p THEN RolledBack(o.act) ELSE row[r]
    BY <1>5, <2>2, Kinds
  <2>11. row' \in [Role -> 0 .. 3]
    BY <1>5, <2>2, <2>9
  <2>12. \A r \in Role : row'[r] = 3 => type = OnestType
    BY <1>5, <2>9, <2>10
  <2>13. node' \in [Node -> {"ready", "error"}]
    BY <1>5, <2>2 DEF Reported
  <2>14. st = "ready" => InError' = {}
    BY <2>1, <2>2 DEF Verdict, InError
  <2> HIDE DEF j
  <2>15. cluster' \in {"operational", "deployment", "error"}
    BY <1>5, <2>2
  <2>16. st = "error" => cluster' = "error"
    BY <2>2, <2>3 DEF Ended
  <2>17. cluster' = "operational" => InError' = {}
    BY <2>14, <2>16
  <2>18. \A i \in JobId : job'[i].status = "running" => job[i].status = "running"
    BY <2>4, <2>6
  <2>19. \A i \in JobId : Agrees(i)' /\ FewParts(i)'
    BY <2>6, <2>7
  <2> QED
    BY <1>1, <1>3, <1>4, <1>7, <2>1, <2>2, <2>3, <2>4, <2>8, <2>10, <2>11, <2>12, <2>13,
       <2>14, <2>15, <2>17, <2>18, <2>19
<1> QED BY <1>6, <1>7

LEMMA DeliveryKeeps ==
  ASSUME IInv, Consume \/ ConsumeUnacknowledged
  PROVE  /\ IInv'
         /\ queue # <<>> /\ Receive(queue[1]) /\ queue[1] \in Reply /\ queue[1].order \in Queued
         /\ queue' = queue \/ queue' = Tail(queue)
         /\ Queued' \subseteq Queued
         /\ UNCHANGED <<type, seq, cookie, tab, orders, runs, begun>>
<1>1. /\ queue # <<>> /\ Receive(queue[1]) /\ queue[1] \in Reply /\ queue[1].order \in Queued
      /\ queue' = queue \/ queue' = Tail(queue)
      /\ UNCHANGED <<type, seq, cookie, tab, orders, runs, begun>>
      /\ DOMAIN budget' = {"presses", "faults"}
  BY Oldest DEF IInv, TypeInv, Consume, ConsumeUnacknowledged
<1>2. PICK m \in Reply : m = queue[1]
  BY <1>1
<1>3. m.order \in Queued /\ Receive(m)
  BY <1>1, <1>2
<1>4. /\ m.order.job \in JobId
      /\ \A k \in JobId : k # m.order.job => job'[k] = job[k]
      /\ node' \in [Node -> {"ready", "error"}] /\ row' \in [Role -> 0 .. 3]
      /\ job' \in [JobId -> JobRow]
      /\ \A k \in JobId : Agrees(k)' /\ FewParts(k)'
      /\ \A k \in JobId : job'[k].status = "running" => job[k].status = "running"
      /\ \A r \in Role : row'[r] = 3 => type = OnestType
      /\ cluster' \in {"operational", "deployment", "error"}
      /\ cluster' = "operational" => InError' = {}
  BY <1>1, <1>3, Received
<1>5. /\ Queued' \subseteq Queued /\ queue' \in Seq(Reply)
      /\ \A i \in 1 .. Len(queue') : queue'[i].failed \cap queue'[i].ready = {}
  <2>1. CASE queue' = queue
    BY <2>1 DEF Queued, IInv, TypeInv, State
  <2>2. CASE queue' = Tail(queue)
    BY <1>1, <2>2, Oldest DEF Queued, IInv, State
  <2> QED BY <1>1, <2>1, <2>2
<1>6. TypeInv'
  BY <1>1, <1>4, <1>5 DEF IInv, TypeInv, RolesHere
<1>7. State'
  BY <1>1, <1>4, <1>5 DEF IInv, State, Fitting, Proper, RolesHere
<1>8. \A v \in Tab : tab'[v] = tab[v] /\ tab[v].pc \in Making =>
        job'[tab[v].job] = job[tab[v].job] /\ Forgotten(tab[v].job)'
  <2> SUFFICES ASSUME NEW v \in Tab, tab[v].pc \in Making
               PROVE  job'[tab[v].job] = job[tab[v].job] /\ Forgotten(tab[v].job)'
    OBVIOUS
  <2>1. tab[v].job \in JobId /\ Forgotten(tab[v].job)
    BY DEF IInv, TabOK, Makes
  <2>2. tab[v].job # m.order.job
    BY <1>3, <2>1 DEF Forgotten
  <2> QED BY <1>1, <1>4, <1>5, <2>1, <2>2 DEF Forgotten
<1>9. IInv'
  BY <1>1, <1>4, <1>6, <1>7, <1>8, WorldStep
<1> QED BY <1>1, <1>5, <1>9

LEMMA ContinueKeeps ==
  ASSUME IInv, NEW w \in Tab, Continue(w)
  PROVE  IInv'
<1>1. CASE Clear(w)
  BY <1>1, ClearKeeps
<1>2. CASE Patch(w)
  BY <1>2, PatchKeeps
<1>3. CASE Mark(w)
  BY <1>3, MarkKeeps
<1>4. CASE Look(w)
  BY <1>4, LookKeeps
<1>5. CASE Refuse(w)
  BY <1>5, RefuseKeeps
<1>6. CASE Create(w)
  BY <1>6, CreateKeeps
<1>7. CASE DeployNodes(w)
  BY <1>7, DeployNodesKeeps
<1>8. CASE OperateRole(w)
  BY <1>8, OperateRoleKeeps
<1>9. CASE OperateAll(w)
  BY <1>9, OperateAllKeeps
<1>10. CASE AllOperated(w) \/ Start(w)
  BY <1>10, StartKeeps
<1>11. CASE Cast(w)
  BY <1>11, CastKeeps
<1> QED BY <1>1, <1>2, <1>3, <1>4, <1>5, <1>6, <1>7, <1>8, <1>9, <1>10, <1>11 DEF Continue

LEMMA NextKeeps ==
  ASSUME IInv, [Next]_vars
  PROVE  IInv'
<1>1. ASSUME NEW w \in Tab, NEW r \in Role \cup {All}, NEW act \in {"start", "stop"},
             Press(w, r, act)
      PROVE  IInv'
  BY <1>1, PressKeeps
<1>2. ASSUME NEW w \in Tab, PressDeploy(w)
      PROVE  IInv'
  BY <1>2, PressDeployKeeps
<1>3. ASSUME NEW w \in Tab, DeployNodesFails(w) \/ OperateRoleFails(w) \/ Crash(w)
      PROVE  IInv'
  BY <1>3, DeployNodesFailsKeeps, OperateRoleFailsKeeps, RefuseKeeps
<1>4. CASE \E o \in orders : Answer(o)
  BY <1>4, AnswerKeeps
<1>5. CASE Consume \/ ConsumeUnacknowledged
  BY <1>5, DeliveryKeeps
<1>6. CASE UNCHANGED vars
  <2>1. TypeInv' /\ State'
    BY <1>6 DEF vars, IInv, TypeInv, State, Fitting, RolesHere, Agrees, FewParts, InError,
                Proper, Queued
  <2>2. \A v \in Tab : tab[v].pc \in Making => Forgotten(tab[v].job)'
    BY <1>6 DEF vars, IInv, TabOK, Makes, Forgotten, Queued
  <2> QED BY <1>6, <2>1, <2>2, WorldStep DEF vars
<1> QED BY <1>1, <1>2, <1>3, <1>4, <1>5, <1>6, ContinueKeeps DEF Next

LEMMA InitHolds ==
  ASSUME NEW W \in SUBSET Tab, NEW presses, NEW faults, InitOf(W, presses, faults)
  PROVE  IInv
<1>1. \A w \in Tab : tab[w] \in {Idle, Closed}
  BY DEF InitOf
<1>2. \A w \in Tab : TabOK(tab[w]) /\ tab[w].pc \notin Making
  <2>1. Idle.pc \notin Making \cup {"closed", "mark", "create", "role", "all"}
        /\ Closed.pc \notin Making \cup {"mark", "create", "role", "all"}
    BY IdleTyped DEF Making
  <2> QED BY <1>1, <2>1, IdleTyped DEF TabOK
<1>3. TypeInv
  <2>1. tab \in [Tab -> Request]
    BY IdleTyped DEF InitOf
  <2>2. seq \in 0 .. MaxJob
    BY BoundsAssumption DEF InitOf
  <2>3. cookie \in Cookie
    BY Kinds DEF InitOf, Cookie, Actions
  <2> QED BY <2>1, <2>2, <2>3, Kinds DEF InitOf, TypeInv
<1>4. State
  <2>1. cookie.role # NoRole /\ Fitting(cookie)
    BY Kinds DEF InitOf, Fitting, RolesHere
  <2>2. \A k \in JobId : Agrees(k) /\ FewParts(k)
    BY Kinds DEF InitOf, Agrees, FewParts
  <2>3. orders \cup Queued = {} /\ Len(queue) = 0
    BY DEF InitOf, Queued
  <2>4. \A r \in Role : row[r] # 3
    BY DEF InitOf
  <2> QED BY <2>1, <2>2, <2>3, <2>4 DEF State, InitOf, InError
<1> QED BY <1>2, <1>3, <1>4 DEF IInv, Apart

LEMMA AlwaysIInv == MCSpec => []IInv
<1>1. MCInit => IInv
  BY InitHolds, TabAssumption DEF MCInit
<1>2. IInv /\ [MCNext]_mcVars => IInv'
  BY NextKeeps DEF MCNext, mcVars
<1> QED BY <1>1, <1>2, PTL DEF MCSpec

------------------------------------------------------------------------------
(***************************************************************************)
(* One tab is open.                                                        *)
(***************************************************************************)
Others == \A v \in Tab \ {t1} : tab[v].pc = "closed"

\* For each part of task k that runs, the answer of the orchestrator is awaited.
InHand(k) ==
  /\ \E p \in Part : job[k].sub[p] = "running"
  /\ \A p \in Part : job[k].sub[p] = "running" =>
       \E o \in orders \cup Queued : o.job = k /\ o.part = p
  /\ cluster = "deployment" /\ tab[t1].pc = "idle"

\* Only the last task matters, and it runs while somebody works on it, unless it
\* is forgotten.
OneJob ==
  /\ \A k \in JobId : k # seq => job[k] = NoJob
  /\ tab[t1].pc = "create" =>
       /\ tab[t1].cookie = cookie
       /\ \A k \in JobId : job[k].status # "none" => k \in tab[t1].seen
  /\ tab[t1].pc \in Making => tab[t1].job = seq
  /\ tab[t1].pc = "cast" => cluster = "deployment"
  /\ \A k \in JobId : job[k].status = "running" =>
       tab[t1].pc \in Making \/ Forgotten(k) \/ InHand(k)

\* No task was forgotten so far.
Mindful ==
  /\ \A k \in JobId : job[k].status = "running" => tab[t1].pc \in Making \/ InHand(k)
  /\ tab[t1].pc = "idle" => tab[t1] = Idle
  /\ tab[t1].pc = "idle" /\ cluster = "deployment" =>
       \E k \in JobId : job[k].status = "running"

SoloInv ==
  /\ tab[t1].pc # "closed"
  /\ Others => OneJob /\ (uncast \/ Mindful)

\* The steps that the tab w takes.
Acts(w) ==
  \/ \E r \in Role \cup {All}, act \in {"start", "stop"} : Press(w, r, act)
  \/ PressDeploy(w) \/ Continue(w)
  \/ DeployNodesFails(w) \/ OperateRoleFails(w) \/ Crash(w)

\* No tab is opened or closed by what is asked for in it, and the others stay.
LEMMA ActsInside ==
  ASSUME IInv, NEW w \in Tab, Acts(w)
  PROVE  /\ tab[w].pc # "closed" /\ tab'[w].pc # "closed"
         /\ \A v \in Tab : v # w => tab'[v] = tab[v]
<1>1. tab[w] \in Request /\ tab \in [Tab -> Request] /\ (tab[w].pc = "closed" => tab[w] = Closed)
  BY DEF IInv, TypeInv, TabOK
<1>2. tab[w].pc # "closed"
  <2>1. Clear(w) \/ Patch(w) => tab[w].pc # "closed"
    BY <1>1, IdleTyped DEF Clear, Patch
  <2>2. Acts(w) => Clear(w) \/ Patch(w) \/ tab[w].pc # "closed"
    BY DEF Acts, Continue, Press, PressDeploy, Asks, Mark, Look, Refuse, Create, DeployNodes,
           OperateRole, OperateAll, AllOperated, Start, Cast, DeployNodesFails,
           OperateRoleFails, Crash
  <2> QED BY <2>1, <2>2
<1>3. PICK r \in Request : tab' = [tab EXCEPT ![w] = r] /\ r.pc # "closed"
  <2>1. ASSUME NEW x \in Role \cup {All}, NEW act \in {"start", "stop"}, Press(w, x, act)
        PROVE  \E r \in Request : tab' = [tab EXCEPT ![w] = r] /\ r.pc # "closed"
    BY <2>1, PressKeeps
  <2>2. CASE PressDeploy(w)
    BY <2>2, PressDeployKeeps
  <2>3. CASE Clear(w)
    <3> DEFINE r == [tab[w] EXCEPT !.clear = {}]
    <3>1. r \in Request /\ r.pc # "closed"
      BY <1>1, <1>2 DEF Request
    <3> QED BY <2>3, <3>1 DEF Clear
  <2>4. CASE Patch(w)
    <3> DEFINE r == [tab[w] EXCEPT !.patch = FALSE]
    <3>1. r \in Request /\ r.pc # "closed"
      BY <1>1, <1>2 DEF Request
    <3> QED BY <2>4, <3>1 DEF Patch
  <2>5. CASE Mark(w) \/ AllOperated(w) \/ Start(w)
    <3>1. PICK pc \in {"changes", "start", "cast"} : Goto(w, pc)
      BY <2>5 DEF Mark, AllOperated, Start
    <3>2. pc \in Places /\ pc # "closed"
      BY DEF Places, Asking, Making
    <3> QED BY <3>1, <3>2, GotoTyped DEF IInv
  <2>6. CASE Look(w)
    BY <2>6, LookKeeps
  <2>7. CASE Refuse(w) \/ Crash(w) \/ DeployNodesFails(w) \/ OperateRoleFails(w)
    <3>1. tab' = [tab EXCEPT ![w] = Left(w)]
      BY <2>7 DEF Refuse, Crash, DeployNodesFails, OperateRoleFails, Abandon
    <3>2. Left(w) \in Request /\ Left(w).pc # "closed"
      BY LeftTyped DEF IInv
    <3> QED BY <3>1, <3>2
  <2>8. CASE Create(w)
    <3>1. PICK r \in Request : tab' = [tab EXCEPT ![w] = r] /\ r.pc \in Making
      BY <2>8, CreateKeeps
    <3> QED BY <3>1 DEF Making
  <2>9. CASE DeployNodes(w) \/ OperateRole(w) \/ OperateAll(w)
    BY <2>9, DeployNodesKeeps, OperateRoleKeeps, OperateAllKeeps DEF Subtasked
  <2>10. CASE Cast(w)
    BY <2>10, IdleTyped DEF Cast
  <2> QED BY <2>1, <2>2, <2>3, <2>4, <2>5, <2>6, <2>7, <2>8, <2>9, <2>10 DEF Acts, Continue
<1> QED BY <1>1, <1>2, <1>3

StaysMindful == OneJob' /\ (Mindful => Mindful' \/ NothingCast)

\* A task that runs is the last one, and not one that does not exist.
LEMMA LastRuns ==
  ASSUME IInv, OneJob, NEW k \in JobId, job[k].status # "none"
  PROVE  k = seq
BY DEF OneJob, NoJob

LEMMA Onward ==
  ASSUME IInv, OneJob, NEW r \in Request, tab' = [tab EXCEPT ![t1] = r],
         UNCHANGED <<job, seq, orders, queue>>, r.pc # "idle",
         r.pc = "create" => /\ r.cookie = cookie'
                            /\ \A k \in JobId : job[k].status # "none" => k \in r.seen,
         r.pc \in Making => r.job = seq,
         r.pc = "cast" => cluster' = "deployment",
         tab[t1].pc \in Making => r.pc \in Making,
         \A k \in JobId : job[k].status = "running" => ~ InHand(k)
  PROVE  StaysMindful
<1>1. tab'[t1] = r
  BY TabAssumption, TabFrame DEF IInv
<1>2. \A k \in JobId : Forgotten(k) => Forgotten(k)'
  BY DEF Forgotten, Queued
<1>3. OneJob'
  BY <1>1, <1>2 DEF OneJob
<1>4. Mindful => Mindful'
  BY <1>1 DEF Mindful
<1> QED BY <1>3, <1>4 DEF StaysMindful

LEMMA PressSolo ==
  ASSUME IInv, OneJob, NEW x \in Role \cup {All}, NEW act \in {"start", "stop"},
         Press(t1, x, act)
  PROVE  StaysMindful
<1>1. PICK r \in Request : /\ tab' = [tab EXCEPT ![t1] = r] /\ r.pc = "mark"
                           /\ tab[t1].pc = "idle"
  BY TabAssumption, PressKeeps
<1>2. UNCHANGED <<job, seq, orders, queue>> /\ cluster = "operational"
  BY DEF Press, Asks
<1>3. r.pc \notin Making \cup {"idle", "create", "cast"} /\ tab[t1].pc \notin Making
  BY <1>1 DEF Making
<1>4. \A k \in JobId : ~ InHand(k)
  BY <1>2 DEF InHand
<1> QED BY <1>1, <1>2, <1>3, <1>4, Onward

LEMMA PressDeploySolo ==
  ASSUME IInv, OneJob, PressDeploy(t1)
  PROVE  StaysMindful
<1>1. PICK r \in Request : /\ tab' = [tab EXCEPT ![t1] = r] /\ r.pc = "changes"
                           /\ tab[t1].pc = "idle"
  BY TabAssumption, PressDeployKeeps
<1>2. UNCHANGED <<job, seq, orders, queue>> /\ Jobs({"running"}) = {}
  BY DEF PressDeploy, Asks
<1>3. r.pc \notin Making \cup {"idle", "create", "cast"} /\ tab[t1].pc \notin Making
  BY <1>1 DEF Making
<1>4. \A k \in JobId : job[k].status # "running"
  BY <1>2 DEF Jobs
<1> QED BY <1>1, <1>2, <1>3, <1>4, Onward

LEMMA GotoSolo ==
  ASSUME IInv, OneJob, Mark(t1) \/ AllOperated(t1) \/ Start(t1)
  PROVE  StaysMindful
<1>1. PICK pc \in {"changes", "start", "cast"} : Goto(t1, pc)
  BY DEF Mark, AllOperated, Start
<1>2. pc \in Places
  BY DEF Places, Asking, Making
<1>3. PICK r \in Request : tab' = [tab EXCEPT ![t1] = r] /\ r.pc = pc /\ r.job = tab[t1].job
  BY <1>1, <1>2, TabAssumption, GotoTyped DEF IInv
<1>4. tab'[t1].pc = pc
  BY <1>3, TabAssumption, TabFrame DEF IInv
<1>5. /\ UNCHANGED <<job, seq, orders, queue>>
      /\ r.pc = "cast" => cluster' = "deployment"
      /\ r.pc \in Making => tab[t1].pc \in Making
      /\ tab[t1].pc \in Making => r.pc \in Making
      /\ tab[t1].pc # "idle"
  <2>1. CASE Mark(t1)
    <3>1. Goto(t1, "changes") /\ tab[t1].pc = "mark" /\ UNCHANGED <<job, seq, orders, queue>>
      BY <2>1 DEF Mark
    <3>2. tab'[t1].pc = "changes"
      BY <3>1, TabAssumption DEF Goto, IInv, TypeInv, Request
    <3> QED BY <1>3, <1>4, <3>1, <3>2 DEF Making
  <2>2. CASE AllOperated(t1)
    <3>1. Goto(t1, "start") /\ tab[t1].pc = "all" /\ UNCHANGED <<job, seq, orders, queue>>
      BY <2>2 DEF AllOperated
    <3>2. tab'[t1].pc = "start"
      BY <3>1, TabAssumption DEF Goto, IInv, TypeInv, Request
    <3> QED BY <1>3, <1>4, <3>1, <3>2 DEF Making
  <2>3. CASE Start(t1)
    <3>1. /\ tab[t1].pc = "start" /\ UNCHANGED <<job, seq, orders, queue>>
          /\ cluster' = "deployment" /\ Goto(t1, "cast")
      BY <2>3 DEF Start
    <3>2. tab'[t1].pc = "cast"
      BY <3>1, TabAssumption DEF Goto, IInv, TypeInv, Request
    <3> QED BY <1>3, <1>4, <3>1, <3>2 DEF Making
  <2> QED BY <2>1, <2>2, <2>3
<1>6. \A k \in JobId : ~ InHand(k)
  BY <1>5 DEF InHand
<1>7. r.pc # "idle" /\ r.pc # "create" /\ (r.pc \in Making => r.job = seq)
  BY <1>3, <1>5 DEF OneJob
<1> QED BY <1>3, <1>5, <1>6, <1>7, Onward

LEMMA LookSolo ==
  ASSUME IInv, OneJob, Look(t1)
  PROVE  StaysMindful
<1>1. PICK r \in Request :
        /\ tab' = [tab EXCEPT ![t1] = r] /\ r.pc = "create" /\ r.cookie = cookie
        /\ r.seen = Jobs({"running", "ready", "error"})
  BY TabAssumption, LookKeeps
<1>2. UNCHANGED <<job, seq, orders, queue, cookie>> /\ tab[t1].pc = "changes"
  BY DEF Look
<1>3. \A k \in JobId : job[k].status # "none" => k \in r.seen
  BY <1>1 DEF Jobs, IInv, TypeInv, JobRow, Statuses
<1>4. r.pc \notin Making /\ tab[t1].pc \notin Making
  BY <1>1, <1>2 DEF Making
<1>5. \A k \in JobId : ~ InHand(k)
  BY <1>2 DEF InHand
<1> QED BY <1>1, <1>2, <1>3, <1>4, <1>5, Onward

\* The requests sent beside the press.
LEMMA BesideSolo ==
  ASSUME IInv, OneJob, Clear(t1) \/ Patch(t1)
  PROVE  StaysMindful
<1>1. tab[t1] \in Request /\ tab \in [Tab -> Request] /\ tab[t1].clear \in SUBSET JobId
  BY TabAssumption DEF IInv, TypeInv, Request
<1>2. /\ tab'[t1].pc = tab[t1].pc /\ tab'[t1].cookie = tab[t1].cookie
      /\ tab'[t1].seen = tab[t1].seen /\ tab'[t1].job = tab[t1].job
  <2>1. CASE Clear(t1)
    BY <1>1, <2>1, TabAssumption DEF Clear, Request
  <2>2. CASE Patch(t1)
    BY <1>1, <2>2, TabAssumption DEF Patch, Request
  <2> QED BY <2>1, <2>2
<1>3. /\ UNCHANGED <<seq, cookie, orders, queue>>
      /\ cluster' = cluster \/ cluster' = "deployment"
      /\ tab[t1] # Idle
  BY IdleTyped DEF Clear, Patch
<1>4. \A k \in JobId : /\ job[k].status = "running" => job'[k] = job[k]
                       /\ job'[k] = NoJob \/ job'[k] = job[k]
  <2>1. CASE Clear(t1)
    BY <1>1, <2>1, TabAssumption DEF Clear, IInv, TabOK
  <2>2. CASE Patch(t1)
    BY <2>2 DEF Patch
  <2> QED BY <2>1, <2>2
<1>5. \A k \in JobId : job'[k].status # "none" => job'[k] = job[k]
  BY <1>4 DEF NoJob
<1>6. \A k \in JobId : Forgotten(k) => Forgotten(k)'
  BY <1>3 DEF Forgotten, Queued
<1>7. \A k \in JobId : InHand(k) /\ job[k].status = "running" => InHand(k)'
  BY <1>2, <1>3, <1>4 DEF InHand, Queued
<1>8. OneJob'
  BY <1>2, <1>3, <1>4, <1>5, <1>6, <1>7 DEF OneJob
<1>9. Mindful => Mindful'
  <2> SUFFICES ASSUME Mindful PROVE Mindful'
    OBVIOUS
  <2>1. tab'[t1].pc # "idle"
    BY <1>2, <1>3 DEF Mindful
  <2> QED BY <1>2, <1>5, <1>7, <2>1 DEF Mindful
<1> QED BY <1>8, <1>9 DEF StaysMindful

LEMMA RefuseSolo ==
  ASSUME IInv, OneJob, Refuse(t1)
  PROVE  StaysMindful
<1>1. /\ tab[t1].pc = "create" /\ tab[t1].seen \cap Jobs({"running"}) # {}
      /\ tab' = [tab EXCEPT ![t1] = Left(t1)]
      /\ UNCHANGED <<cluster, job, seq, cookie, orders, queue>>
  BY DEF Refuse
<1>2. tab'[t1].pc = "idle"
  BY <1>1, TabAssumption, LeftTyped, TabFrame DEF IInv
<1>3. "idle" \notin Making /\ "create" \notin Making
  BY DEF Making
<1>4. \A k \in JobId : Forgotten(k) => Forgotten(k)'
  BY <1>1 DEF Forgotten, Queued
<1>5. \A k \in JobId : ~ InHand(k)
  BY <1>1 DEF InHand
<1>6. OneJob'
  BY <1>1, <1>2, <1>3, <1>4, <1>5 DEF OneJob
<1>7. ~ Mindful
  BY <1>1, <1>3, <1>5 DEF Mindful, Jobs
<1> QED BY <1>6, <1>7 DEF StaysMindful

LEMMA CreateSolo ==
  ASSUME IInv, OneJob, Create(t1)
  PROVE  StaysMindful
<1>1. PICK r \in Request : /\ tab' = [tab EXCEPT ![t1] = r] /\ r.job = seq' /\ r.pc \in Making
                           /\ r.pc \in {"deploy", "role", "all", "start"}
  BY TabAssumption, CreateKeeps
<1>2. /\ seq' \in JobId
      /\ \A k \in JobId : k # seq' => job'[k] = IF k \in tab[t1].seen THEN NoJob ELSE job[k]
  BY TabAssumption, CreateKeeps
<1>3. tab'[t1] = r
  BY <1>1, TabAssumption, TabFrame DEF IInv
<1>4. \A k \in JobId : k # seq' => job'[k] = NoJob
  BY <1>2 DEF OneJob, Create, IInv, State, Agrees
<1>5. r.pc \notin {"idle", "create", "cast"}
  BY <1>1
<1>6. OneJob'
  BY <1>1, <1>3, <1>4, <1>5 DEF OneJob
<1>7. Mindful'
  BY <1>1, <1>3, <1>5 DEF Mindful
<1> QED BY <1>6, <1>7 DEF StaysMindful

LEMMA SubtaskSolo ==
  ASSUME IInv, OneJob, DeployNodes(t1) \/ OperateRole(t1) \/ OperateAll(t1)
  PROVE  StaysMindful
<1>1. tab[t1].pc \in Making /\ UNCHANGED <<seq>>
  BY DEF DeployNodes, OperateRole, OperateAll, Making
<1>2. PICK pc \in {"start", "all"} : \E p, act, nodes : Subtasked(t1, p, act, nodes, pc)
  BY TabAssumption, DeployNodesKeeps, OperateRoleKeeps, OperateAllKeeps
<1>3. PICK r \in Request : tab' = [tab EXCEPT ![t1] = r] /\ r.pc = pc /\ r.job = tab[t1].job
  BY <1>2 DEF Subtasked
<1>4. \A k \in JobId : k # tab[t1].job => job'[k] = job[k]
  BY <1>2 DEF Subtasked
<1>5. tab'[t1] = r
  BY <1>3, TabAssumption, TabFrame DEF IInv
<1>6. r.pc \in Making /\ r.pc \notin {"idle", "create", "cast"}
  BY <1>3 DEF Making
<1>7. OneJob'
  BY <1>1, <1>3, <1>4, <1>5, <1>6 DEF OneJob
<1>8. Mindful'
  BY <1>5, <1>6 DEF Mindful
<1> QED BY <1>7, <1>8 DEF StaysMindful

LEMMA CastSolo ==
  ASSUME IInv, OneJob, Cast(t1)
  PROVE  StaysMindful
<1>1. /\ tab[t1].pc = "cast" /\ tab[t1].pc \in Making /\ orders' = orders \cup tab[t1].orders
      /\ tab' = [tab EXCEPT ![t1] = Idle] /\ tab'[t1] = Idle
      /\ UNCHANGED <<type, cluster, node, row, job, seq, cookie, queue>>
  BY TabAssumption DEF Cast, Making, IInv, TypeInv
<1>2. /\ Makes(tab[t1]) /\ tab[t1].job = seq /\ seq \in JobId /\ job[seq].status = "running"
      /\ cluster = "deployment"
  BY <1>1, TabAssumption DEF IInv, TabOK, Makes, OneJob
<1>3. tab[t1].orders = {} => Forgotten(seq)'
  BY <1>1, <1>2 DEF Makes, Forgotten, Queued
<1>4. tab[t1].orders # {} => InHand(seq)'
  <2> SUFFICES ASSUME tab[t1].orders # {} PROVE InHand(seq)'
    OBVIOUS
  <2>1. PICK o \in tab[t1].orders : job[seq].sub[o.part] = "running" /\ Proper(o)
    BY <1>2 DEF Makes
  <2>2. o.part \in Part
    BY <2>1, Kinds DEF Proper
  <2>3. \A p \in Part : job[seq].sub[p] = "running" => \E x \in tab[t1].orders : x.part = p
    BY <1>2 DEF Makes
  <2>4. \A x \in tab[t1].orders : x.job = seq /\ x \in orders'
    BY <1>1, <1>2 DEF Makes
  <2> QED BY <1>1, <1>2, <2>1, <2>2, <2>3, <2>4, IdleTyped DEF InHand
<1>5. \A k \in JobId : job[k].status = "running" => k = seq
  BY LastRuns
<1>6. Idle.pc \notin Making /\ Idle.pc # "create" /\ Idle.pc # "cast"
  BY IdleTyped DEF Making
<1>7. OneJob'
  <2>1. \A k \in JobId : job'[k].status = "running" => Forgotten(k)' \/ InHand(k)'
    <3> SUFFICES ASSUME NEW k \in JobId, job[k].status = "running"
                 PROVE  Forgotten(k)' \/ InHand(k)'
      BY <1>1
    <3>1. seq' = seq /\ k = seq
      BY <1>1, <1>5
    <3> QED BY <1>3, <1>4, <3>1 DEF Forgotten, InHand
  <2> QED BY <1>1, <1>6, <2>1 DEF OneJob
<1>8. Mindful' \/ NothingCast
  <2>1. CASE tab[t1].orders = {}
    <3>1. tab[t1].job # NoJobId /\ tab'[t1].job = NoJobId /\ orders' = orders
      BY <1>1, <1>2, <2>1, IdleTyped DEF NoJobId, JobId
    <3> QED BY <3>1, TabAssumption DEF NothingCast
  <2>2. CASE tab[t1].orders # {}
    <3>1. \A k \in JobId : job'[k].status = "running" => InHand(k)'
      <4> SUFFICES ASSUME NEW k \in JobId, job[k].status = "running"
                   PROVE  InHand(k)'
        BY <1>1
      <4>1. seq' = seq /\ k = seq
        BY <1>1, <1>5
      <4> QED BY <1>4, <2>2, <4>1 DEF InHand
    <3>2. job'[seq].status = "running"
      BY <1>1, <1>2
    <3> QED BY <1>1, <1>2, <3>1, <3>2 DEF Mindful
  <2> QED BY <2>1, <2>2
<1> QED BY <1>7, <1>8 DEF StaysMindful

\* The request ends before its messages are sent.
LEMMA LostSolo ==
  ASSUME IInv, OneJob, DeployNodesFails(t1) \/ OperateRoleFails(t1) \/ Crash(t1)
  PROVE  StaysMindful
<1>1. /\ tab[t1].pc \in Making /\ tab' = [tab EXCEPT ![t1] = Left(t1)]
      /\ UNCHANGED <<type, seq, cookie, orders, queue>>
  BY DEF DeployNodesFails, OperateRoleFails, Crash, Abandon, Making
<1>2. tab'[t1].pc = "idle" /\ tab'[t1].job = NoJobId
  BY <1>1, TabAssumption, LeftTyped, TabFrame DEF IInv
<1>3. /\ Makes(tab[t1]) /\ tab[t1].job = seq /\ seq \in JobId /\ Forgotten(seq)
  BY <1>1, TabAssumption DEF IInv, TabOK, Makes, OneJob
<1>4. \A k \in JobId : k # seq => job'[k] = job[k]
  <2>1. CASE DeployNodesFails(t1)
    BY <1>3, <2>1, TabAssumption, DeployNodesFailsKeeps
  <2>2. CASE OperateRoleFails(t1)
    BY <1>3, <2>2, TabAssumption, OperateRoleFailsKeeps
  <2>3. CASE Crash(t1)
    BY <2>3 DEF Crash
  <2> QED BY <2>1, <2>2, <2>3
<1>5. NothingCast
  <2>1. tab[t1].job # NoJobId /\ tab'[t1].job = NoJobId /\ orders' = orders
    BY <1>1, <1>2, <1>3 DEF NoJobId, JobId
  <2> QED BY <2>1, TabAssumption DEF NothingCast
<1>6. OneJob'
  <2>1. \A k \in JobId : k # seq => job'[k] = NoJob
    BY <1>4 DEF OneJob
  <2>2. \A k \in JobId : job'[k].status = "running" => k = seq
    BY <2>1 DEF NoJob
  <2>3. \A k \in JobId : k = seq => Forgotten(k)'
    BY <1>1, <1>3 DEF Forgotten, Queued
  <2>4. tab'[t1].pc \notin Making
    BY <1>2 DEF Making
  <2> QED BY <1>1, <1>2, <2>1, <2>2, <2>3, <2>4 DEF OneJob
<1> QED BY <1>5, <1>6 DEF StaysMindful

LEMMA AnswerSolo ==
  ASSUME IInv, OneJob, NEW o \in orders, Answer(o)
  PROVE  StaysMindful
<1>1. UNCHANGED <<cluster, job, seq, cookie, tab>> /\ orders' = orders \ {o}
  BY DEF Answer
<1>2. orders' \cup Queued' = orders \cup Queued
  <2>1. Queued' = Queued \cup {o}
    BY AnswerKeeps
  <2> QED BY <1>1, <2>1
<1>3. \A k \in JobId : /\ Forgotten(k) => Forgotten(k)'
                       /\ InHand(k) => InHand(k)'
  BY <1>1, <1>2 DEF Forgotten, InHand
<1>4. OneJob'
  BY <1>1, <1>3 DEF OneJob
<1>5. Mindful => Mindful'
  BY <1>1, <1>3 DEF Mindful
<1> QED BY <1>4, <1>5 DEF StaysMindful

\* The reply that is handled is all that the queue may lose.
LEMMA OnlyHeadLeaves ==
  ASSUME IInv, queue # <<>>, queue' = queue \/ queue' = Tail(queue)
  PROVE  \A o \in Queued : o = queue[1].order \/ o \in Queued'
<1>1. CASE queue' = queue
  BY <1>1 DEF Queued
<1>2. CASE queue' = Tail(queue)
  <2> SUFFICES ASSUME NEW i \in 1 .. Len(queue), i # 1
               PROVE  queue[i].order \in Queued'
    BY DEF Queued
  <2>1. i - 1 \in 1 .. Len(Tail(queue)) /\ (i - 1) + 1 = i
    BY Oldest DEF IInv
  <2>2. Tail(queue)[i - 1] = queue[i]
    BY <2>1, Oldest DEF IInv
  <2> QED BY <1>2, <2>1, <2>2 DEF Queued
<1> QED BY <1>1, <1>2

LEMMA DeliverySolo ==
  ASSUME IInv, OneJob, Consume \/ ConsumeUnacknowledged
  PROVE  StaysMindful
<1>1. /\ queue # <<>> /\ Receive(queue[1]) /\ queue[1] \in Reply /\ queue[1].order \in Queued
      /\ queue' = queue \/ queue' = Tail(queue)
      /\ Queued' \subseteq Queued
      /\ UNCHANGED <<type, seq, cookie, tab, orders>>
  BY DeliveryKeeps
<1>2. PICK m \in Reply : m = queue[1] /\ m.order \in Queued /\ Receive(m)
  BY <1>1
<1>3. \A o \in orders \cup Queued : o = m.order \/ o \in orders' \cup Queued'
  BY <1>1, <1>2, OnlyHeadLeaves
<1>4. \A k \in JobId : Forgotten(k) => Forgotten(k)'
  BY <1>1 DEF Forgotten
<1>5. PICK k0 \in JobId : k0 = m.order.job
  BY <1>1, <1>2, Received
<1>6. PICK p0 \in Part : p0 = m.order.part
  BY <1>1, <1>2, Received
<1>7. CASE job[k0].sub[p0] = "none"
  <2>1. UNCHANGED <<cluster, node, row, job>>
    BY <1>1, <1>2, <1>5, <1>6, <1>7, Received
  <2>2. \A k \in JobId : InHand(k) => InHand(k)'
    <3> SUFFICES ASSUME NEW k \in JobId, InHand(k) PROVE InHand(k)'
      OBVIOUS
    <3>1. \A p \in Part : job[k].sub[p] = "running" =>
            \E o \in orders' \cup Queued' : o.job = k /\ o.part = p
      <4> SUFFICES ASSUME NEW p \in Part, job[k].sub[p] = "running"
                   PROVE  \E o \in orders' \cup Queued' : o.job = k /\ o.part = p
        OBVIOUS
      <4>1. PICK o \in orders \cup Queued : o.job = k /\ o.part = p
        BY DEF InHand
      <4>2. o # m.order
        BY <1>5, <1>6, <1>7, <4>1
      <4> QED BY <1>3, <4>1, <4>2
    <3> QED BY <1>1, <2>1, <3>1 DEF InHand
  <2>3. OneJob'
    BY <1>1, <1>4, <2>1, <2>2 DEF OneJob
  <2>4. Mindful => Mindful'
    BY <1>1, <2>1, <2>2 DEF Mindful
  <2> QED BY <2>3, <2>4 DEF StaysMindful
<1>8. CASE job[k0].sub[p0] # "none"
  <2>1. PICK st \in {"ready", "error"} : st = Verdict(m)
    BY DEF Verdict
  <2>2. k0 = seq /\ job[k0].status # "none"
    <3>1. job[k0] # NoJob
      BY <1>8, Kinds
    <3> QED BY <3>1 DEF OneJob, IInv, State, Agrees
  <2>3. tab[t1].pc \notin Making
    <3> SUFFICES ASSUME tab[t1].pc \in Making PROVE FALSE
      OBVIOUS
    <3>1. Forgotten(seq)
      BY TabAssumption DEF IInv, TabOK, Makes, OneJob
    <3> QED BY <1>2, <1>5, <2>2, <3>1 DEF Forgotten
  <2>4. /\ Ended(job[k0], p0, st, job'[k0])
        /\ \A k \in JobId : k # k0 => job'[k] = job[k]
        /\ cluster' = (CASE job'[k0].status = "error" -> "error"
                         [] job'[k0].status = "ready" -> "operational"
                         [] OTHER -> cluster)
        /\ job' \in [JobId -> JobRow] /\ Agrees(k0)'
        /\ job'[k0].status = "running" => job[k0].status = "running"
    BY <1>1, <1>2, <1>5, <1>6, <1>8, <2>1, Received
  <2>5. job'[k0].status # "none" /\ job'[k0] \in JobRow
    <3>1. job'[k0].status \in {"error", "ready", job[k0].status}
      BY <2>4 DEF Ended
    <3> QED BY <2>2, <2>4, <3>1
  <2>6. job[k0].status = "running" => InHand(k0)
    BY <1>2, <1>5, <2>3 DEF OneJob, Forgotten
  <2>7. job'[k0].status = "running" => InHand(k0)' /\ cluster' = "deployment"
    <3> SUFFICES ASSUME job'[k0].status = "running"
                 PROVE  InHand(k0)' /\ cluster' = "deployment"
      OBVIOUS
    <3>1. InHand(k0)
      BY <2>4, <2>6
    <3>2. cluster' = "deployment"
      BY <2>4, <3>1 DEF InHand
    <3>3. \A p \in Part : job'[k0].sub[p] # "error"
      BY <2>4 DEF Ended
    <3>4. ~ \A p \in Part : job'[k0].sub[p] \in {"none", "ready"}
      BY <2>4 DEF Ended
    <3>5. \E p \in Part : job'[k0].sub[p] = "running"
      BY <2>5, <3>3, <3>4 DEF JobRow, Statuses
    <3>6. \A p \in Part : job'[k0].sub[p] = "running" =>
            \E o \in orders' \cup Queued' : o.job = k0 /\ o.part = p
      <4> SUFFICES ASSUME NEW p \in Part, job'[k0].sub[p] = "running"
                   PROVE  \E o \in orders' \cup Queued' : o.job = k0 /\ o.part = p
        OBVIOUS
      <4>1. p # p0 /\ job[k0].sub[p] = "running"
        BY <2>4 DEF Ended
      <4>2. PICK o \in orders \cup Queued : o.job = k0 /\ o.part = p
        BY <3>1, <4>1 DEF InHand
      <4> QED BY <1>3, <1>6, <4>1, <4>2
    <3>7. tab'[t1].pc = "idle"
      BY <1>1, <3>1 DEF InHand
    <3> QED BY <3>2, <3>5, <3>6, <3>7 DEF InHand
  <2>8. \A k \in JobId : k # k0 => job'[k] = NoJob
    BY <2>2, <2>4 DEF OneJob
  <2>9. \A k \in JobId : job'[k].status = "running" => InHand(k)'
    <3> SUFFICES ASSUME NEW k \in JobId, job'[k].status = "running" PROVE InHand(k)'
      OBVIOUS
    <3>1. k = k0
      BY <2>8 DEF NoJob
    <3> QED BY <2>7, <3>1
  <2>10. \A k \in JobId : job'[k].status # "none" => job[k].status # "none"
    BY <2>2, <2>8 DEF NoJob
  <2>11. OneJob'
    <3>1. \A k \in JobId : k # seq' => job'[k] = NoJob
      BY <1>1, <2>2, <2>8
    <3>2. tab'[t1].pc = "create" =>
            /\ tab'[t1].cookie = cookie'
            /\ \A k \in JobId : job'[k].status # "none" => k \in tab'[t1].seen
      BY <1>1, <2>10 DEF OneJob
    <3>3. tab'[t1].pc \notin Making /\ tab'[t1].pc # "cast"
      BY <1>1, <2>3 DEF Making
    <3> QED BY <2>9, <3>1, <3>2, <3>3 DEF OneJob
  <2>12. Mindful => Mindful'
    <3> SUFFICES ASSUME Mindful PROVE Mindful'
      OBVIOUS
    <3>1. cluster' = "deployment" => job'[k0].status = "running"
      BY <2>4, <2>5 DEF JobRow, Statuses
    <3> QED BY <1>1, <2>9, <3>1 DEF Mindful
  <2> QED BY <2>11, <2>12 DEF StaysMindful
<1> QED BY <1>7, <1>8

\* With one tab open, whatever happens in a tab happens in that one.
LEMMA WhoActs ==
  ASSUME IInv, tab[t1].pc # "closed", Next
  PROVE  /\ tab'[t1].pc # "closed"
         /\ Others' => /\ Others
                       /\ \/ Acts(t1)
                          \/ \E o \in orders : Answer(o)
                          \/ Consume \/ ConsumeUnacknowledged
<1>1. ASSUME NEW w \in Tab, Acts(w)
      PROVE  /\ tab'[t1].pc # "closed"
             /\ Others' => Others /\ w = t1
  BY <1>1, TabAssumption, ActsInside DEF Others
<1>2. ASSUME tab' = tab
      PROVE  tab'[t1].pc # "closed" /\ (Others' => Others)
  BY <1>2 DEF Others
<1>3. (\E o \in orders : Answer(o)) \/ Consume \/ ConsumeUnacknowledged => tab' = tab
  BY DEF Answer, Consume, ConsumeUnacknowledged
<1>4. (\E w \in Tab : Acts(w)) \/ (\E o \in orders : Answer(o)) \/ Consume
      \/ ConsumeUnacknowledged
  BY DEF Next, Acts
<1> QED BY <1>1, <1>2, <1>3, <1>4

LEMMA ActsSolo ==
  ASSUME IInv, OneJob, Acts(t1)
  PROVE  StaysMindful
<1>1. CASE \E r \in Role \cup {All}, act \in {"start", "stop"} : Press(t1, r, act)
  BY <1>1, PressSolo
<1>2. CASE PressDeploy(t1)
  BY <1>2, PressDeploySolo
<1>3. CASE Clear(t1) \/ Patch(t1)
  BY <1>3, BesideSolo
<1>4. CASE Mark(t1) \/ AllOperated(t1) \/ Start(t1)
  BY <1>4, GotoSolo
<1>5. CASE Look(t1)
  BY <1>5, LookSolo
<1>6. CASE Refuse(t1)
  BY <1>6, RefuseSolo
<1>7. CASE Create(t1)
  BY <1>7, CreateSolo
<1>8. CASE DeployNodes(t1) \/ OperateRole(t1) \/ OperateAll(t1)
  BY <1>8, SubtaskSolo
<1>9. CASE Cast(t1)
  BY <1>9, CastSolo
<1>10. CASE DeployNodesFails(t1) \/ OperateRoleFails(t1) \/ Crash(t1)
  BY <1>10, LostSolo
<1> QED
  BY <1>1, <1>2, <1>3, <1>4, <1>5, <1>6, <1>7, <1>8, <1>9, <1>10 DEF Acts, Continue

LEMMA SoloKept ==
  ASSUME IInv, SoloInv, [MCNext]_mcVars
  PROVE  SoloInv'
<1>1. CASE MCNext
  <2>1. Next /\ uncast' = (uncast \/ NothingCast)
    BY <1>1 DEF MCNext
  <2>2. tab'[t1].pc # "closed"
    BY <2>1, WhoActs DEF SoloInv
  <2>3. ASSUME Others'
        PROVE  OneJob' /\ (uncast' \/ Mindful')
    <3>1. OneJob /\ (uncast \/ Mindful)
      BY <2>1, <2>3, WhoActs DEF SoloInv
    <3>2. StaysMindful
      BY <2>1, <2>3, <3>1, WhoActs, ActsSolo, AnswerSolo, DeliverySolo DEF SoloInv
    <3> QED BY <2>1, <3>1, <3>2 DEF StaysMindful
  <2> QED BY <2>2, <2>3 DEF SoloInv
<1>2. CASE UNCHANGED mcVars
  BY <1>2 DEF mcVars, vars, SoloInv, Others, OneJob, Mindful, InHand, Forgotten, Queued
<1> QED BY <1>1, <1>2

LEMMA SoloStarts == MCInit => SoloInv
<1> SUFFICES ASSUME MCInit PROVE SoloInv
  OBVIOUS
<1>1. PICK W \in SUBSET Tab, presses \in Int, faults \in Int : InitOf(W, presses, faults) /\ t1 \in W
  BY TabAssumption, BoundsAssumption DEF MCInit
<1>2. tab[t1] = Idle /\ (\A k \in JobId : job[k] = NoJob) /\ cluster = "operational"
  BY <1>1, TabAssumption DEF InitOf
<1>3. \A k \in JobId : job[k].status # "running"
  BY <1>2 DEF NoJob
<1>4. Idle.pc = "idle" /\ "idle" \notin Making
  BY IdleTyped DEF Making
<1> QED BY <1>2, <1>3, <1>4 DEF SoloInv, OneJob, Mindful

LEMMA AlwaysSolo == MCSpec => [](IInv /\ SoloInv)
<1>1. MCInit => IInv /\ SoloInv
  BY InitHolds, TabAssumption, SoloStarts DEF MCInit
<1>2. IInv /\ SoloInv /\ [MCNext]_mcVars => IInv' /\ SoloInv'
  BY NextKeeps, SoloKept DEF MCNext, mcVars
<1> QED BY <1>1, <1>2, PTL DEF MCSpec

LEMMA AloneIsT1 ==
  ASSUME SoloInv, Alone
  PROVE  Others
<1>1. PICK w \in Tab : \A v \in Tab \ {w} : tab[v].pc = "closed"
  BY DEF Alone
<1>2. w = t1
  BY <1>1, TabAssumption DEF SoloInv
<1> QED BY <1>1, <1>2 DEF Others

\* When nothing of what was asked for from a single tab is under way, no deploy
\* task runs and the environment is not left in deployment, so that it can be
\* operated on again, unless a request died before it sent anything; and what is
\* operational has no node in error (start_stop_resp, Task.update).
THEOREM QuietAlways == MCSpec => []QuietInTurn
<1>1. ASSUME IInv, SoloInv
      PROVE  QuietInTurn
  <2> SUFFICES ASSUME Alone, ~ uncast, Rest PROVE
                 /\ Jobs({"running"}) = {} /\ cluster # "deployment"
                 /\ cluster = "operational" => InError = {}
    BY DEF QuietInTurn, QuietAtRest
  <2>1. OneJob /\ Mindful
    BY <1>1, AloneIsT1 DEF SoloInv
  <2>2. orders \cup Queued = {}
    BY DEF Rest, Queued
  <2>3. tab[t1] = Idle
    BY <1>1, TabAssumption, IdleTyped DEF Rest, SoloInv
  <2>4. "idle" \notin Making /\ tab[t1].pc = "idle"
    BY <2>3, IdleTyped DEF Making
  <2>5. \A k \in JobId : job[k].status # "running"
    <3> SUFFICES ASSUME NEW k \in JobId, job[k].status = "running" PROVE FALSE
      OBVIOUS
    <3>1. InHand(k)
      BY <2>1, <2>4 DEF Mindful
    <3> QED BY <2>2, <3>1 DEF InHand
  <2>6. cluster # "deployment"
    BY <2>1, <2>4, <2>5 DEF Mindful
  <2> QED BY <1>1, <2>5, <2>6 DEF Jobs, IInv, State
<1> QED BY <1>1, AlwaysSolo, PTL

------------------------------------------------------------------------------
(***************************************************************************)
(* One tab is open, and no part of several fails.                          *)
(***************************************************************************)
Clean == Others /\ (type # Ebs \/ ~ partial)

\* The last task runs, and nobody will ever end it.
Stuck ==
  /\ tab[t1].pc \notin Making /\ orders = {}
  /\ seq \in JobId /\ job[seq].status = "running" /\ Forgotten(seq)

\* A reply that is not thrown away, and one that was not handled yet.
Effective(m) == m.order.job = seq /\ job[seq].sub[m.order.part] # "none"
Fresh(m) == m.order.job = seq /\ job[seq].sub[m.order.part] = "running"

OnlyPart(p) == \A q \in Part : q # p => job[seq].sub[q] = "none"

\* Nodes are deployed alone; a role is operated when no node is in error.
Lone(o) == IF o.part = NoRole THEN OnlyPart(NoRole) ELSE InError = {}

\* Handling the reply once more would change nothing but the cluster.
Handled(m) ==
  /\ Reported(m) = node
  /\ job[seq].sub[m.order.part] = Verdict(m)
  /\ Verdict(m) = "error" /\ m.order.part # NoRole =>
       row[m.order.part] = RolledBack(m.order.act)

\* What is under way is about parts of the last task that run, each once.
Flight ==
  /\ \A o \in orders : o.job = seq /\ job[seq].sub[o.part] = "running" /\ Lone(o)
  /\ \A x, y \in orders : x.part = y.part => x = y
  /\ \A i \in 1 .. Len(queue) : Effective(queue[i]) =>
       /\ \A o \in orders : o.part # queue[i].order.part
       /\ Fresh(queue[i]) =>
            /\ Lone(queue[i].order)
            /\ Succeeds(queue[i]) \/ OnlyPart(queue[i].order.part)
       /\ ~ Fresh(queue[i]) => i = 1 /\ Handled(queue[i])
       /\ \A j \in 1 .. Len(queue) :
            queue[j].order.job = seq /\ queue[j].order.part = queue[i].order.part => j = i

\* What follows from a task in error.
Broken ==
  \A k \in JobId : job[k].status = "error" =>
    /\ \E p \in Part : job[k].sub[p] = "error"
    /\ cluster # "operational"
    /\ tab[t1].pc \in Asking => tab[t1].want = NoRole

\* Roles are asked for when no node is in error, and "Deploy changes" when one is.
Desk ==
  /\ tab[t1].pc \in Asking => (tab[t1].want = NoRole <=> InError # {})
  /\ tab[t1].pc \in {"role", "all"} => InError = {}
  /\ tab[t1].pc = "all" => \A o \in tab[t1].orders : o.part # NoRole
  /\ \A o \in tab[t1].orders : Lone(o)
  /\ \A x, y \in tab[t1].orders : x.part = y.part => x = y

\* The orders that may yet change what runs, or change a row back.
Failing == {i \in 1 .. Len(queue) : Fresh(queue[i]) /\ ~ Succeeds(queue[i])}
Live == tab[t1].orders \cup orders \cup {queue[i].order : i \in Failing}

\* What the request of the tab will order.
Wanted ==
  IF tab[t1].pc \in {"changes", "create"} /\ tab[t1].want # NoRole THEN {cookie}
  ELSE IF tab[t1].pc = "role" THEN {tab[t1].cookie} ELSE {}

\* The row says what will be.
Before(r, act) ==
  /\ act \in {"start", "started"} => row[r] = 2 /\ r \notin runs
  /\ act = "start" /\ type = OnestType => r \notin begun
  /\ act = "started" => r \in begun
  /\ act = "stop" => row[r] = Stopped /\ r \in runs /\ (type = OnestType => r \in begun)

\* The row says what is.
Sound(r) ==
  /\ row[r] = 2 <=> r \in runs
  /\ type = OnestType => (row[r] \in {2, 3} <=> r \in begun)

\* Role r is one of several that are operated.
Multi(r) ==
  \E q \in Part : q # r /\ (job[seq].sub[q] # "none" \/ (q \in Role /\ tab[t1].pc = "all"))

\* With all roles of an EBS environment one may be stopped that never ran.
Due(o) ==
  \/ Before(o.part, o.act)
  \/ o.act = "stop" /\ type # OnestType /\ row[o.part] = Stopped /\ Multi(o.part)

\* What the rows say when a button for all roles is offered.
AllFit(r, act) ==
  /\ act = "stop" => row[r] = 2 \/ (row[r] = 0 /\ \E q \in Role : q # r)
  /\ act # "stop" => row[r] # 2

Rows ==
  /\ \A c \in Wanted : c.role # All => Before(c.role, c.act)
  /\ \A o \in Live : o.part # NoRole => Due(o)
  /\ \A r \in RolesHere :
       (\A c \in Wanted : c.role # r) /\ (\A o \in Live : o.part # r) => Sound(r)
  /\ \A c \in Wanted : c.role = All => \A r \in Role : AllFit(r, c.act)
  /\ tab[t1].pc = "mark" => Offered(tab[t1].want, tab[t1].act)
  /\ tab[t1].pc = "all" =>
       \A r \in Role : job[seq].sub[r] = "none" => AllFit(r, AllAction(t1))

Good == Flight /\ Broken /\ Desk /\ Rows

CleanInv == Clean => Stuck \/ Good

\* What is under way for the last task is awaited by nobody else.
LEMMA Awaited ==
  ASSUME IInv, OneJob, NEW o \in orders \cup Queued, o.job = seq
  PROVE  /\ seq \in JobId /\ o.part \in Part /\ tab[t1].pc \notin Making
         /\ job[seq].sub[o.part] = "running" =>
              job[seq].status = "running" /\ InHand(seq)
<1>1. seq \in JobId /\ o.part \in Part
  BY QueuedTyped, Kinds DEF IInv, State, Proper
<1>2. ~ Forgotten(seq)
  BY DEF Forgotten
<1>3. tab[t1].pc \notin Making
  BY <1>2, TabAssumption DEF IInv, TabOK, Makes, OneJob
<1>4. job[seq].sub[o.part] = "running" => job[seq].status = "running"
  BY <1>1 DEF IInv, State, Agrees
<1> QED BY <1>1, <1>2, <1>3, <1>4 DEF OneJob

LEMMA QueuedIs ==
  ASSUME NEW i \in 1 .. Len(queue)
  PROVE  queue[i].order \in Queued
BY DEF Queued

LEMMA NoneAwaited ==
  ASSUME IInv, OneJob, Flight, ~ InHand(seq)
  PROVE  /\ orders = {} /\ Failing = {} /\ Live = tab[t1].orders
         /\ \A i \in 1 .. Len(queue) : ~ Fresh(queue[i])
<1>1. \A o \in orders \cup Queued : o.job = seq => job[seq].sub[o.part] # "running"
  BY Awaited
<1>2. orders = {}
  BY <1>1 DEF Flight
<1>3. \A i \in 1 .. Len(queue) : ~ Fresh(queue[i])
  BY <1>1, QueuedIs DEF Fresh
<1>4. Failing = {}
  BY <1>3 DEF Failing
<1> QED BY <1>2, <1>3, <1>4 DEF Live

\* While a request goes on.
LEMMA Busy ==
  ASSUME IInv, OneJob, Flight, tab[t1].pc # "idle"
  PROVE  /\ orders = {} /\ Failing = {} /\ Live = tab[t1].orders
         /\ \A i \in 1 .. Len(queue) : ~ Fresh(queue[i])
         /\ tab[t1].pc \notin Making => Live = {}
<1>1. ~ InHand(seq)
  BY DEF InHand
<1>2. tab[t1].pc \notin Making => tab[t1].orders = {}
  BY TabAssumption DEF IInv, TabOK
<1> QED BY <1>1, <1>2, NoneAwaited

\* While its task is made.
LEMMA Busier ==
  ASSUME IInv, OneJob, tab[t1].pc \in Making
  PROVE  /\ Makes(tab[t1]) /\ tab[t1].job = seq /\ seq \in JobId
         /\ job[seq].status = "running" /\ Forgotten(seq)
         /\ \A k \in JobId : job[k].status # "error"
<1>1. /\ Makes(tab[t1]) /\ tab[t1].job = seq /\ seq \in JobId
      /\ job[seq].status = "running" /\ Forgotten(seq)
  BY TabAssumption DEF IInv, TabOK, Makes, OneJob
<1>2. \A k \in JobId : job[k].status # "error"
  BY <1>1 DEF OneJob, NoJob
<1> QED BY <1>1, <1>2

LEMMA ClearAir ==
  ASSUME orders = {}, \A o \in Queued : o.job # seq
  PROVE  Flight /\ Failing = {} /\ Live = tab[t1].orders
<1>1. \A i \in 1 .. Len(queue) : ~ Effective(queue[i]) /\ ~ Fresh(queue[i])
  BY QueuedIs DEF Effective, Fresh
<1> QED BY <1>1 DEF Flight, Failing, Live

\* Every reply of the last task that was handled was one of an error only if the
\* task is in error.
LEMMA FlightSame ==
  ASSUME IInv, Flight, UNCHANGED <<type, node, seq, orders, queue>>, job'[seq] = job[seq],
         row' = row \/ \A k \in JobId : job[k].status # "error"
  PROVE  Flight'
<1>1. \A i \in 1 .. Len(queue) :
        Effective(queue[i]) /\ Handled(queue[i]) => Handled(queue[i])'
  <2> SUFFICES ASSUME NEW i \in 1 .. Len(queue), Effective(queue[i]), Handled(queue[i])
               PROVE  Handled(queue[i])'
    OBVIOUS
  <2>1. PICK m \in Reply : m = queue[i]
    BY QueuedTyped DEF IInv
  <2>2. Reported(m)' = Reported(m) /\ Verdict(m)' = Verdict(m)
    BY DEF Reported, Verdict
  <2>3. m.order.job \in JobId /\ m.order.part \in Part /\ m.order \in Queued
    BY <2>1, QueuedTyped, QueuedIs, Kinds DEF IInv, State, Proper
  <2>4. job[seq].sub[m.order.part] = "error" => job[seq].status = "error"
    BY <2>1, <2>3 DEF Effective, IInv, State, Agrees
  <2>5. Verdict(m) = "error" => row' = row
    BY <2>1, <2>3, <2>4 DEF Handled, Effective
  <2>6. Handled(m)'
    BY <2>1, <2>2, <2>5 DEF Handled, RolledBack
  <2> QED BY <2>1, <2>6 DEF Handled
<1>2. /\ \A o \in orders : Lone(o) => Lone(o)'
      /\ \A i \in 1 .. Len(queue) : /\ Effective(queue[i])' <=> Effective(queue[i])
                                    /\ Fresh(queue[i])' <=> Fresh(queue[i])
                                    /\ Lone(queue[i].order)' <=> Lone(queue[i].order)
                                    /\ OnlyPart(queue[i].order.part)' <=>
                                         OnlyPart(queue[i].order.part)
                                    /\ Succeeds(queue[i])' <=> Succeeds(queue[i])
  BY DEF Lone, OnlyPart, InError, Effective, Fresh, Succeeds
<1> QED BY <1>1, <1>2 DEF Flight

LEMMA StopsAt ==
  ASSUME IInv, OneJob, Good, tab[t1].pc \in Asking
  PROVE  /\ Live = {} /\ orders = {} /\ tab[t1].pc \notin Making
         /\ \A i \in 1 .. Len(queue) : ~ Fresh(queue[i])
<1>1. tab[t1].pc # "idle" /\ tab[t1].pc \notin Making
  BY DEF Asking, Making
<1> QED BY <1>1, Busy DEF Good

\* The rows when nothing is asked for and nothing under way.
LEMMA RowsAtRest ==
  ASSUME Wanted = {}, Live = {}, \A r \in RolesHere : Sound(r),
         tab[t1].pc = "mark" => Offered(tab[t1].want, tab[t1].act),
         tab[t1].pc # "all"
  PROVE  Rows
BY DEF Rows

LEMMA SoundAtRest ==
  ASSUME Rows, Wanted = {}, Live = {}
  PROVE  \A r \in RolesHere : Sound(r)
BY DEF Rows

LEMMA PressGood ==
  ASSUME IInv, OneJob, Good, NEW x \in Role \cup {All}, NEW act \in {"start", "stop"},
         Press(t1, x, act)
  PROVE  Good'
<1>1. PICK r \in Request :
        /\ tab' = [tab EXCEPT ![t1] = r] /\ r.pc = "mark" /\ r.want = x /\ r.act = act
        /\ r.job = NoJobId /\ r.orders = {} /\ tab[t1].pc = "idle"
  BY TabAssumption, PressKeeps
<1>2. /\ UNCHANGED <<type, cluster, node, row, job, seq, cookie, orders, queue, runs, begun>>
      /\ cluster = "operational" /\ Offered(x, act)
  BY DEF Press, Asks
<1>3. tab'[t1] = r /\ tab[t1].orders = {}
  BY <1>1, TabAssumption, TabFrame DEF IInv, TabOK, Making
<1>4. ~ InHand(seq)
  BY <1>2 DEF InHand
<1>5. Live = {} /\ orders = {} /\ Failing = {}
  BY <1>3, <1>4, NoneAwaited DEF Good
<1>6. Flight'
  BY <1>2, FlightSame DEF Good
<1>7. Broken'
  BY <1>2 DEF Good, Broken
<1>8. Desk'
  <2>1. InError' = {}
    BY <1>2 DEF IInv, State, InError
  <2>2. x # NoRole
    BY RolesAssumption
  <2> QED BY <1>1, <1>3, <2>1, <2>2 DEF Desk, Asking
<1>9. Rows'
  <2>1. Wanted = {} /\ Wanted' = {}
    BY <1>1, <1>3 DEF Wanted
  <2>2. Live' = {}
    BY <1>1, <1>2, <1>3, <1>5 DEF Live, Failing, Fresh, Succeeds
  <2>3. \A s \in RolesHere' : Sound(s)'
    BY <1>2, <1>5, <2>1, SoundAtRest DEF Good, Sound, RolesHere
  <2>4. Offered(tab[t1].want, tab[t1].act)'
    BY <1>1, <1>2, <1>3 DEF Offered, RolesHere
  <2>5. tab'[t1].pc # "all"
    BY <1>1, <1>3
  <2> QED BY <2>1, <2>2, <2>3, <2>4, <2>5, RowsAtRest DEF Rows
<1> QED BY <1>6, <1>7, <1>8, <1>9 DEF Good

LEMMA PressDeployGood ==
  ASSUME IInv, OneJob, Good, PressDeploy(t1)
  PROVE  Good'
<1>1. PICK r \in Request :
        /\ tab' = [tab EXCEPT ![t1] = r] /\ r.pc = "changes" /\ r.want = NoRole
        /\ r.job = NoJobId /\ r.orders = {} /\ tab[t1].pc = "idle"
  BY TabAssumption, PressDeployKeeps
<1>2. /\ UNCHANGED <<type, cluster, node, row, job, seq, cookie, orders, queue, runs, begun>>
      /\ Jobs({"running"}) = {} /\ InError # {}
  BY DEF PressDeploy, Asks
<1>3. tab'[t1] = r /\ tab[t1].orders = {}
  BY <1>1, TabAssumption, TabFrame DEF IInv, TabOK, Making
<1>4. \A o \in orders \cup Queued : o.job = seq => job[seq].sub[o.part] # "running"
  BY <1>2, Awaited DEF Jobs
<1>5. Live = {} /\ orders = {} /\ Failing = {}
  <2>1. orders = {}
    BY <1>4 DEF Good, Flight
  <2>2. \A i \in 1 .. Len(queue) : ~ Fresh(queue[i])
    BY <1>4, QueuedIs DEF Fresh
  <2> QED BY <1>3, <2>1, <2>2 DEF Live, Failing
<1>6. Flight'
  BY <1>2, FlightSame DEF Good
<1>7. Broken'
  BY <1>1, <1>2, <1>3 DEF Good, Broken
<1>8. Desk'
  <2>1. InError' # {}
    BY <1>2 DEF InError
  <2> QED BY <1>1, <1>3, <2>1 DEF Desk, Asking
<1>9. Rows'
  <2>1. Wanted = {} /\ Wanted' = {}
    BY <1>1, <1>3 DEF Wanted
  <2>2. Live' = {}
    BY <1>1, <1>2, <1>3, <1>5 DEF Live, Failing, Fresh, Succeeds
  <2>3. \A s \in RolesHere' : Sound(s)'
    BY <1>2, <1>5, <2>1, SoundAtRest DEF Good, Sound, RolesHere
  <2>4. tab'[t1].pc # "all" /\ tab'[t1].pc # "mark"
    BY <1>1, <1>3
  <2> QED BY <2>1, <2>2, <2>3, <2>4, RowsAtRest DEF Rows
<1> QED BY <1>6, <1>7, <1>8, <1>9 DEF Good

\* What marking does to the rows, and what it asks for.
LEMMA MarkedTruly ==
  ASSUME IInv, NEW x \in RolesHere \cup {All}, NEW a \in {"start", "stop"}, Offered(x, a),
         \A s \in RolesHere : Sound(s), NEW r, r = RoleNamed(x),
         NEW act, act = IF a = "start" THEN StartAction(r) ELSE "stop",
         row' = Marked(r, a), UNCHANGED <<type, runs, begun>>
  PROVE  /\ r # All => Before(r, act)'
         /\ \A s \in RolesHere : s # r => Sound(s)'
         /\ r = All => type # OnestType /\ act = a /\ \A s \in Role : AllFit(s, act)'
<1>1. /\ row \in [Role -> 0 .. 3] /\ \A s \in Role : row[s] = 3 => type = OnestType
      /\ RolesHere \subseteq Role /\ All \notin Role
  BY Kinds, RolesAssumption DEF IInv, TypeInv, State
<1>2. r \in RolesHere \cup {All} /\ (r = All => x = All /\ type # OnestType)
  BY <1>1, RolesAssumption DEF RoleNamed, RolesHere
<1>3. CASE r # All
  <2>1. r \in RolesHere /\ r \in Role /\ Sound(r)
    BY <1>1, <1>2, <1>3
  <2>2. CASE a = "start"
    <3>1. row[r] # 2
      <4>1. CASE x = r
        BY <1>3, <2>1, <2>2, <4>1 DEF Offered
      <4>2. CASE x # r
        <5>1. type = OnestType
          BY <4>2 DEF RoleNamed
        <5>2. x = All
          BY <1>2, <4>2, <5>1 DEF RoleNamed, RolesHere
        <5> QED BY <1>1, <2>1, <2>2, <5>2 DEF Offered
      <4> QED BY <4>1, <4>2
    <3>2. row' = [row EXCEPT ![r] = 2]
      BY <1>3, <2>2 DEF Marked
    <3>3. row'[r] = 2 /\ \A s \in Role : s # r => row'[s] = row[s]
      BY <1>1, <2>1, <3>2
    <3>4. r \notin runs /\ (type = OnestType => (row[r] = 3 <=> r \in begun))
      BY <2>1, <3>1 DEF Sound
    <3>5. act = IF type = OnestType /\ row[r] = 3 THEN "started" ELSE "start"
      BY <1>3, <2>2 DEF StartAction
    <3>6. Before(r, act)'
      BY <3>3, <3>4, <3>5 DEF Before
    <3>7. \A s \in RolesHere : s # r => Sound(s)'
      BY <1>1, <3>3 DEF Sound
    <3> QED BY <1>3, <3>6, <3>7
  <2>3. CASE a = "stop"
    <3>1. row[r] = 2
      <4>1. CASE x = r
        BY <1>3, <2>1, <2>3, <4>1 DEF Offered
      <4>2. CASE x # r
        <5>1. type = OnestType
          BY <4>2 DEF RoleNamed
        <5>2. x = All /\ RolesHere = {r}
          BY <1>2, <2>1, <4>2, <5>1 DEF RoleNamed, RolesHere
        <5> QED BY <1>1, <2>1, <2>3, <5>2 DEF Offered
      <4> QED BY <4>1, <4>2
    <3>2. row' = [row EXCEPT ![r] = Stopped]
      BY <1>1, <1>3, <2>1, <2>3, <3>1 DEF Marked
    <3>3. row'[r] = Stopped /\ \A s \in Role : s # r => row'[s] = row[s]
      BY <1>1, <2>1, <3>2
    <3>4. r \in runs /\ (type = OnestType => r \in begun) /\ act = "stop"
      BY <2>1, <2>3, <3>1 DEF Sound
    <3>5. Stopped' = Stopped
      BY DEF Stopped
    <3>6. Before(r, act)'
      BY <3>3, <3>4, <3>5 DEF Before
    <3>7. \A s \in RolesHere : s # r => Sound(s)'
      BY <1>1, <3>3 DEF Sound
    <3> QED BY <1>3, <3>6, <3>7
  <2> QED BY <2>2, <2>3
<1>4. CASE r = All
  <2>1. x = All /\ type # OnestType /\ RolesHere = Role
    BY <1>2, <1>4 DEF RolesHere
  <2>2. row' = row
    <3>1. [row EXCEPT ![All] = 2] = row
      BY <1>1
    <3>2. [row EXCEPT ![All] = IF row[All] = 0 THEN 1 ELSE Stopped] = row
      BY <1>1
    <3> QED BY <1>4, <3>1, <3>2 DEF Marked
  <2>3. act = a
    BY <1>4, <2>1 DEF StartAction
  <2>4. \A s \in RolesHere : Sound(s)'
    BY <2>2 DEF Sound
  <2>5. a = "start" => \A s \in Role : row[s] # 2
    BY <1>1, <2>1, RolesAssumption DEF Offered
  <2>6. a = "stop" => \E s \in Role : row[s] = 2
    BY <1>1, <2>1, RolesAssumption DEF Offered
  <2>7. a = "stop" => \A s \in Role : row[s] \in {0, 2}
    BY <1>1, <2>1, RolesAssumption DEF Offered
  <2>8. \A s \in Role : AllFit(s, act)'
    BY <2>2, <2>3, <2>5, <2>6, <2>7 DEF AllFit
  <2> QED BY <1>4, <2>1, <2>3, <2>4, <2>8
<1> QED BY <1>3, <1>4

LEMMA MarkGood ==
  ASSUME IInv, OneJob, Good, Mark(t1)
  PROVE  Good'
<1>1. /\ tab[t1].pc = "mark" /\ tab[t1] \in Request /\ TabOK(tab[t1])
      /\ UNCHANGED <<type, cluster, node, job, seq, orders, queue, runs, begun>>
      /\ Goto(t1, "changes")
  BY TabAssumption DEF Mark, IInv, TypeInv
<1>2. PICK x \in RolesHere \cup {All}, a \in {"start", "stop"} :
        x = tab[t1].want /\ a = tab[t1].act
  BY <1>1 DEF TabOK, Request
<1>3. PICK r, act : /\ r = RoleNamed(x) /\ act = (IF a = "start" THEN StartAction(r) ELSE "stop")
                    /\ row' = Marked(r, a) /\ cookie' = [role |-> r, act |-> act]
  BY <1>2 DEF Mark
<1>4. PICK t \in Request : /\ tab' = [tab EXCEPT ![t1] = t] /\ t.pc = "changes"
                           /\ t.want = x /\ t.orders = tab[t1].orders
  <2>1. "changes" \in Places
    BY DEF Places, Asking
  <2> QED BY <1>1, <1>2, <2>1, TabAssumption, GotoTyped DEF IInv
<1>5. tab'[t1] = t /\ tab[t1].orders = {}
  BY <1>1, <1>4, TabAssumption, TabFrame DEF IInv, TabOK, Making
<1>6. /\ Live = {} /\ orders = {} /\ Failing = {}
  <2>1. tab[t1].pc \in Asking /\ tab[t1].pc # "idle"
    BY <1>1 DEF Asking
  <2> QED BY <2>1, StopsAt, Busy DEF Good
<1>7. x # NoRole
  BY <1>2, Kinds, RolesAssumption
<1>8. \A k \in JobId : job[k].status # "error"
  BY <1>1, <1>2, <1>7 DEF Good, Broken, Asking
<1>9. Flight'
  BY <1>1, <1>8, FlightSame DEF Good
<1>10. Broken'
  BY <1>1, <1>8 DEF Broken
<1>11. Desk'
  <2>1. InError = {} /\ InError' = InError
    BY <1>1, <1>2, <1>7 DEF Good, Desk, Asking, InError
  <2> QED BY <1>4, <1>5, <1>7, <2>1 DEF Desk
<1>12. Rows'
  <2>1. Wanted = {} /\ Wanted' = {cookie'}
    BY <1>1, <1>4, <1>5, <1>7 DEF Wanted
  <2>2. Live' = {}
    BY <1>1, <1>4, <1>5, <1>6 DEF Live, Failing, Fresh, Succeeds
  <2>3. Offered(x, a) /\ \A s \in RolesHere : Sound(s)
    BY <1>1, <1>2, <1>6, <2>1, SoundAtRest DEF Good, Rows
  <2>4. /\ r # All => Before(r, act)'
        /\ \A s \in RolesHere : s # r => Sound(s)'
        /\ r = All => \A s \in Role : AllFit(s, act)'
    BY <1>1, <1>3, <2>3, MarkedTruly
  <2>5. tab'[t1].pc # "mark" /\ tab'[t1].pc # "all"
    BY <1>4, <1>5
  <2>6. cookie'.role = r /\ cookie'.act = act /\ RolesHere' = RolesHere
    BY <1>1, <1>3 DEF RolesHere
  <2>7. \A c \in Wanted' : c.role = r /\ c.act = act
    BY <2>1, <2>6
  <2>8. \A s \in RolesHere' : (\A c \in Wanted' : c.role # s) => Sound(s)'
    BY <2>1, <2>4, <2>6
  <2>9. \A c \in Wanted' : c.role # All => Before(c.role, c.act)'
    <3> SUFFICES ASSUME NEW c \in Wanted', c.role # All PROVE Before(c.role, c.act)'
      OBVIOUS
    <3>1. Before(r, act)' /\ c.role = r /\ c.act = act
      BY <2>4, <2>7
    <3> QED BY <3>1 DEF Before
  <2>10. \A c \in Wanted' : c.role = All => \A s \in Role : AllFit(s, c.act)'
    BY <2>4, <2>7 DEF AllFit
  <2> QED BY <2>2, <2>5, <2>8, <2>9, <2>10 DEF Rows
<1> QED BY <1>9, <1>10, <1>11, <1>12 DEF Good

LEMMA LookGood ==
  ASSUME IInv, OneJob, Good, Look(t1)
  PROVE  Good'
<1>1. PICK r \in Request :
        /\ tab' = [tab EXCEPT ![t1] = r] /\ r.pc = "create" /\ r.want = tab[t1].want
        /\ r.job = NoJobId /\ r.orders = {}
  BY TabAssumption, LookKeeps
<1>2. /\ UNCHANGED <<type, cluster, node, row, job, seq, cookie, orders, queue, runs, begun>>
      /\ tab[t1].pc = "changes"
  BY DEF Look
<1>3. tab'[t1] = r
  BY <1>1, TabAssumption, TabFrame DEF IInv
<1>4. Live = {} /\ orders = {} /\ Failing = {}
  <2>1. tab[t1].pc \in Asking /\ tab[t1].pc # "idle"
    BY <1>2 DEF Asking
  <2> QED BY <2>1, StopsAt, Busy DEF Good
<1>5. Flight'
  BY <1>2, FlightSame DEF Good
<1>6. Broken'
  BY <1>1, <1>2, <1>3 DEF Good, Broken, Asking
<1>7. Desk'
  BY <1>1, <1>2, <1>3 DEF Good, Desk, Asking, InError
<1>8. Rows'
  <2>1. Wanted' = Wanted
    BY <1>1, <1>2, <1>3 DEF Wanted
  <2>2. Live' = {}
    BY <1>1, <1>2, <1>3, <1>4 DEF Live, Failing, Fresh, Succeeds
  <2>3. tab'[t1].pc # "mark" /\ tab'[t1].pc # "all"
    BY <1>1, <1>3
  <2> QED BY <1>2, <1>4, <2>1, <2>2, <2>3
          DEF Good, Rows, Before, Stopped, Sound, AllFit, RolesHere
<1> QED BY <1>5, <1>6, <1>7, <1>8 DEF Good

\* While the task is made nothing else is under way.
LEMMA MadeGood ==
  ASSUME IInv', OneJob', tab'[t1].pc \in Making, orders' = {}
  PROVE  Flight' /\ Broken' /\ Failing' = {} /\ Live' = tab'[t1].orders
<1>1. /\ tab'[t1].job = seq' /\ seq' \in JobId /\ job'[seq'].status = "running"
      /\ \A o \in orders' \cup Queued' : o.job # seq'
  BY TabAssumption DEF IInv, TabOK, Makes, OneJob, Forgotten
<1>2. \A i \in 1 .. Len(queue') : ~ Effective(queue[i])' /\ ~ Fresh(queue[i])'
  BY <1>1 DEF Effective, Fresh, Queued
<1>3. Flight' /\ Failing' = {} /\ Live' = tab'[t1].orders
  BY <1>2 DEF Flight, Failing, Live
<1>4. \A k \in JobId : job'[k].status # "error"
  BY <1>1 DEF OneJob, NoJob
<1> QED BY <1>3, <1>4 DEF Broken

LEMMA CreateGood ==
  ASSUME IInv, OneJob, Good, Create(t1), IInv', OneJob'
  PROVE  Good'
<1>1. PICK r \in Request :
        /\ tab' = [tab EXCEPT ![t1] = r] /\ r.job = seq' /\ r.cookie = tab[t1].cookie
        /\ r.want = tab[t1].want /\ r.orders = {} /\ r.pc \in Making
        /\ r.pc = IF InError # {} THEN "deploy"
                  ELSE IF tab[t1].cookie.role # All THEN "role"
                  ELSE IF type = Ebs THEN "all" ELSE "start"
  BY TabAssumption, CreateKeeps
<1>2. /\ UNCHANGED <<type, cluster, node, row, cookie, orders, queue, runs, begun>>
      /\ tab[t1].pc = "create" /\ tab[t1].pc \in Asking
  BY DEF Create, Asking
<1>3. tab'[t1] = r
  BY <1>1, TabAssumption, TabFrame DEF IInv
<1>4. Live = {} /\ orders = {}
  BY <1>2, StopsAt
<1>5. Flight' /\ Broken' /\ Live' = {}
  BY <1>1, <1>2, <1>3, <1>4, MadeGood
<1>6. InError' = InError /\ RolesHere' = RolesHere /\ r.pc \notin Asking
  BY <1>1, <1>2 DEF InError, RolesHere, Asking
<1>7. Desk'
  BY <1>1, <1>3, <1>6 DEF Desk
<1>8. \A s \in Role : Sound(s) => Sound(s)'
  BY <1>2 DEF Sound
<1>9. Rows'
  <2>1. CASE InError # {}
    <3>1. r.pc = "deploy" /\ tab[t1].want = NoRole
      BY <1>1, <1>2, <2>1 DEF Good, Desk
    <3>2. Wanted = {} /\ Wanted' = {}
      BY <1>2, <1>3, <3>1 DEF Wanted
    <3>3. \A s \in RolesHere : Sound(s)'
      BY <1>4, <1>8, <3>2, Kinds DEF Good, Rows
    <3> QED BY <1>3, <1>5, <1>6, <3>1, <3>2, <3>3 DEF Rows
  <2>2. CASE InError = {} /\ tab[t1].cookie.role # All
    <3>1. r.pc = "role" /\ tab[t1].want # NoRole /\ tab[t1].cookie = cookie
      BY <1>1, <1>2, <2>2 DEF Good, Desk, OneJob
    <3>2. Wanted = {cookie} /\ Wanted' = {cookie}
      BY <1>1, <1>2, <1>3, <3>1 DEF Wanted
    <3>3. \A s \in RolesHere : cookie.role # s => Sound(s)'
      BY <1>4, <1>8, <3>2, Kinds DEF Good, Rows
    <3>4. Before(cookie.role, cookie.act)' /\ cookie.role # All
      BY <1>2, <2>2, <3>1, <3>2 DEF Good, Rows, Before, Stopped
    <3>5. tab'[t1].pc # "mark" /\ tab'[t1].pc # "all" /\ cookie' = cookie
      BY <1>2, <1>3, <3>1
    <3>6. \A c \in Wanted' : c = cookie
      BY <3>2
    <3>7. \A c \in Wanted' : c.role # All /\ Before(c.role, c.act)'
      BY <3>4, <3>5, <3>6 DEF Before
    <3>8. \A s \in RolesHere' : (\A c \in Wanted' : c.role # s) => Sound(s)'
      BY <1>6, <3>2, <3>3
    <3> QED BY <1>5, <3>5, <3>7, <3>8 DEF Rows
  <2>3. CASE InError = {} /\ tab[t1].cookie.role = All
    <3>1. r.pc \in {"all", "start"} /\ tab[t1].want # NoRole /\ tab[t1].cookie = cookie
      BY <1>1, <1>2, <2>3 DEF Good, Desk, OneJob
    <3>2. Wanted = {cookie} /\ Wanted' = {} /\ cookie.role = All
      BY <1>1, <1>2, <1>3, <2>3, <3>1 DEF Wanted
    <3>3. \A s \in RolesHere : Sound(s)'
      BY <1>4, <1>8, <3>2, Kinds, RolesAssumption DEF Good, Rows
    <3>4. \A s \in Role : AllFit(s, cookie.act)
      BY <3>2 DEF Good, Rows
    <3>5. \A s \in Role : AllFit(s, AllAction(t1))'
      BY <1>1, <1>2, <1>3, <3>1, <3>4 DEF AllFit, AllAction
    <3>6. tab'[t1].pc # "mark"
      BY <1>3, <3>1
    <3> QED BY <1>5, <1>6, <3>2, <3>3, <3>5, <3>6 DEF Rows
  <2> QED BY <2>1, <2>2, <2>3
<1> QED BY <1>5, <1>7, <1>9 DEF Good

\* A request that made its subtasks goes on to the cast.
LEMMA StartGood ==
  ASSUME IInv, OneJob, Good, Start(t1) \/ AllOperated(t1), IInv', OneJob'
  PROVE  Good'
<1>1. PICK pc \in {"start", "cast"} : Goto(t1, pc)
  BY DEF Start, AllOperated
<1>2. /\ tab[t1].pc \in {"start", "all"} /\ tab[t1].pc \in Making /\ tab[t1].pc # "idle"
      /\ UNCHANGED <<type, node, row, job, seq, cookie, orders, queue, runs, begun>>
      /\ pc \in Places
  BY DEF Start, AllOperated, Making, Places
<1>3. PICK r \in Request :
        /\ tab' = [tab EXCEPT ![t1] = r] /\ r.pc = pc /\ r.orders = tab[t1].orders
  BY <1>1, <1>2, TabAssumption, GotoTyped DEF IInv
<1>4. tab'[t1] = r
  BY <1>3, TabAssumption, TabFrame DEF IInv
<1>5. Live = tab[t1].orders /\ orders = {}
  BY <1>2, Busy DEF Good
<1>6. Flight' /\ Broken' /\ Live' = tab[t1].orders
  BY <1>2, <1>3, <1>4, <1>5, MadeGood DEF Making
<1>7. Desk'
  BY <1>2, <1>3, <1>4 DEF Good, Desk, Lone, OnlyPart, InError, Asking
<1>8. Wanted = {} /\ Wanted' = {}
  BY <1>2, <1>3, <1>4 DEF Wanted
<1>9. \A p \in Part : Multi(p) => Multi(p)'
  <2> SUFFICES ASSUME NEW p \in Part, NEW q \in Part, q # p,
                      job[seq].sub[q] # "none" \/ (q \in Role /\ tab[t1].pc = "all")
               PROVE  job'[seq'].sub[q] # "none"
    BY DEF Multi
  <2>1. CASE job[seq].sub[q] # "none"
    BY <1>2, <2>1
  <2>2. CASE q \in Role /\ tab[t1].pc = "all"
    <3>1. Ready = Node /\ ToOperate(t1) = {} /\ tab[t1].job = seq
      BY <1>2, <2>2 DEF Good, Desk, Ready, AllOperated, Start, OneJob
    <3>2. NodesOf[q] \cap Node # {}
      BY <2>2, RolesAssumption
    <3> QED BY <1>2, <2>2, <3>1, <3>2 DEF ToOperate
  <2> QED BY <2>1, <2>2
<1>10. \A o \in tab[t1].orders : o.part # NoRole => Due(o)'
  <2> SUFFICES ASSUME NEW o \in tab[t1].orders, o.part # NoRole PROVE Due(o)'
    OBVIOUS
  <2>1. Due(o) /\ o.part \in Part
    <3>1. Proper(o)
      BY <1>2, Busier DEF Makes
    <3> QED BY <1>5, <3>1, Kinds DEF Good, Rows, Proper
  <2>2. Before(o.part, o.act) => Before(o.part, o.act)'
    BY <1>2 DEF Before, Stopped
  <2> QED BY <1>2, <1>9, <2>1, <2>2 DEF Due, Stopped
<1>11. Rows'
  <2>1. \A s \in RolesHere' : (\A o \in Live' : o.part # s) => Sound(s)'
    BY <1>2, <1>5, <1>6, <1>8 DEF Good, Rows, Sound, RolesHere
  <2>2. tab'[t1].pc # "mark" /\ tab'[t1].pc # "all"
    BY <1>3, <1>4
  <2> QED BY <1>6, <1>8, <1>10, <2>1, <2>2 DEF Rows
<1> QED BY <1>6, <1>7, <1>11 DEF Good

\* The nodes that failed are deployed again.
LEMMA DeployNodesGood ==
  ASSUME IInv, OneJob, Good, DeployNodes(t1), IInv', OneJob'
  PROVE  Good'
<1>1. /\ tab[t1].pc = "deploy" /\ tab[t1].pc \in Making /\ tab[t1].pc # "idle"
      /\ UNCHANGED <<type, cluster, node, row, seq, cookie, orders, queue, runs, begun>>
  BY DEF DeployNodes, Making
<1>2. Makes(tab[t1]) /\ tab[t1].job = seq /\ job[seq].sub = NoParts /\ tab[t1].orders = {}
  BY <1>1, Busier DEF Makes
<1>3. tab[t1].nodes \in SUBSET Node
  BY TabAssumption, DeployNodesKeeps
<1>4. PICK nodes \in SUBSET Node : nodes = tab[t1].nodes
  BY <1>3
<1>5. Subtasked(t1, NoRole, "start", nodes, "start")
  BY <1>4, TabAssumption, DeployNodesKeeps
<1>6. PICK o : o = [job |-> seq, part |-> NoRole, act |-> "start", nodes |-> nodes]
  OBVIOUS
<1>7. o.part = NoRole
  BY <1>6
<1>8. PICK r \in Request : /\ tab' = [tab EXCEPT ![t1] = r] /\ r.pc = "start"
                           /\ r.orders = {o}
  BY <1>2, <1>5, <1>6 DEF Subtasked
<1>9. tab'[t1] = r
  BY <1>8, TabAssumption, TabFrame DEF IInv
<1>10. Live = {} /\ orders = {}
  BY <1>1, <1>2, Busy DEF Good
<1>11. Flight' /\ Broken' /\ Live' = {o}
  BY <1>1, <1>8, <1>9, <1>10, MadeGood DEF Making
<1>12. Lone(o)'
  <2>1. \A q \in Part : q # NoRole => job'[seq].sub[q] = "none"
    BY <1>2, <1>5, Kinds DEF Subtasked
  <2> QED BY <1>1, <1>7, <2>1 DEF Lone, OnlyPart
<1>13. Desk'
  BY <1>8, <1>9, <1>12 DEF Desk, Asking
<1>14. Wanted = {} /\ Wanted' = {}
  BY <1>1, <1>8, <1>9 DEF Wanted
<1>15. \A s \in RolesHere' : Sound(s)'
  BY <1>1, <1>10, <1>14 DEF Good, Rows, Sound, RolesHere
<1>16. Rows'
  BY <1>7, <1>8, <1>9, <1>11, <1>14, <1>15 DEF Rows
<1> QED BY <1>11, <1>13, <1>16 DEF Good

\* The message for one role is made.
LEMMA OperateRoleGood ==
  ASSUME IInv, OneJob, Good, OperateRole(t1), IInv', OneJob'
  PROVE  Good'
<1>1. /\ tab[t1].pc = "role" /\ tab[t1].pc \in Making /\ tab[t1].pc # "idle"
      /\ UNCHANGED <<type, cluster, node, row, seq, cookie, orders, queue, runs, begun>>
  BY DEF OperateRole, Making
<1>2. /\ tab[t1].job = seq /\ tab[t1].orders = {} /\ tab[t1].cookie.role # All
  BY <1>1, Busier, TabAssumption DEF Makes, IInv, TabOK
<1>3. PICK p \in RolesHere : p = tab[t1].cookie.role
  BY <1>1, TabAssumption, RoleCookie
<1>4. PICK act \in Actions : act = tab[t1].cookie.act
  BY <1>1, TabAssumption, RoleCookie
<1>5. Subtasked(t1, p, act, Ready, "start")
  BY <1>3, <1>4, TabAssumption, OperateRoleKeeps
<1>6. PICK o : o = [job |-> seq, part |-> p, act |-> act, nodes |-> Ready]
  OBVIOUS
<1>7. o.part = p /\ o.act = act /\ p # NoRole
  BY <1>6, Kinds
<1>8. PICK r \in Request : /\ tab' = [tab EXCEPT ![t1] = r] /\ r.pc = "start"
                           /\ r.orders = {o}
  BY <1>2, <1>5, <1>6 DEF Subtasked
<1>9. tab'[t1] = r
  BY <1>8, TabAssumption, TabFrame DEF IInv
<1>10. Live = {} /\ orders = {}
  BY <1>1, <1>2, Busy DEF Good
<1>11. Flight' /\ Broken' /\ Live' = {o}
  BY <1>1, <1>8, <1>9, <1>10, MadeGood DEF Making
<1>12. Lone(o)'
  <2>1. InError = {} /\ InError' = InError
    BY <1>1 DEF Good, Desk, InError
  <2> QED BY <1>7, <2>1 DEF Lone
<1>13. Desk'
  BY <1>8, <1>9, <1>12 DEF Desk, Asking
<1>14. Wanted = {tab[t1].cookie} /\ Wanted' = {}
  BY <1>1, <1>8, <1>9 DEF Wanted
<1>15. \A s \in RolesHere' : s # p => Sound(s)'
  BY <1>1, <1>3, <1>10, <1>14 DEF Good, Rows, Sound, RolesHere
<1>16. Due(o)'
  <2>1. Before(p, act)
    BY <1>2, <1>3, <1>4, <1>14 DEF Good, Rows
  <2>2. Before(p, act)'
    BY <1>1, <2>1 DEF Before, Stopped
  <2> QED BY <1>7, <2>2 DEF Due, Before
<1>17. Rows'
  BY <1>7, <1>8, <1>9, <1>11, <1>14, <1>15, <1>16 DEF Rows
<1> QED BY <1>11, <1>13, <1>17 DEF Good

\* The message for one of all roles is made, and its row set.
LEMMA OperateAllGood ==
  ASSUME IInv, OneJob, Good, OperateAll(t1), IInv', OneJob'
  PROVE  Good'
<1>1. /\ tab[t1].pc = "all" /\ tab[t1].pc \in Making /\ tab[t1].pc # "idle"
      /\ UNCHANGED <<type, cluster, node, seq, cookie, orders, queue, runs, begun>>
  BY DEF OperateAll, Making
<1>2. /\ tab[t1].job = seq /\ Makes(tab[t1]) /\ type = Ebs /\ type # OnestType
      /\ RolesHere = Role /\ RolesHere' = Role /\ InError = {}
      /\ row \in [Role -> 0 .. 3]
  BY <1>1, Busier, TabAssumption DEF IInv, TypeInv, TabOK, RolesHere, Ebs, OnestType, Good, Desk
<1>3. PICK act \in {"stop", "start"} : act = AllAction(t1)
  BY DEF AllAction
<1>4. PICK p \in ToOperate(t1) :
        /\ Subtasked(t1, p, act, NodesOf[p] \cap Ready, "all")
        /\ row' = [row EXCEPT ![p] = IF act = "stop" THEN 1 ELSE 2]
  BY <1>3, TabAssumption, OperateAllKeeps
<1>5. p \in Role /\ p \in Part /\ p # NoRole /\ job[seq].sub[p] = "none"
  BY <1>2, <1>4, Kinds DEF ToOperate
<1>6. PICK o : o = [job |-> seq, part |-> p, act |-> act, nodes |-> NodesOf[p] \cap Ready]
  OBVIOUS
<1>7. o.part = p /\ o.act = act
  BY <1>6
<1>8. PICK r \in Request : /\ tab' = [tab EXCEPT ![t1] = r] /\ r.pc = "all"
                           /\ r.orders = tab[t1].orders \cup {o}
                           /\ r.cookie = tab[t1].cookie
  BY <1>2, <1>4, <1>6 DEF Subtasked
<1>9. tab'[t1] = r
  BY <1>8, TabAssumption, TabFrame DEF IInv
<1>10. Live = tab[t1].orders /\ orders = {}
  BY <1>1, Busy DEF Good
<1>11. Flight' /\ Broken' /\ Live' = tab[t1].orders \cup {o}
  BY <1>1, <1>8, <1>9, <1>10, MadeGood DEF Making
<1>12. \A x \in tab[t1].orders : x.part # p /\ x.part \in Part /\ x.part # NoRole
                                 /\ x.part \in Role
  <2> SUFFICES ASSUME NEW x \in tab[t1].orders
               PROVE  x.part # p /\ x.part \in Role /\ x.part # NoRole
    BY Kinds
  <2>1. Proper(x) /\ job[seq].sub[x.part] = "running"
    BY <1>2 DEF Makes
  <2>2. x.part # NoRole
    BY <1>1 DEF Good, Desk
  <2> QED BY <1>2, <1>5, <2>1, <2>2 DEF Proper
<1>13. Desk'
  <2>1. InError' = {}
    BY <1>1, <1>2 DEF InError
  <2>2. \A x \in r.orders : x.part # NoRole /\ Lone(x)'
    BY <1>5, <1>7, <1>8, <1>12, <2>1 DEF Lone
  <2>3. \A x, y \in r.orders : x.part = y.part => x = y
    BY <1>7, <1>8, <1>12 DEF Good, Desk
  <2> QED BY <1>8, <1>9, <2>1, <2>2, <2>3 DEF Desk, Asking
<1>14. Wanted = {} /\ Wanted' = {}
  BY <1>1, <1>8, <1>9 DEF Wanted
<1>15. /\ row'[p] = IF act = "stop" THEN 1 ELSE 2
       /\ \A s \in Role : s # p => row'[s] = row[s]
  BY <1>2, <1>4, <1>5
<1>16. \A q \in Part : job'[seq].sub[q] = IF q = p THEN "running" ELSE job[seq].sub[q]
  BY <1>2, <1>4 DEF Subtasked
<1>17. AllFit(p, act) /\ Sound(p)
  <2>1. \A x \in Live : x.part # p
    BY <1>10, <1>12
  <2>2. AllFit(p, AllAction(t1))
    BY <1>1, <1>5 DEF Good, Rows
  <2> QED BY <1>2, <1>3, <1>5, <1>14, <2>1, <2>2 DEF Good, Rows, AllFit
<1>18. Due(o)'
  <2>1. Stopped' = 1 /\ type' # OnestType
    BY <1>1, <1>2 DEF Stopped
  <2>2. CASE act = "start"
    <3>1. row'[p] = 2 /\ p \notin runs
      BY <1>15, <1>17, <2>2 DEF AllFit, Sound
    <3>2. Before(p, "start")'
      BY <1>1, <2>1, <3>1 DEF Before
    <3> QED BY <1>7, <2>2, <3>2 DEF Due, Before
  <2>3. CASE act = "stop" /\ row[p] = 2
    <3>1. row'[p] = 1 /\ p \in runs
      BY <1>15, <1>17, <2>3 DEF Sound
    <3>2. Before(p, "stop")'
      BY <1>1, <2>1, <3>1 DEF Before
    <3> QED BY <1>7, <2>3, <3>2 DEF Due, Before
  <2>4. CASE act = "stop" /\ row[p] # 2
    <3>1. row'[p] = 1
      BY <1>15, <2>4
    <3>2. PICK q \in Role : q # p
      BY <1>17, <2>4 DEF AllFit
    <3>3. q \in Part /\ tab'[t1].pc = "all"
      BY <1>8, <1>9, Kinds
    <3>4. Multi(p)'
      BY <3>2, <3>3 DEF Multi
    <3> QED BY <1>7, <2>1, <2>4, <3>1, <3>4 DEF Due, Multi
  <2> QED BY <2>2, <2>3, <2>4
<1>19. \A x \in tab[t1].orders : Due(x)'
  <2> SUFFICES ASSUME NEW x \in tab[t1].orders PROVE Due(x)'
    OBVIOUS
  <2>1. x.part \in Role /\ x.part # p /\ Due(x)
    BY <1>10, <1>12 DEF Good, Rows
  <2>2. row'[x.part] = row[x.part] /\ Stopped' = Stopped
    BY <1>1, <1>15, <2>1 DEF Stopped
  <2>3. Before(x.part, x.act) => Before(x.part, x.act)'
    BY <1>1, <2>2 DEF Before
  <2>4. Multi(x.part) => Multi(x.part)'
    <3>1. tab'[t1].pc = "all" /\ seq' = seq
      BY <1>1, <1>8, <1>9
    <3>2. \A q \in Part : job[seq].sub[q] # "none" => job'[seq].sub[q] # "none"
      BY <1>16
    <3> QED BY <3>1, <3>2 DEF Multi
  <2> QED BY <1>1, <2>1, <2>2, <2>3, <2>4 DEF Due
<1>20. Rows'
  <2>1. \A s \in Role : (\A x \in Live' : x.part # s) => Sound(s)'
    <3> SUFFICES ASSUME NEW s \in Role, \A x \in Live' : x.part # s PROVE Sound(s)'
      OBVIOUS
    <3>1. s # p /\ \A x \in Live : x.part # s
      BY <1>7, <1>10, <1>11
    <3>2. Sound(s) /\ row'[s] = row[s]
      BY <1>2, <1>14, <1>15, <3>1 DEF Good, Rows
    <3> QED BY <1>1, <3>2 DEF Sound
  <2>2. \A s \in Role : job'[seq'].sub[s] = "none" => AllFit(s, AllAction(t1))'
    <3> SUFFICES ASSUME NEW s \in Role, job'[seq'].sub[s] = "none"
                 PROVE  AllFit(s, AllAction(t1))'
      OBVIOUS
    <3>1. s # p /\ job[seq].sub[s] = "none"
      BY <1>1, <1>16, Kinds
    <3>2. AllFit(s, act) /\ row'[s] = row[s]
      <4>1. AllFit(s, AllAction(t1))
        BY <1>1, <3>1 DEF Good, Rows
      <4> QED BY <1>3, <1>15, <3>1, <4>1 DEF AllFit
    <3>3. AllAction(t1)' = act
      BY <1>3, <1>8, <1>9 DEF AllAction
    <3> QED BY <3>2, <3>3 DEF AllFit
  <2>3. tab'[t1].pc # "mark"
    BY <1>8, <1>9
  <2>4. \A x \in Live' : Due(x)'
    BY <1>11, <1>18, <1>19
  <2> QED BY <1>2, <1>14, <2>1, <2>2, <2>3, <2>4 DEF Rows
<1> QED BY <1>11, <1>13, <1>20 DEF Good

\* The requests sent beside the press.
LEMMA BesideGood ==
  ASSUME IInv, OneJob, Good, Clear(t1) \/ Patch(t1)
  PROVE  Good'
<1>1. tab[t1] \in Request /\ tab \in [Tab -> Request] /\ tab[t1].clear \in SUBSET JobId
  BY TabAssumption DEF IInv, TypeInv, Request
<1>2. /\ tab'[t1].pc = tab[t1].pc /\ tab'[t1].cookie = tab[t1].cookie
      /\ tab'[t1].want = tab[t1].want /\ tab'[t1].act = tab[t1].act
      /\ tab'[t1].orders = tab[t1].orders /\ tab'[t1].job = tab[t1].job
  <2>1. CASE Clear(t1)
    BY <1>1, <2>1, TabAssumption DEF Clear, Request
  <2>2. CASE Patch(t1)
    BY <1>1, <2>2, TabAssumption DEF Patch, Request
  <2> QED BY <2>1, <2>2
<1>3. /\ UNCHANGED <<type, node, row, seq, cookie, orders, queue, runs, begun>>
      /\ cluster' = cluster \/ cluster' = "deployment"
  BY DEF Clear, Patch
<1>4. \A k \in JobId : job'[k] = job[k] \/ (job'[k] = NoJob /\ job[k].status # "running")
  <2>1. CASE Clear(t1)
    BY <1>1, <2>1, TabAssumption DEF Clear, IInv, TabOK
  <2>2. CASE Patch(t1)
    BY <2>2 DEF Patch
  <2> QED BY <2>1, <2>2
<1>5. Broken'
  <2>1. \A k \in JobId : job'[k].status = "error" => job'[k] = job[k]
    BY <1>4 DEF NoJob
  <2> QED BY <1>2, <1>3, <2>1 DEF Good, Broken
<1>6. Desk' /\ Wanted' = Wanted /\ RolesHere' = RolesHere /\ InError' = InError
  <2>1. \A o \in tab[t1].orders : Lone(o) => Lone(o)'
    <3> SUFFICES ASSUME NEW o \in tab[t1].orders, Lone(o) PROVE Lone(o)'
      OBVIOUS
    <3>1. tab[t1].pc \in Making
      BY TabAssumption DEF IInv, TabOK
    <3>2. seq \in JobId /\ job[seq].status = "running"
      BY <3>1, Busier
    <3> QED BY <1>3, <1>4, <3>2 DEF Lone, OnlyPart, InError
  <2> QED BY <1>2, <1>3, <2>1 DEF Good, Desk, Wanted, RolesHere, InError
<1>7. CASE job'[seq] = job[seq]
  <2>1. Flight'
    BY <1>3, <1>7, FlightSame DEF Good
  <2>2. Live' = Live
    BY <1>2, <1>3, <1>7 DEF Live, Failing, Fresh, Succeeds
  <2>3. Rows'
    BY <1>2, <1>3, <1>6, <1>7, <2>2
       DEF Good, Rows, Before, Stopped, Sound, AllFit, Multi, Due, Offered, AllAction, RolesHere
  <2> QED BY <1>5, <1>6, <2>1, <2>3 DEF Good
<1>8. CASE job'[seq] # job[seq]
  <2>1. seq \in JobId => job'[seq] = NoJob /\ job[seq].status # "running"
    BY <1>4, <1>8
  <2>2. tab[t1].pc \notin Making /\ tab[t1].orders = {}
    BY <2>1, Busier, TabAssumption DEF IInv, TabOK
  <2>3. ~ InHand(seq) /\ \A o \in orders \cup Queued : o.job = seq =>
          job[seq].sub[o.part] # "running" /\ job'[seq].sub[o.part] = "none"
    <3>1. seq \in JobId => \A p \in Part : job[seq].sub[p] # "running" /\ job'[seq].sub[p] = "none"
      BY <2>1, Kinds DEF IInv, State, Agrees
    <3>2. \A o \in orders \cup Queued : o.job = seq => seq \in JobId /\ o.part \in Part
      BY Awaited
    <3>3. ~ InHand(seq)
      <4> SUFFICES ASSUME InHand(seq) PROVE FALSE
        OBVIOUS
      <4>1. PICK p \in Part : job[seq].sub[p] = "running"
        BY DEF InHand
      <4>2. PICK o \in orders \cup Queued : o.job = seq
        BY <4>1 DEF InHand
      <4> QED BY <3>1, <3>2, <4>1, <4>2
    <3> QED BY <3>1, <3>2, <3>3
  <2>4. Live = {} /\ orders = {}
    BY <2>2, <2>3, NoneAwaited DEF Good
  <2>5. \A i \in 1 .. Len(queue) : ~ Effective(queue[i])' /\ ~ Fresh(queue[i])'
    BY <1>3, <2>3, QueuedIs DEF Effective, Fresh
  <2>6. Flight' /\ Live' = {}
    BY <1>2, <1>3, <2>2, <2>4, <2>5 DEF Flight, Live, Failing
  <2>7. Rows'
    BY <1>2, <1>3, <1>6, <2>2, <2>4, <2>6
       DEF Good, Rows, Before, Stopped, Sound, AllFit, Offered, RolesHere, Making
  <2> QED BY <1>5, <1>6, <2>6, <2>7 DEF Good
<1> QED BY <1>7, <1>8

\* PUT finds a task that runs, which it does not end; nobody will.
LEMMA RefuseStuck ==
  ASSUME IInv, OneJob, Good, Refuse(t1)
  PROVE  Stuck'
<1>1. /\ tab[t1].pc = "create" /\ tab[t1].pc \notin Making /\ tab[t1].pc # "idle"
      /\ tab[t1].seen \cap Jobs({"running"}) # {}
      /\ tab' = [tab EXCEPT ![t1] = Left(t1)]
      /\ UNCHANGED <<job, seq, orders, queue>>
  BY DEF Refuse, Making
<1>2. PICK k \in JobId : job[k].status = "running"
  BY <1>1 DEF Jobs
<1>3. k = seq
  BY <1>2, LastRuns
<1>4. ~ InHand(seq)
  BY <1>1 DEF InHand
<1>5. Forgotten(seq)
  BY <1>1, <1>2, <1>3, <1>4 DEF OneJob
<1>6. orders = {}
  BY <1>1, Busy DEF Good
<1>7. tab'[t1].pc \notin Making
  BY <1>1, TabAssumption, LeftTyped, TabFrame DEF IInv, Making
<1> QED BY <1>1, <1>2, <1>3, <1>5, <1>6, <1>7 DEF Stuck, Forgotten, Queued

LEMMA CastGood ==
  ASSUME IInv, OneJob, Good, Cast(t1), IInv', OneJob'
  PROVE  (Stuck \/ Good)'
<1>1. /\ tab[t1].pc = "cast" /\ tab[t1].pc \in Making /\ tab[t1].pc # "idle"
      /\ orders' = orders \cup tab[t1].orders /\ tab'[t1] = Idle
      /\ UNCHANGED <<type, cluster, node, row, job, seq, cookie, queue, runs, begun>>
  BY TabAssumption DEF Cast, Making, IInv, TypeInv
<1>2. /\ Makes(tab[t1]) /\ tab[t1].job = seq /\ seq \in JobId /\ job[seq].status = "running"
      /\ Forgotten(seq) /\ \A k \in JobId : job[k].status # "error"
  BY <1>1, Busier
<1>3. orders = {} /\ Live = tab[t1].orders
  BY <1>1, Busy DEF Good
<1>4. Idle.pc = "idle" /\ Idle.orders = {} /\ "idle" \notin Making \cup Asking
  BY IdleTyped DEF Making, Asking
<1>5. CASE tab[t1].orders = {}
  BY <1>1, <1>2, <1>3, <1>4, <1>5 DEF Stuck, Forgotten, Queued
<1>6. CASE tab[t1].orders # {}
  <2>1. \A i \in 1 .. Len(queue') : ~ Effective(queue[i])' /\ ~ Fresh(queue[i])'
    BY <1>1, <1>2, QueuedIs DEF Effective, Fresh, Forgotten
  <2>2. Flight'
    <3>1. \A o \in orders' : o.job = seq /\ job[seq].sub[o.part] = "running" /\ Lone(o)
      BY <1>1, <1>2, <1>3 DEF Makes, Good, Desk
    <3>2. \A x, y \in orders' : x.part = y.part => x = y
      BY <1>1, <1>3 DEF Good, Desk
    <3> QED BY <1>1, <2>1, <3>1, <3>2 DEF Flight, Lone, OnlyPart, InError
  <2>3. Broken'
    BY <1>1, <1>2 DEF Broken
  <2>4. Desk'
    BY <1>1, <1>4, RolesAssumption DEF Desk, Making, Asking
  <2>5. Failing' = {} /\ Live' = Live
    BY <1>1, <1>3, <1>4, <2>1 DEF Live, Failing
  <2>6. Wanted = {} /\ Wanted' = {}
    BY <1>1, <1>4 DEF Wanted
  <2>7. \A p \in Part : Multi(p) => Multi(p)'
    BY <1>1 DEF Multi
  <2>8. \A o \in Live : o.part \in Part
    BY <1>2, <1>3, Kinds DEF Makes, Proper
  <2>9. \A o \in Live : Due(o) => Due(o)'
    BY <1>1, <2>7, <2>8 DEF Due, Before, Stopped
  <2>10. \A r \in RolesHere' : (\A o \in Live' : o.part # r) => Sound(r)'
    BY <1>1, <2>5, <2>6 DEF Good, Rows, Sound, RolesHere
  <2>11. Rows'
    BY <1>1, <1>4, <2>5, <2>6, <2>9, <2>10 DEF Good, Rows
  <2> QED BY <2>2, <2>3, <2>4, <2>11 DEF Good
<1> QED BY <1>5, <1>6

\* The request ends before its messages are sent: nobody will end its task,
\* unless that ended with it.
LEMMA LostGood ==
  ASSUME IInv, OneJob, Good, DeployNodesFails(t1) \/ OperateRoleFails(t1) \/ Crash(t1),
         IInv', OneJob'
  PROVE  (Stuck \/ Good)'
<1>1. /\ tab[t1].pc \in Making /\ tab[t1].pc # "idle" /\ tab' = [tab EXCEPT ![t1] = Left(t1)]
      /\ UNCHANGED <<type, node, row, seq, cookie, orders, queue, runs, begun>>
  BY DEF DeployNodesFails, OperateRoleFails, Crash, Abandon, Making
<1>2. /\ tab'[t1].pc = "idle" /\ tab'[t1].orders = {} /\ "idle" \notin Making \cup Asking
  BY <1>1, TabAssumption, LeftTyped, TabFrame DEF IInv, Making, Asking
<1>3. /\ Makes(tab[t1]) /\ tab[t1].job = seq /\ seq \in JobId /\ job[seq].status = "running"
      /\ Forgotten(seq)
  BY <1>1, Busier
<1>4. orders = {} /\ Forgotten(seq)'
  BY <1>1, <1>3, Busy DEF Good, Forgotten, Queued
<1>5. CASE OperateRoleFails(t1) \/ Crash(t1)
  <2>1. job'[seq].status = "running"
    BY <1>3, <1>5, TabAssumption, OperateRoleFailsKeeps DEF Crash
  <2> QED BY <1>1, <1>2, <1>3, <1>4, <2>1 DEF Stuck, Forgotten
<1>6. CASE DeployNodesFails(t1)
  <2>1. tab[t1].pc = "deploy" /\ cluster' = "error"
    BY <1>6 DEF DeployNodesFails
  <2>2. job'[seq] = Updated(job[seq], NoRole, "error")
    BY <1>3, <1>6, TabAssumption, DeployNodesFailsKeeps
  <2>3. Ended(job[seq], NoRole, "error", job'[seq])
    BY <1>3, <2>2, UpdatedRow, Kinds DEF IInv, TypeInv
  <2>4. \A o \in Queued' : o.job # seq'
    BY <1>1, <1>4 DEF Forgotten
  <2>5. Flight' /\ Failing' = {} /\ Live' = {}
    <3>1. \A i \in 1 .. Len(queue') : ~ Effective(queue[i])' /\ ~ Fresh(queue[i])'
      BY <2>4 DEF Effective, Fresh, Queued
    <3> QED BY <1>1, <1>2, <1>4, <3>1 DEF Flight, Failing, Live
  <2>6. Broken'
    <3>1. job'[seq].sub[NoRole] = "error" /\ NoRole \in Part
      BY <2>3, Kinds DEF Ended
    <3>2. \A k \in JobId : job'[k].status = "error" => k = seq
      BY <1>1 DEF OneJob, NoJob
    <3> QED BY <1>2, <2>1, <3>1, <3>2 DEF Broken
  <2>7. Desk'
    BY <1>2 DEF Desk, Asking
  <2>8. Wanted = {} /\ Wanted' = {} /\ Live = {}
    BY <1>1, <1>2, <1>3, <2>1, Busy DEF Wanted, Makes, Good
  <2>9. Rows'
    BY <1>1, <1>2, <2>5, <2>8 DEF Good, Rows, Sound, RolesHere
  <2> QED BY <2>5, <2>6, <2>7, <2>9 DEF Good
<1> QED BY <1>5, <1>6

\* A task that was forgotten stays so: it refuses all requests that follow.
LEMMA StuckStays ==
  ASSUME IInv, OneJob, Stuck,
         \/ Acts(t1)
         \/ \E o \in orders : Answer(o)
         \/ Consume \/ ConsumeUnacknowledged
  PROVE  Stuck'
<1>1. tab \in [Tab -> Request] /\ tab[t1] \in Request /\ t1 \in Tab
      /\ seq \in JobId /\ job[seq].status = "running" /\ tab[t1].pc \notin Making
  BY TabAssumption DEF IInv, TypeInv, Stuck
<1>2. ASSUME UNCHANGED <<seq, orders, queue>>, tab'[t1].pc \notin Making,
             job'[seq] = job[seq]
      PROVE  Stuck'
  BY <1>2 DEF Stuck, Forgotten, Queued
<1>3. CASE Acts(t1)
  <2>1. ASSUME NEW x \in Role \cup {All}, NEW act \in {"start", "stop"}, Press(t1, x, act)
        PROVE  Stuck'
    <3>1. PICK r \in Request : tab' = [tab EXCEPT ![t1] = r] /\ r.pc = "mark"
      BY <1>1, <2>1, PressKeeps
    <3>2. UNCHANGED <<job, seq, orders, queue>> /\ "mark" \notin Making
      BY <2>1 DEF Press, Asks, Making
    <3> QED BY <1>1, <1>2, <3>1, <3>2
  <2>2. CASE PressDeploy(t1)
    <3>1. PICK r \in Request : tab' = [tab EXCEPT ![t1] = r] /\ r.pc = "changes"
      BY <1>1, <2>2, PressDeployKeeps
    <3>2. UNCHANGED <<job, seq, orders, queue>> /\ "changes" \notin Making
      BY <2>2 DEF PressDeploy, Asks, Making
    <3> QED BY <1>1, <1>2, <3>1, <3>2
  <2>3. CASE Clear(t1)
    <3>1. seq \notin tab[t1].clear
      BY <1>1 DEF IInv, TabOK
    <3>2. tab'[t1].pc = tab[t1].pc
      BY <1>1, <2>3 DEF Clear, Request
    <3>3. UNCHANGED <<seq, orders, queue>> /\ job'[seq] = job[seq]
      BY <1>1, <2>3, <3>1 DEF Clear
    <3> QED BY <1>1, <1>2, <3>2, <3>3
  <2>4. CASE Patch(t1)
    <3>1. tab'[t1].pc = tab[t1].pc
      BY <1>1, <2>4 DEF Patch, Request
    <3> QED BY <1>1, <1>2, <2>4, <3>1 DEF Patch
  <2>5. CASE Mark(t1)
    <3>1. UNCHANGED <<job, seq, orders, queue>> /\ Goto(t1, "changes") /\ "changes" \notin Making
          /\ "changes" \in Places
      BY <2>5 DEF Mark, Making, Places, Asking
    <3>2. tab'[t1].pc = "changes"
      BY <1>1, <3>1, GotoTyped, TabFrame DEF IInv
    <3> QED BY <1>2, <3>1, <3>2
  <2>6. CASE Look(t1)
    <3>1. PICK r \in Request : tab' = [tab EXCEPT ![t1] = r] /\ r.pc = "create"
      BY <1>1, <2>6, LookKeeps
    <3>2. UNCHANGED <<job, seq, orders, queue>> /\ "create" \notin Making
      BY <2>6 DEF Look, Making
    <3> QED BY <1>1, <1>2, <3>1, <3>2
  <2>7. CASE Refuse(t1)
    <3>1. UNCHANGED <<job, seq, orders, queue>> /\ tab' = [tab EXCEPT ![t1] = Left(t1)]
      BY <2>7 DEF Refuse
    <3>2. tab'[t1].pc \notin Making
      BY <1>1, <3>1, LeftTyped, TabFrame DEF IInv, Making
    <3> QED BY <1>2, <3>1, <3>2
  <2>8. ~ Create(t1)
    <3>1. tab[t1].pc = "create" => seq \in tab[t1].seen \cap Jobs({"running"})
      BY <1>1 DEF OneJob, Jobs
    <3> QED BY <3>1 DEF Create
  <2>9. Acts(t1) =>
          \/ tab[t1].pc \in Making
          \/ \E x \in Role \cup {All}, act \in {"start", "stop"} : Press(t1, x, act)
          \/ PressDeploy(t1) \/ Clear(t1) \/ Patch(t1) \/ Mark(t1) \/ Look(t1)
          \/ Refuse(t1) \/ Create(t1)
    BY DEF Acts, Continue, DeployNodes, OperateRole, OperateAll, AllOperated, Start, Cast,
           DeployNodesFails, OperateRoleFails, Crash, Making
  <2> QED BY <1>1, <1>3, <2>1, <2>2, <2>3, <2>4, <2>5, <2>6, <2>7, <2>8, <2>9
<1>4. ~ \E o \in orders : Answer(o)
  BY DEF Stuck
<1>5. CASE Consume \/ ConsumeUnacknowledged
  <2>1. /\ queue[1] \in Reply /\ queue[1].order \in Queued /\ Receive(queue[1])
        /\ Queued' \subseteq Queued /\ UNCHANGED <<type, seq, tab, orders>>
    BY <1>5, DeliveryKeeps
  <2>2. PICK m \in Reply : m = queue[1] /\ m.order \in Queued /\ Receive(m)
    BY <2>1
  <2>3. m.order.job # seq
    BY <2>2 DEF Stuck, Forgotten
  <2>4. job'[seq] = job[seq]
    BY <1>1, <2>1, <2>2, <2>3, Received
  <2> QED BY <2>1, <2>4 DEF Stuck, Forgotten
<1> QED BY <1>3, <1>4, <1>5

\* What an order that is carried out makes of its role.
LEMMA CarriedTruly ==
  ASSUME IInv, NEW o \in Order, o.part \in RolesHere, CarriedOut(o), UNCHANGED <<type, row>>
  PROVE  /\ Due(o) => Sound(o.part)'
         /\ \A p \in Part : p # o.part => (p \in runs' <=> p \in runs)
                                          /\ (p \in begun' <=> p \in begun)
<1>1. PICK p \in RolesHere, act \in Actions : p = o.part /\ act = o.act
  BY DEF Order
<1>2. /\ runs' = IF act = "stop" THEN runs \ {p} ELSE runs \cup {p}
      /\ begun' = IF act = "start" THEN begun \cup {p} ELSE begun
  BY <1>1 DEF CarriedOut
<1>3. act \in {"start", "started", "stop"} /\ Stopped \in {1, 3} /\ Stopped # 2
      /\ (type = OnestType => Stopped = 3)
  BY DEF Actions, Stopped
<1>4. ASSUME Before(p, act) \/ (act = "stop" /\ type # OnestType /\ row[p] = Stopped)
      PROVE  Sound(p)'
  <2>1. CASE act # "stop"
    <3>1. row[p] = 2 /\ p \in runs' /\ (type = OnestType => p \in begun')
      BY <1>2, <1>3, <1>4, <2>1 DEF Before
    <3> QED BY <3>1 DEF Sound
  <2>2. CASE act = "stop"
    <3>1. row[p] = Stopped /\ p \notin runs' /\ (type = OnestType => p \in begun')
      BY <1>2, <1>3, <1>4, <2>2 DEF Before
    <3> QED BY <1>3, <3>1 DEF Sound
  <2> QED BY <2>1, <2>2
<1>5. Due(o) => Sound(o.part)'
  BY <1>1, <1>4 DEF Due, Sound
<1> QED BY <1>1, <1>2, <1>5

LEMMA AnswerGood ==
  ASSUME IInv, OneJob, Good, NEW o \in orders, Answer(o), type # Ebs \/ ~ PartFails
  PROVE  Good'
<1>1. /\ orders' = orders \ {o}
      /\ UNCHANGED <<type, cluster, node, row, job, seq, cookie, tab, budget>>
  BY DEF Answer
<1>2. PICK m \in Reply :
        /\ m.order = o
        /\ Len(queue') = Len(queue) + 1 /\ queue'[Len(queue) + 1] = m
        /\ \A i \in 1 .. Len(queue) : queue'[i] = queue[i]
        /\ IF Succeeds(m) /\ o.part # NoRole
           THEN CarriedOut(o) ELSE UNCHANGED <<runs, begun>>
  BY AnswerKeeps
<1>3. /\ o.job = seq /\ job[seq].sub[o.part] = "running" /\ Lone(o)
      /\ o \in orders \cup Queued /\ o \in Order
      /\ \A x \in orders : x.part = o.part => x = o
      /\ \A i \in 1 .. Len(queue) : Effective(queue[i]) => o.part # queue[i].order.part
  BY DEF Good, Flight, IInv, TypeInv
<1>4. /\ seq \in JobId /\ o.part \in Part /\ InHand(seq)
  BY <1>3, Awaited
<1>5. tab[t1].pc = "idle" /\ tab[t1].orders = {}
  BY <1>4, TabAssumption DEF InHand, IInv, TabOK, Making
<1>6. PICK len \in Nat :
        /\ len = Len(queue) /\ Len(queue') = len + 1
        /\ 1 .. len + 1 = 1 .. len \cup {len + 1} /\ len + 1 \notin 1 .. len
        /\ len + 1 \in 1 .. len + 1
  <2>1. PICK n \in Nat : n = Len(queue)
    BY DEF IInv, TypeInv
  <2>2. 1 .. n + 1 = 1 .. n \cup {n + 1} /\ n + 1 \notin 1 .. n /\ n + 1 \in 1 .. n + 1
    OBVIOUS
  <2> QED BY <1>2, <2>1, <2>2
<1>7. /\ queue'[Len(queue')] = m /\ queue'[len + 1] = m /\ m.order = o
      /\ \A i \in 1 .. len : queue'[i] = queue[i]
  BY <1>2, <1>6
<1>8. ~ Succeeds(m) => OnlyPart(o.part)
  <2> SUFFICES ASSUME ~ Succeeds(m) PROVE OnlyPart(o.part)
    OBVIOUS
  <2>1. CASE type # Ebs
    <3>1. FewParts(seq)
      BY <1>4 DEF IInv, State
    <3> QED BY <1>3, <1>4, <2>1, <3>1 DEF FewParts, OnlyPart
  <2>2. CASE ~ PartFails
    <3>1. o \in orders \ orders' /\ ~ Succeeds(queue'[Len(queue')])
      BY <1>6, <1>1, <1>7
    <3>2. \A p, q \in Parts(o.job) : p = q
      BY <2>2, <3>1 DEF PartFails
    <3>3. o.part \in Parts(seq)
      BY <1>3, <1>4 DEF Parts
    <3> QED BY <1>3, <3>2, <3>3 DEF Parts, OnlyPart
  <2> QED BY <2>1, <2>2
<1>9. \A i \in 1 .. len : /\ Effective(queue[i])' <=> Effective(queue[i])
                          /\ Fresh(queue[i])' <=> Fresh(queue[i])
                          /\ Handled(queue[i])' <=> Handled(queue[i])
                          /\ Lone(queue[i].order)' <=> Lone(queue[i].order)
                          /\ OnlyPart(queue[i].order.part)' <=> OnlyPart(queue[i].order.part)
                          /\ Succeeds(queue[i])' <=> Succeeds(queue[i])
  BY <1>1, <1>7 DEF Effective, Fresh, Handled, Reported, Verdict, Lone, OnlyPart, InError, Succeeds
<1>10. Flight'
  <2>1. \A x \in orders' : /\ x.job = seq' /\ job'[seq'].sub[x.part] = "running" /\ Lone(x)'
                           /\ x \in orders /\ x.part # o.part
    BY <1>1, <1>3 DEF Good, Flight, Lone, OnlyPart, InError
  <2>2. \A x, y \in orders' : x.part = y.part => x = y
    BY <1>1 DEF Good, Flight
  <2>3. ASSUME NEW i \in 1 .. len, Effective(queue[i])
        PROVE  /\ \A x \in orders' : x.part # queue[i].order.part
               /\ Fresh(queue[i]) =>
                    /\ Lone(queue[i].order)
                    /\ Succeeds(queue[i]) \/ OnlyPart(queue[i].order.part)
               /\ ~ Fresh(queue[i]) => i = 1 /\ Handled(queue[i])
               /\ \A j \in 1 .. len + 1 :
                    queue'[j].order.job = seq /\ queue'[j].order.part = queue[i].order.part => j = i
    <3>1. \A j \in 1 .. len :
            queue[j].order.job = seq /\ queue[j].order.part = queue[i].order.part => j = i
      BY <1>6, <2>3 DEF Good, Flight
    <3>2. o.part # queue[i].order.part
      BY <1>6, <1>3, <2>3
    <3>3. \A j \in 1 .. len + 1 :
            queue'[j].order.job = seq /\ queue'[j].order.part = queue[i].order.part => j = i
      BY <1>6, <1>7, <3>1, <3>2
    <3> QED BY <1>6, <1>1, <2>3, <3>3 DEF Good, Flight
  <2>4. \A i \in 1 .. len : Effective(queue[i])' =>
          /\ \A x \in orders' : x.part # queue'[i].order.part
          /\ Fresh(queue[i])' =>
               /\ Lone(queue[i].order)'
               /\ Succeeds(queue[i])' \/ OnlyPart(queue[i].order.part)'
          /\ ~ Fresh(queue[i])' => i = 1 /\ Handled(queue[i])'
          /\ \A j \in 1 .. len + 1 :
               queue'[j].order.job = seq' /\ queue'[j].order.part = queue'[i].order.part => j = i
    BY <1>1, <1>7, <1>9, <2>3
  <2>5. /\ \A x \in orders' : x.part # m.order.part
        /\ Fresh(m)' /\ Lone(m.order)' /\ (Succeeds(m)' \/ OnlyPart(m.order.part)')
        /\ \A j \in 1 .. len + 1 :
             queue'[j].order.job = seq' /\ queue'[j].order.part = m.order.part => j = len + 1
    <3>1. \A j \in 1 .. len : queue[j].order.job = seq => queue[j].order.part # o.part
      <4> SUFFICES ASSUME NEW j \in 1 .. len, queue[j].order.job = seq,
                          queue[j].order.part = o.part
                   PROVE  FALSE
        OBVIOUS
      <4>1. Effective(queue[j])
        BY <1>3 DEF Effective
      <4> QED BY <1>6, <1>3, <4>1
    <3>2. \A j \in 1 .. len + 1 : j = len + 1 \/ (j \in 1 .. len /\ queue'[j] = queue[j])
      BY <1>6, <1>7
    <3>3. Fresh(m)' /\ Lone(m.order)' /\ (Succeeds(m)' \/ OnlyPart(m.order.part)')
      BY <1>1, <1>2, <1>3, <1>8 DEF Fresh, Lone, OnlyPart, InError, Succeeds
    <3> QED BY <1>1, <1>2, <2>1, <3>1, <3>2, <3>3
  <2>6. \A i \in 1 .. len + 1 : Effective(queue[i])' =>
          /\ \A x \in orders' : x.part # queue'[i].order.part
          /\ Fresh(queue[i])' =>
               /\ Lone(queue[i].order)'
               /\ Succeeds(queue[i])' \/ OnlyPart(queue[i].order.part)'
          /\ ~ Fresh(queue[i])' => i = 1 /\ Handled(queue[i])'
          /\ \A j \in 1 .. len + 1 :
               queue'[j].order.job = seq' /\ queue'[j].order.part = queue'[i].order.part => j = i
    <3>1. (Fresh(queue[len + 1]) /\ Lone(queue[len + 1].order)
             /\ (Succeeds(queue[len + 1]) \/ OnlyPart(queue[len + 1].order.part)))'
      BY <1>7, <2>5 DEF Fresh, Lone, OnlyPart, Succeeds
    <3> QED BY <1>6, <1>7, <2>4, <2>5, <3>1
  <2> QED BY <1>6, <2>1, <2>2, <2>6 DEF Flight
<1>11. Broken' /\ Desk'
  BY <1>1, <1>5 DEF Good, Broken, Desk, Asking
<1>12. Wanted = {} /\ Wanted' = {} /\ RolesHere' = RolesHere
  BY <1>1, <1>5 DEF Wanted, RolesHere
<1>13. \A x \in Live' : x = o \/ (x \in Live /\ x.part # o.part)
  <2>1. \A x \in orders' : x \in Live /\ x.part # o.part
    BY <1>1, <1>3 DEF Live
  <2>2. \A i \in 1 .. len : i \in Failing' => i \in Failing /\ queue[i].order.part # o.part
    BY <1>6, <1>3, <1>9 DEF Failing, Fresh, Effective
  <2>3. \A i \in Failing' : i \in 1 .. len \/ queue'[i] = m
    BY <1>6, <1>7 DEF Failing
  <2> QED BY <1>1, <1>5, <1>7, <2>1, <2>2, <2>3 DEF Live
<1>14. \A x \in Live : x = o \/ x \in Live'
  <2>1. \A i \in Failing : i \in Failing' /\ queue'[i] = queue[i]
    BY <1>6, <1>7, <1>9 DEF Failing
  <2> QED BY <1>1, <1>5, <2>1 DEF Live
<1>15. \A p \in Part : Multi(p) => Multi(p)'
  BY <1>1 DEF Multi
<1>16. \A x \in Live : x.part \in RolesHere \cup {NoRole} /\ x.part \in Part
  <2>1. \A x \in Live : x \in orders \cup Queued
    BY <1>5 DEF Live, Failing, Queued
  <2> QED BY <2>1, Kinds DEF IInv, State, Proper
<1>17. o \in Live /\ (Succeeds(m) => o \notin Live')
  <2>1. o \in Live
    BY DEF Live
  <2>2. ASSUME Succeeds(m), o \in Live' PROVE FALSE
    <3>1. PICK i \in Failing' : queue'[i].order = o
      BY <1>1, <1>5, <2>2 DEF Live
    <3>2. i \in 1 .. len
      BY <1>6, <1>7, <2>2, <3>1 DEF Failing, Succeeds
    <3>3. Effective(queue[i]) /\ queue[i].order = o
      BY <1>7, <1>9, <3>1, <3>2 DEF Failing, Fresh, Effective
    <3> QED BY <1>6, <1>3, <3>2, <3>3
  <2> QED BY <2>1, <2>2
<1>18. CASE ~ (Succeeds(m) /\ o.part # NoRole)
  <2>1. UNCHANGED <<runs, begun>>
    BY <1>2, <1>18
  <2>2. \A x \in Live : Due(x) => Due(x)'
    BY <1>1, <1>15, <1>16, <2>1 DEF Due, Before, Stopped
  <2>3. \A x \in Live' : x.part # NoRole => Due(x)'
    BY <1>13, <1>17, <2>2 DEF Good, Rows
  <2>4. ~ Succeeds(m) => o \in Live'
    <3> SUFFICES ASSUME ~ Succeeds(m) PROVE o \in Live'
      OBVIOUS
    <3>1. len + 1 \in Failing'
      <4>1. Fresh(m)'
        BY <1>1, <1>2, <1>3 DEF Fresh
      <4>2. Fresh(queue[len + 1])' /\ ~ Succeeds(queue[len + 1])'
        BY <1>7, <4>1 DEF Fresh, Succeeds
      <4> QED BY <1>6, <4>2 DEF Failing
    <3> QED BY <1>7, <3>1 DEF Live
  <2>5. \A r \in RolesHere : (\A x \in Live' : x.part # r) => \A x \in Live : x.part # r
    BY <1>14, <1>18, <2>4, Kinds
  <2>6. \A r \in RolesHere' : (\A x \in Live' : x.part # r) => Sound(r)'
    BY <1>1, <1>12, <2>1, <2>5 DEF Good, Rows, Sound
  <2>7. Rows'
    BY <1>1, <1>5, <1>12, <2>3, <2>6 DEF Rows
  <2> QED BY <1>10, <1>11, <2>7 DEF Good
<1>19. CASE Succeeds(m) /\ o.part # NoRole
  <2>1. o.part \in RolesHere /\ CarriedOut(o) /\ Due(o)
    BY <1>2, <1>16, <1>17, <1>19 DEF Good, Rows
  <2>2. /\ Sound(o.part)'
        /\ \A p \in Part : p # o.part => (p \in runs' <=> p \in runs)
                                         /\ (p \in begun' <=> p \in begun)
    BY <1>1, <1>3, <2>1, CarriedTruly
  <2>3. \A x \in Live' : x \in Live /\ x.part # o.part /\ x.part \in Part
    BY <1>13, <1>16, <1>17, <1>19
  <2>4. \A x \in Live' : x.part # NoRole => Due(x)'
    <3> SUFFICES ASSUME NEW x \in Live', x.part # NoRole PROVE Due(x)'
      OBVIOUS
    <3>1. Due(x) /\ x.part # o.part /\ x.part \in Part
      BY <2>3 DEF Good, Rows
    <3>2. Before(x.part, x.act) => Before(x.part, x.act)'
      BY <1>1, <2>2, <3>1 DEF Before, Stopped
    <3> QED BY <1>1, <1>15, <3>1, <3>2 DEF Due, Stopped
  <2>5. \A r \in RolesHere' : (\A x \in Live' : x.part # r) => Sound(r)'
    <3> SUFFICES ASSUME NEW r \in RolesHere, \A x \in Live' : x.part # r PROVE Sound(r)'
      BY <1>12
    <3>1. CASE r = o.part
      BY <2>2, <3>1 DEF Sound
    <3>2. CASE r # o.part
      <4>1. Sound(r) /\ r \in Part
        BY <1>12, <1>14, <3>2, Kinds DEF Good, Rows
      <4> QED BY <1>1, <2>2, <3>2, <4>1 DEF Sound
    <3> QED BY <3>1, <3>2
  <2>6. Rows'
    BY <1>1, <1>5, <1>12, <2>4, <2>5 DEF Rows
  <2> QED BY <1>10, <1>11, <2>6 DEF Good
<1> QED BY <1>18, <1>19

\* Where the replies of the queue were before one of them was handled.
LEMMA Shifted ==
  ASSUME IInv, queue # <<>>, queue' = queue \/ queue' = Tail(queue)
  PROVE  \E d \in {0, 1} :
           /\ \A i \in 1 .. Len(queue') :
                i + d \in 1 .. Len(queue) /\ queue'[i] = queue[i + d]
           /\ \A j \in 1 .. Len(queue) : j # 1 =>
                j - d \in 1 .. Len(queue') /\ queue'[j - d] = queue[j]
<1>1. CASE queue' = queue
  <2>1. Len(queue) \in Nat
    BY DEF IInv, TypeInv
  <2>2. \A i \in 1 .. Len(queue) : i + 0 = i /\ i - 0 = i
    BY <2>1
  <2> QED BY <1>1, <2>2
<1>2. CASE queue' = Tail(queue)
  <2>1. /\ Len(Tail(queue)) = Len(queue) - 1 /\ Len(queue) \in Nat
        /\ \A i \in 1 .. Len(Tail(queue)) :
             Tail(queue)[i] = queue[i + 1] /\ i + 1 \in 1 .. Len(queue)
    BY Oldest DEF IInv, TypeInv
  <2>2. \A j \in 1 .. Len(queue) : j # 1 =>
          j - 1 \in 1 .. Len(Tail(queue)) /\ (j - 1) + 1 = j
    BY <2>1
  <2>3. \A j \in 1 .. Len(queue) : j # 1 =>
          j - 1 \in 1 .. Len(Tail(queue)) /\ Tail(queue)[j - 1] = queue[j]
    BY <2>1, <2>2
  <2> QED BY <1>2, <2>1, <2>3
<1> QED BY <1>1, <1>2

\* A reply is thrown away, or it says what was said before.
LEMMA NothingNew ==
  ASSUME IInv, Good, queue # <<>>, queue' = queue \/ queue' = Tail(queue),
         UNCHANGED <<type, node, row, seq, cookie, tab, orders, runs, begun>>,
         \A p \in Part : job'[seq].sub[p] = job[seq].sub[p],
         ~ Fresh(queue[1]), Broken'
  PROVE  Good'
<1>1. PICK d \in {0, 1} :
        /\ \A i \in 1 .. Len(queue') :
             i + d \in 1 .. Len(queue) /\ queue'[i] = queue[i + d]
        /\ \A j \in 1 .. Len(queue) : j # 1 =>
             j - d \in 1 .. Len(queue') /\ queue'[j - d] = queue[j]
  BY Shifted
<1>2. \A o \in orders \cup Queued : o.part \in Part
  BY Kinds DEF IInv, State, Proper
<1>3. \A o \in Order : o.part \in Part =>
        /\ job'[seq].sub[o.part] = job[seq].sub[o.part]
        /\ OnlyPart(o.part)' <=> OnlyPart(o.part)
        /\ Lone(o)' <=> Lone(o)
  BY Kinds DEF OnlyPart, Lone, InError
<1>4. \A j \in 1 .. Len(queue) : queue[j] \in Reply /\ queue[j].order \in Order
                                 /\ queue[j].order.part \in Part
  BY <1>2, QueuedIs, QueuedTyped DEF IInv
<1>5. \A i \in 1 .. Len(queue') :
        /\ Effective(queue[i])' <=> Effective(queue[i + d])
        /\ Fresh(queue[i])' <=> Fresh(queue[i + d])
        /\ Succeeds(queue[i])' <=> Succeeds(queue[i + d])
        /\ Handled(queue[i + d]) => Handled(queue[i])'
        /\ queue'[i].order = queue[i + d].order
  <2> SUFFICES ASSUME NEW i \in 1 .. Len(queue')
               PROVE  /\ Effective(queue[i])' <=> Effective(queue[i + d])
                      /\ Fresh(queue[i])' <=> Fresh(queue[i + d])
                      /\ Succeeds(queue[i])' <=> Succeeds(queue[i + d])
                      /\ Handled(queue[i + d]) => Handled(queue[i])'
                      /\ queue'[i].order = queue[i + d].order
    OBVIOUS
  <2>1. PICK m \in Reply : m = queue[i + d] /\ m = queue'[i] /\ m.order.part \in Part
    BY <1>1, <1>4
  <2>2. Reported(m)' = Reported(m) /\ Verdict(m)' = Verdict(m)
    BY DEF Reported, Verdict
  <2>3. job'[seq].sub[m.order.part] = job[seq].sub[m.order.part]
    BY <2>1
  <2>4. Handled(m) => Handled(m)'
    BY <2>2, <2>3 DEF Handled, RolledBack
  <2>5. (Effective(m)' <=> Effective(m)) /\ (Fresh(m)' <=> Fresh(m))
    BY <2>3 DEF Effective, Fresh
  <2> QED BY <2>1, <2>4, <2>5 DEF Handled, Effective, Fresh, Succeeds
<1>6. Flight'
  <2>1. \A o \in orders : o \in Order /\ o.part \in Part
    BY <1>2 DEF IInv, TypeInv
  <2>2. \A o \in orders' : o.job = seq' /\ job'[seq'].sub[o.part] = "running" /\ Lone(o)'
    BY <1>3, <2>1 DEF Good, Flight
  <2>3. ASSUME NEW i \in 1 .. Len(queue'), Effective(queue[i])'
        PROVE  /\ \A o \in orders' : o.part # queue'[i].order.part
               /\ Fresh(queue[i])' =>
                    /\ Lone(queue[i].order)'
                    /\ Succeeds(queue[i])' \/ OnlyPart(queue[i].order.part)'
               /\ ~ Fresh(queue[i])' => i = 1 /\ Handled(queue[i])'
               /\ \A j \in 1 .. Len(queue') :
                    queue'[j].order.job = seq' /\ queue'[j].order.part = queue'[i].order.part
                      => j = i
    <3>1. PICK k \in 1 .. Len(queue) : k = i + d
      BY <1>1
    <3>2. /\ \A o \in orders : o.part # queue[k].order.part
          /\ Fresh(queue[k]) =>
               /\ Lone(queue[k].order)
               /\ Succeeds(queue[k]) \/ OnlyPart(queue[k].order.part)
          /\ ~ Fresh(queue[k]) => k = 1 /\ Handled(queue[k])
          /\ \A j \in 1 .. Len(queue) :
               queue[j].order.job = seq /\ queue[j].order.part = queue[k].order.part => j = k
      BY <1>5, <2>3, <3>1 DEF Good, Flight
    <3>3. PICK o \in Order : o = queue[k].order /\ o = queue'[i].order /\ o.part \in Part
      BY <1>4, <1>5, <3>1
    <3>4. /\ Lone(queue[i].order)' <=> Lone(queue[k].order)
          /\ OnlyPart(queue[i].order.part)' <=> OnlyPart(queue[k].order.part)
      <4>1. (Lone(o)' <=> Lone(o)) /\ (OnlyPart(o.part)' <=> OnlyPart(o.part))
        BY <1>3, <3>3
      <4> QED BY <3>3, <4>1 DEF Lone, OnlyPart
    <3>5. ~ Fresh(queue[k]) => i = 1
      BY <3>1, <3>2
    <3>6. \A j \in 1 .. Len(queue') :
            queue'[j].order.job = seq' /\ queue'[j].order.part = queue'[i].order.part => j = i
      <4> SUFFICES ASSUME NEW j \in 1 .. Len(queue'), queue'[j].order.job = seq',
                          queue'[j].order.part = queue'[i].order.part
                   PROVE  j = i
        OBVIOUS
      <4>1. PICK l \in 1 .. Len(queue) : l = j + d /\ queue'[j] = queue[l]
        BY <1>1
      <4>2. queue[l].order.part = queue[k].order.part /\ queue[l].order.job = seq
        BY <3>3, <4>1
      <4>3. l = k
        BY <3>2, <4>2
      <4> QED BY <3>1, <4>1, <4>3
    <3> QED BY <1>5, <3>1, <3>2, <3>3, <3>4, <3>5, <3>6
  <2> QED BY <2>2, <2>3 DEF Flight, Good
<1>7. Desk'
  <2>1. \A o \in tab[t1].orders : Lone(o)'
    <3> SUFFICES ASSUME NEW o \in tab[t1].orders PROVE Lone(o)'
      OBVIOUS
    <3>1. o \in Order /\ o.part \in Part
      BY TabAssumption, Kinds DEF IInv, TypeInv, Request, TabOK, Makes, Proper
    <3> QED BY <1>3, <3>1 DEF Good, Desk
  <2> QED BY <2>1 DEF Good, Desk, InError
<1>8. Live' = Live
  <2>1. \A i \in Failing' : i + d \in Failing
    BY <1>1, <1>5 DEF Failing
  <2>2. \A j \in Failing : j # 1 /\ j - d \in Failing' /\ queue'[j - d] = queue[j]
    <3> SUFFICES ASSUME NEW j \in Failing
                 PROVE  j # 1 /\ j - d \in Failing' /\ queue'[j - d] = queue[j]
      OBVIOUS
    <3>1. j \in 1 .. Len(queue) /\ Fresh(queue[j]) /\ ~ Succeeds(queue[j]) /\ j # 1
      BY DEF Failing
    <3>2. j - d \in 1 .. Len(queue') /\ queue'[j - d] = queue[j] /\ (j - d) + d = j
      BY <1>1, <3>1
    <3> QED BY <1>5, <3>1, <3>2 DEF Failing
  <2>3. \A i \in Failing' : queue'[i].order = queue[i + d].order
    BY <1>5 DEF Failing
  <2> QED BY <2>1, <2>2, <2>3 DEF Live
<1>9. \A r : Multi(r) => Multi(r)'
  BY DEF Multi
<1>10. Wanted' = Wanted /\ RolesHere' = RolesHere
  BY DEF Wanted, RolesHere
<1>11. Rows'
  <2>1. \A o \in Live' : o.part # NoRole => Due(o)'
    <3> SUFFICES ASSUME NEW o \in Live, o.part # NoRole PROVE Due(o)'
      BY <1>8
    <3>1. Due(o)
      BY DEF Good, Rows
    <3> QED BY <1>9, <3>1 DEF Due, Before, Stopped
  <2>2. tab'[t1].pc = "all" =>
          \A r \in Role : job'[seq'].sub[r] = "none" => AllFit(r, AllAction(t1))'
    BY Kinds DEF Good, Rows, AllFit, AllAction
  <2> QED BY <1>8, <1>10, <2>1, <2>2
          DEF Good, Rows, Before, Stopped, Sound, AllFit, Offered, RolesHere
<1> QED BY <1>6, <1>7, <1>11 DEF Good

\* The reply of a task that is gone, or one that was handled before.
LEMMA StaleGood ==
  ASSUME IInv, OneJob, Good, Consume \/ ConsumeUnacknowledged, ~ Fresh(queue[1])
  PROVE  Good'
<1>1. /\ queue # <<>> /\ Receive(queue[1]) /\ queue[1] \in Reply /\ queue[1].order \in Queued
      /\ queue' = queue \/ queue' = Tail(queue)
      /\ UNCHANGED <<type, seq, cookie, tab, orders, runs, begun>>
  BY DeliveryKeeps
<1>2. PICK m \in Reply : m = queue[1] /\ m.order \in Queued /\ Receive(m) /\ ~ Fresh(m)
  BY <1>1 DEF Fresh
<1>3. m.order.job \in JobId /\ m.order.part \in Part
  BY <1>1, <1>2, Received
<1>4. PICK k \in JobId, p \in Part : k = m.order.job /\ p = m.order.part
  BY <1>3
<1>5. CASE job[k].sub[p] = "none"
  <2>1. UNCHANGED <<cluster, node, row, job>>
    BY <1>1, <1>2, <1>4, <1>5, Received
  <2>2. Broken'
    BY <1>1, <2>1 DEF Good, Broken
  <2> QED BY <1>1, <1>2, <2>1, <2>2, NothingNew
<1>6. CASE job[k].sub[p] # "none"
  <2>1. k = seq
    <3>1. job[k] # NoJob
      BY <1>6, Kinds
    <3> QED BY <3>1 DEF OneJob
  <2>2. Effective(m) /\ 1 \in 1 .. Len(queue)
    BY <1>1, <1>4, <1>6, <2>1, Oldest DEF Effective, IInv
  <2>3. Handled(m)
    <3>1. Effective(queue[1]) /\ ~ Fresh(queue[1]) => Handled(queue[1])
      BY <2>2 DEF Good, Flight
    <3> QED BY <1>2, <2>2, <3>1
  <2>4. PICK st \in {"ready", "error"} : st = Verdict(m)
    BY DEF Verdict
  <2>5. /\ node' = Reported(m) /\ Ended(job[k], p, st, job'[k])
        /\ \A i \in JobId : i # k => job'[i] = job[i]
        /\ cluster' = (CASE job'[k].status = "error" -> "error"
                         [] job'[k].status = "ready" -> "operational"
                         [] OTHER -> cluster)
        /\ \A r \in Role : row'[r] = IF st = "error" /\ r = p
                                     THEN RolledBack(m.order.act) ELSE row[r]
        /\ row' \in [Role -> 0 .. 3]
    BY <1>1, <1>2, <1>4, <1>6, <2>4, Received
  <2>6. node' = node /\ job[k].sub[p] = st
        /\ (st = "error" /\ p # NoRole => row[p] = RolledBack(m.order.act))
    BY <1>4, <2>1, <2>3, <2>4, <2>5 DEF Handled
  <2>7. row' = row
    <3>1. \A r \in Role : row'[r] = row[r]
      BY <2>5, <2>6, Kinds
    <3> QED BY <2>5, <3>1 DEF IInv, TypeInv
  <2>8. Agrees(k) /\ job[k] \in JobRow
    BY DEF IInv, State, TypeInv
  <2>9. \A q \in Part : job'[k].sub[q] = job[k].sub[q]
    <3> SUFFICES ASSUME NEW q \in Part PROVE job'[k].sub[q] = job[k].sub[q]
      OBVIOUS
    <3>1. CASE q # p /\ job[k].sub[q] # "running"
      BY <2>5, <3>1 DEF Ended
    <3>2. CASE q = p
      BY <2>5, <2>6, <3>2 DEF Ended
    <3>3. CASE q # p /\ job[k].sub[q] = "running"
      <4>1. \A x \in Part : job[k].sub[x] # "error"
        BY <2>8, <3>3 DEF Agrees
      <4>2. st = "ready"
        BY <2>6, <4>1
      <4> QED BY <2>5, <3>3, <4>1, <4>2 DEF Ended
    <3> QED BY <3>1, <3>2, <3>3
  <2>10. Broken'
    <3>1. job'[k].status = "error" => job[k].status = "error"
      BY <2>5, <2>8, <2>9 DEF Ended, Agrees
    <3>2. job'[k].status = "error" =>
            /\ \E q \in Part : job'[k].sub[q] = "error"
            /\ cluster' # "operational"
            /\ tab[t1].pc \in Asking => tab[t1].want = NoRole
      BY <2>5, <2>9, <3>1 DEF Good, Broken
    <3>3. \A i \in JobId : i # k => job'[i].status # "error"
      BY <2>1, <2>5 DEF OneJob, NoJob
    <3> QED BY <1>1, <3>2, <3>3 DEF Broken
  <2>11. \A q \in Part : job'[seq].sub[q] = job[seq].sub[q]
    BY <2>1, <2>9
  <2>12. UNCHANGED <<type, node, row, seq, cookie, tab, orders, runs, begun>>
    BY <1>1, <2>6, <2>7
  <2> QED BY <1>1, <2>10, <2>11, <2>12, NothingNew
<1> QED BY <1>5, <1>6

\* What a reply says of the nodes it says only once.
LEMMA ReportedOnce ==
  ASSUME NEW m, node' = Reported(m)
  PROVE  Reported(m)' = node' /\ (m \in Reply => Verdict(m)' = Verdict(m))
<1>1. \A n \in Node : Reported(m)'[n] = node'[n]
  BY DEF Reported
<1>2. Reported(m)' = node'
  BY <1>1 DEF Reported
<1> QED BY <1>2 DEF Verdict

\* What is known of a reply that is handled for the first time.
LEMMA FreshHead ==
  ASSUME IInv, OneJob, Good, Consume \/ ConsumeUnacknowledged, Fresh(queue[1])
  PROVE  \E m \in Reply, p \in RolesHere \cup {NoRole}, st \in {"ready", "error"} :
           /\ m = queue[1] /\ p = m.order.part /\ st = Verdict(m) /\ m.order.job = seq
           /\ 1 \in 1 .. Len(queue)
           /\ p \in Part /\ seq \in JobId /\ job[seq].status = "running"
           /\ job[seq].sub[p] = "running" /\ \A q \in Part : job[seq].sub[q] # "error"
           /\ tab[t1].pc = "idle" /\ tab[t1].orders = {}
           /\ \A o \in orders : o.part # p
           /\ \A j \in 1 .. Len(queue) :
                queue[j].order.job = seq /\ queue[j].order.part = p => j = 1
           /\ Lone(m.order) /\ (Succeeds(m) \/ OnlyPart(p))
           /\ node' = Reported(m) /\ Ended(job[seq], p, st, job'[seq])
           /\ \A k \in JobId : k # seq => job'[k] = job[k]
           /\ cluster' = (CASE job'[seq].status = "error" -> "error"
                            [] job'[seq].status = "ready" -> "operational"
                            [] OTHER -> cluster)
           /\ \A r \in Role : row'[r] = IF st = "error" /\ r = p
                                        THEN RolledBack(m.order.act) ELSE row[r]
<1>1. /\ queue # <<>> /\ Receive(queue[1]) /\ queue[1] \in Reply /\ queue[1].order \in Queued
      /\ UNCHANGED <<type, seq>>
  BY DeliveryKeeps
<1>2. PICK m \in Reply : m = queue[1] /\ m.order \in Queued /\ Receive(m) /\ Fresh(m)
  BY <1>1 DEF Fresh
<1>3. /\ m.order.job = seq /\ m.order.part \in RolesHere \cup {NoRole}
      /\ job[seq].sub[m.order.part] = "running"
  BY <1>2 DEF Fresh, IInv, State, Proper
<1>4. /\ seq \in JobId /\ m.order.part \in Part /\ job[seq].status = "running" /\ InHand(seq)
  BY <1>2, <1>3, Awaited
<1>5. PICK p \in RolesHere \cup {NoRole}, st \in {"ready", "error"} :
        p = m.order.part /\ st = Verdict(m)
  BY <1>3 DEF Verdict
<1>6. tab[t1].pc = "idle" /\ tab[t1].orders = {}
  BY <1>4, TabAssumption DEF InHand, IInv, TabOK, Making
<1>7. \A q \in Part : job[seq].sub[q] # "error"
  BY <1>4 DEF IInv, State, Agrees
<1>8. 1 \in 1 .. Len(queue)
  BY <1>1, Oldest DEF IInv
<1>9. /\ \A o \in orders : o.part # m.order.part
      /\ Lone(m.order)
      /\ Succeeds(m) \/ OnlyPart(m.order.part)
      /\ \A j \in 1 .. Len(queue) :
           queue[j].order.job = seq /\ queue[j].order.part = m.order.part => j = 1
  <2>1. Effective(queue[1])
    BY <1>2, <1>3 DEF Effective
  <2>2. \A i \in 1 .. Len(queue) : i = 1 =>
          /\ \A o \in orders : o.part # queue[i].order.part
          /\ Lone(queue[i].order)
          /\ Succeeds(queue[i]) \/ OnlyPart(queue[i].order.part)
          /\ \A j \in 1 .. Len(queue) :
               queue[j].order.job = seq /\ queue[j].order.part = queue[i].order.part => j = i
    BY <2>1, Fresh(queue[1]) DEF Good, Flight
  <2> QED BY <1>2, <1>8, <2>2
<1>10. /\ node' = Reported(m) /\ Ended(job[seq], p, st, job'[seq])
       /\ \A k \in JobId : k # seq => job'[k] = job[k]
       /\ cluster' = (CASE job'[seq].status = "error" -> "error"
                        [] job'[seq].status = "ready" -> "operational"
                        [] OTHER -> cluster)
       /\ \A r \in Role : row'[r] = IF st = "error" /\ r = p
                                    THEN RolledBack(m.order.act) ELSE row[r]
  <2>1. job[m.order.job].sub[m.order.part] # "none"
    BY <1>3
  <2>2. /\ node' = Reported(m)
        /\ Ended(job[m.order.job], m.order.part, Verdict(m), job'[m.order.job])
        /\ \A k \in JobId : k # m.order.job => job'[k] = job[k]
        /\ cluster' = (CASE job'[m.order.job].status = "error" -> "error"
                         [] job'[m.order.job].status = "ready" -> "operational"
                         [] OTHER -> cluster)
        /\ \A r \in Role : row'[r] = IF Verdict(m) = "error" /\ r = m.order.part
                                     THEN RolledBack(m.order.act) ELSE row[r]
    BY <1>1, <1>2, <2>1, Received
  <2> QED BY <1>3, <1>5, <2>2
<1> QED BY <1>2, <1>3, <1>4, <1>5, <1>6, <1>7, <1>8, <1>9, <1>10

\* The last or the only part of the task ends, or nothing but it was under way.
LEMMA LastGood ==
  ASSUME IInv, OneJob, Good, Consume \/ ConsumeUnacknowledged, Fresh(queue[1]), OneJob',
         queue[1].order.part = NoRole \/ ~ Succeeds(queue[1])
  PROVE  Good'
<1>1. /\ queue # <<>> /\ (queue' = queue \/ queue' = Tail(queue))
      /\ UNCHANGED <<type, seq, cookie, tab, orders, runs, begun>>
  BY DeliveryKeeps
<1>2. PICK m \in Reply, p \in RolesHere \cup {NoRole}, st \in {"ready", "error"} :
           /\ m = queue[1] /\ p = m.order.part /\ st = Verdict(m) /\ m.order.job = seq
           /\ 1 \in 1 .. Len(queue)
           /\ p \in Part /\ seq \in JobId /\ job[seq].status = "running"
           /\ job[seq].sub[p] = "running" /\ \A q \in Part : job[seq].sub[q] # "error"
           /\ tab[t1].pc = "idle" /\ tab[t1].orders = {}
           /\ \A o \in orders : o.part # p
           /\ \A j \in 1 .. Len(queue) :
                queue[j].order.job = seq /\ queue[j].order.part = p => j = 1
           /\ Lone(m.order) /\ (Succeeds(m) \/ OnlyPart(p))
           /\ node' = Reported(m) /\ Ended(job[seq], p, st, job'[seq])
           /\ \A k \in JobId : k # seq => job'[k] = job[k]
           /\ cluster' = (CASE job'[seq].status = "error" -> "error"
                            [] job'[seq].status = "ready" -> "operational"
                            [] OTHER -> cluster)
           /\ \A r \in Role : row'[r] = IF st = "error" /\ r = p
                                        THEN RolledBack(m.order.act) ELSE row[r]
  BY FreshHead
<1>3. OnlyPart(p)
  BY <1>2, m = queue[1], queue[1].order.part = NoRole \/ ~ Succeeds(queue[1]) DEF Lone
<1>4. orders = {} /\ orders' = {}
  <2>1. \A o \in orders : o.part \in Part /\ job[seq].sub[o.part] = "running"
    BY Kinds DEF Good, Flight, IInv, State, Proper
  <2> QED BY <1>1, <1>2, <1>3, <2>1 DEF OnlyPart
<1>5. \A j \in 1 .. Len(queue) :
        queue[j].order.job = seq /\ job[seq].sub[queue[j].order.part] # "none" => j = 1
  <2>1. \A j \in 1 .. Len(queue) : queue[j].order.part \in Part
    BY QueuedIs, Kinds DEF IInv, State, Proper
  <2> QED BY <1>2, <1>3, <2>1 DEF OnlyPart
<1>6. /\ \A q \in Part : job'[seq].sub[q] = "none" <=> job[seq].sub[q] = "none"
      /\ job'[seq].sub[p] = st
  BY <1>2 DEF Ended
<1>7. PICK d \in {0, 1} :
        /\ \A i \in 1 .. Len(queue') : i + d \in 1 .. Len(queue) /\ queue'[i] = queue[i + d]
  BY <1>1, Shifted
<1>8. ASSUME NEW i \in 1 .. Len(queue'), Effective(queue[i])'
      PROVE  i = 1 /\ queue'[i] = m /\ ~ Fresh(queue[i])' /\ Handled(queue[i])'
  <2>1. PICK j \in 1 .. Len(queue) : j = i + d /\ queue'[i] = queue[j]
    BY <1>7
  <2>2. queue[j].order.part \in Part /\ queue[j].order.job = seq
    BY <1>1, <1>8, <2>1, QueuedIs, Kinds DEF Effective, IInv, State, Proper
  <2>3. job[seq].sub[queue[j].order.part] # "none"
    BY <1>1, <1>6, <1>8, <2>1, <2>2 DEF Effective
  <2>4. j = 1 /\ i = 1 /\ queue'[i] = m
    BY <1>2, <1>5, <2>1, <2>2, <2>3
  <2>5. ~ Fresh(queue[i])'
    BY <1>1, <1>2, <1>6, <2>4 DEF Fresh
  <2>6. Reported(m)' = node' /\ Verdict(m)' = st
    BY <1>2, ReportedOnce
  <2>7. st = "error" /\ p # NoRole => row'[p] = RolledBack(m.order.act)
    BY <1>2, Kinds
  <2>8. Handled(m)'
    BY <1>1, <1>2, <1>6, <2>6, <2>7 DEF Handled, RolledBack
  <2> QED BY <2>4, <2>5, <2>8 DEF Handled, Reported, Verdict
<1>9. Flight' /\ Failing' = {} /\ Live' = {}
  <2>1. ASSUME NEW i \in 1 .. Len(queue'), NEW j \in 1 .. Len(queue'), Effective(queue[i])',
               queue'[j].order.job = seq', queue'[j].order.part = queue'[i].order.part
        PROVE  j = i
    <3>1. Effective(queue[j])'
      BY <2>1 DEF Effective
    <3> QED BY <1>8, <2>1, <3>1
  <2>2. Flight'
    BY <1>4, <1>8, <2>1 DEF Flight
  <2>3. \A i \in 1 .. Len(queue') : ~ Fresh(queue[i])'
    <3>1. \A i \in 1 .. Len(queue') : Fresh(queue[i])' => Effective(queue[i])'
      BY DEF Fresh, Effective
    <3> QED BY <1>8, <3>1
  <2> QED BY <1>1, <1>2, <1>4, <2>2, <2>3 DEF Failing, Live
<1>10. Broken'
  <2>1. job'[seq].status = "error" =>
          (\E q \in Part : job'[seq].sub[q] = "error") /\ cluster' # "operational"
    BY <1>2 DEF Ended
  <2>2. \A k \in JobId : k # seq => job'[k].status # "error"
    BY <1>1 DEF OneJob, NoJob
  <2> QED BY <1>1, <1>2, <2>1, <2>2 DEF Broken, Asking
<1>11. Desk'
  BY <1>1, <1>2 DEF Desk, Asking
<1>12. Wanted = {} /\ Wanted' = {} /\ RolesHere' = RolesHere
  BY <1>1, <1>2 DEF Wanted, RolesHere
<1>13. \A x \in Live : x = m.order
  <2>1. \A i \in Failing : i = 1
    BY <1>5 DEF Failing, Fresh
  <2> QED BY <1>2, <1>4, <2>1 DEF Live
<1>14. \A r \in RolesHere : r # p => Sound(r)'
  <2> SUFFICES ASSUME NEW r \in RolesHere, r # p PROVE Sound(r)'
    OBVIOUS
  <2>1. Sound(r)
    BY <1>2, <1>12, <1>13 DEF Good, Rows
  <2>2. row'[r] = row[r]
    BY <1>2, Kinds
  <2> QED BY <1>1, <2>1, <2>2 DEF Sound
<1>15. p \in RolesHere => Sound(p)'
  <2> SUFFICES ASSUME p \in RolesHere PROVE Sound(p)'
    OBVIOUS
  <2>1. p # NoRole /\ p \in Role /\ ~ Succeeds(m)
    BY <1>2, Kinds DEF Succeeds
  <2>2. Fresh(m)
    BY <1>2 DEF Fresh
  <2>3. 1 \in Failing
    BY <1>2, <2>1, <2>2 DEF Failing, Fresh, Succeeds
  <2>4. m.order \in Live
    BY <1>2, <2>3 DEF Live
  <2>5. Due(m.order)
    BY <1>2, <2>1, <2>4 DEF Good, Rows
  <2>6. ~ Multi(p)
    BY <1>2, <1>3 DEF Multi, OnlyPart
  <2>7. PICK act \in Actions : act = m.order.act
    BY DEF Reply, Order
  <2>8. Before(p, act)
    BY <1>2, <2>5, <2>6, <2>7 DEF Due, Before
  <2>9. st = "error"
    <3>1. m.status \in {"ready", "error"} /\ m.failed \subseteq Node
      BY DEF Reply
    <3>2. CASE m.status = "error"
      BY <1>2, <3>2 DEF Verdict
    <3>3. CASE m.failed # {}
      <4>1. PICK n \in Node : n \in m.failed
        BY <3>1, <3>3
      <4>2. Reported(m)[n] = "error"
        BY <4>1 DEF Reported
      <4> QED BY <1>2, <4>2 DEF Verdict
    <3> QED BY <2>1, <3>1, <3>2, <3>3 DEF Succeeds
  <2>10. row'[p] = RolledBack(act)
    BY <1>2, <2>1, <2>7, <2>9
  <2>11. CASE act = "start"
    <3>1. row'[p] = 1 /\ p \notin runs /\ (type = OnestType => p \notin begun)
      BY <2>8, <2>10, <2>11 DEF RolledBack, Before
    <3> QED BY <1>1, <3>1 DEF Sound
  <2>12. CASE act = "started"
    <3>1. row'[p] = 3 /\ p \notin runs /\ p \in begun
      BY <2>8, <2>10, <2>12 DEF RolledBack, Before
    <3> QED BY <1>1, <3>1 DEF Sound
  <2>13. CASE act = "stop"
    <3>1. row'[p] = 2 /\ p \in runs /\ (type = OnestType => p \in begun)
      BY <2>8, <2>10, <2>13 DEF RolledBack, Before
    <3> QED BY <1>1, <3>1 DEF Sound
  <2> QED BY <2>11, <2>12, <2>13 DEF Actions
<1>16. Rows'
  <2>1. \A r \in RolesHere' : Sound(r)'
    BY <1>12, <1>14, <1>15
  <2> QED BY <1>1, <1>2, <1>9, <1>12, <2>1 DEF Rows
<1> QED BY <1>9, <1>10, <1>11, <1>16 DEF Good

\* What is under way for the other parts stays as it is when a part ends well.
LEMMA SettledFlight ==
  ASSUME IInv, Good, queue # <<>>, queue' = queue \/ queue' = Tail(queue),
         UNCHANGED <<seq, orders>>, InError' = {},
         NEW m \in Reply, m = queue[1], NEW p \in Part, p = m.order.part, p # NoRole,
         m.order.job = seq, job[seq].sub[p] = "running", Succeeds(m),
         \A q \in Part : job'[seq].sub[q] = IF q = p THEN "ready" ELSE job[seq].sub[q],
         Handled(m)'
  PROVE  Flight' /\ \A i \in Failing' : \E j \in Failing : queue'[i] = queue[j]
<1>1. PICK d \in {0, 1} :
        /\ \A i \in 1 .. Len(queue') : i + d \in 1 .. Len(queue) /\ queue'[i] = queue[i + d]
        /\ \A j \in 1 .. Len(queue) : j # 1 =>
             j - d \in 1 .. Len(queue') /\ queue'[j - d] = queue[j]
  BY Shifted
<1>2. /\ 1 \in 1 .. Len(queue) /\ Fresh(m) /\ Effective(m) /\ ~ OnlyPart(NoRole)
  BY Oldest, Kinds DEF IInv, Fresh, Effective, OnlyPart
<1>3. /\ \A o \in orders : o.part # p
      /\ \A j \in 1 .. Len(queue) :
           queue[j].order.job = seq /\ queue[j].order.part = p => j = 1
  BY <1>2 DEF Good, Flight
<1>4. \A q \in Part : OnlyPart(q)' <=> OnlyPart(q)
  BY DEF OnlyPart
<1>5. \A o : o.part \in Part /\ Lone(o) => Lone(o)'
  BY <1>2 DEF Lone
<1>6. \A o \in orders \cup Queued : o.part \in Part
  BY Kinds DEF IInv, State, Proper
<1>7. ASSUME NEW i \in 1 .. Len(queue'), Effective(queue[i])', queue'[i] # m
      PROVE  \E j \in 1 .. Len(queue) :
               /\ j = i + d /\ queue'[i] = queue[j] /\ Effective(queue[j]) /\ j # 1
               /\ Fresh(queue[j]) /\ Fresh(queue[i])' /\ queue[j].order.part # p
  <2>1. PICK j \in 1 .. Len(queue) : j = i + d /\ queue'[i] = queue[j]
    BY <1>1
  <2>2. queue[j].order.job = seq /\ queue[j].order.part \in Part /\ j # 1
    BY <1>6, <1>7, <2>1, QueuedIs DEF Effective
  <2>3. queue[j].order.part # p
    BY <1>3, <2>2
  <2>4. Effective(queue[j])
    BY <1>7, <2>1, <2>2, <2>3 DEF Effective
  <2>5. Fresh(queue[j])
    BY <2>2, <2>4 DEF Good, Flight
  <2>6. Fresh(queue[i])'
    BY <2>1, <2>2, <2>3, <2>5 DEF Fresh
  <2> QED BY <2>1, <2>2, <2>3, <2>4, <2>5, <2>6
<1>8. ASSUME NEW i \in 1 .. Len(queue'), queue'[i] = m
      PROVE  i = 1 /\ ~ Fresh(queue[i])'
  <2>1. i + d = 1
    BY <1>1, <1>3, <1>8
  <2>2. ~ Fresh(queue[i])'
    BY <1>8 DEF Fresh
  <2> QED BY <2>1, <2>2
<1>9. Flight'
  <2>1. \A o \in orders' : o.job = seq' /\ job'[seq'].sub[o.part] = "running" /\ Lone(o)'
    BY <1>3, <1>5, <1>6 DEF Good, Flight
  <2>2. ASSUME NEW i \in 1 .. Len(queue'), Effective(queue[i])'
        PROVE  /\ \A o \in orders' : o.part # queue'[i].order.part
               /\ Fresh(queue[i])' =>
                    /\ Lone(queue[i].order)'
                    /\ Succeeds(queue[i])' \/ OnlyPart(queue[i].order.part)'
               /\ ~ Fresh(queue[i])' => i = 1 /\ Handled(queue[i])'
               /\ \A k \in 1 .. Len(queue') :
                    queue'[k].order.job = seq' /\ queue'[k].order.part = queue'[i].order.part
                      => k = i
    <3>1. CASE queue'[i] = m
      <4>1. i = 1 /\ ~ Fresh(queue[i])' /\ Handled(queue[i])'
        BY <1>8, <3>1 DEF Handled, Reported, Verdict
      <4>2. \A k \in 1 .. Len(queue') :
              queue'[k].order.job = seq' /\ queue'[k].order.part = queue'[i].order.part => k = i
        BY <1>1, <1>3, <3>1
      <4> QED BY <1>3, <3>1, <4>1, <4>2
    <3>2. CASE queue'[i] # m
      <4>1. PICK j \in 1 .. Len(queue) :
               /\ j = i + d /\ queue'[i] = queue[j] /\ Effective(queue[j])
               /\ Fresh(queue[j]) /\ Fresh(queue[i])' /\ queue[j].order.part # p
        BY <1>7, <2>2, <3>2
      <4>2. /\ \A o \in orders : o.part # queue[j].order.part
            /\ Lone(queue[j].order)
            /\ Succeeds(queue[j]) \/ OnlyPart(queue[j].order.part)
            /\ \A k \in 1 .. Len(queue) :
                 queue[k].order.job = seq /\ queue[k].order.part = queue[j].order.part => k = j
        BY <4>1 DEF Good, Flight
      <4>3. PICK o \in Queued : o = queue[j].order
        BY QueuedIs
      <4>4. Lone(o)' /\ (OnlyPart(o.part)' <=> OnlyPart(o.part))
        BY <1>4, <1>5, <1>6, <4>2, <4>3
      <4>5. Lone(queue[i].order)' /\ (Succeeds(queue[i])' \/ OnlyPart(queue[i].order.part)')
        BY <4>1, <4>2, <4>3, <4>4 DEF Lone, OnlyPart, Succeeds
      <4>6. \A k \in 1 .. Len(queue') :
              queue'[k].order.job = seq' /\ queue'[k].order.part = queue'[i].order.part => k = i
        <5> SUFFICES ASSUME NEW k \in 1 .. Len(queue'), queue'[k].order.job = seq',
                            queue'[k].order.part = queue'[i].order.part
                     PROVE  k = i
          OBVIOUS
        <5>1. PICK l \in 1 .. Len(queue) : l = k + d /\ queue'[k] = queue[l]
          BY <1>1
        <5>2. l = j
          BY <4>1, <4>2, <5>1
        <5> QED BY <4>1, <5>1, <5>2
      <4> QED BY <4>1, <4>2, <4>5, <4>6
    <3> QED BY <3>1, <3>2
  <2> QED BY <2>1, <2>2 DEF Good, Flight
<1>10. ASSUME NEW i \in Failing' PROVE \E j \in Failing : queue'[i] = queue[j]
  <2>1. i \in 1 .. Len(queue') /\ Effective(queue[i])' /\ ~ Succeeds(queue[i])' /\ queue'[i] # m
    BY DEF Failing, Fresh, Effective, Succeeds
  <2>2. PICK j \in 1 .. Len(queue) : queue'[i] = queue[j] /\ Fresh(queue[j])
    BY <1>7, <2>1
  <2> QED BY <2>1, <2>2 DEF Failing, Succeeds
<1> QED BY <1>9, <1>10

LEMMA SettledGood ==
  ASSUME IInv, OneJob, Good, Consume \/ ConsumeUnacknowledged, Fresh(queue[1]), OneJob',
         queue[1].order.part # NoRole, Succeeds(queue[1])
  PROVE  Good'
<1>1. /\ queue # <<>> /\ (queue' = queue \/ queue' = Tail(queue))
      /\ UNCHANGED <<type, seq, cookie, tab, orders, runs, begun>>
  BY DeliveryKeeps
<1>2. PICK m \in Reply, p \in RolesHere \cup {NoRole}, st \in {"ready", "error"} :
           /\ m = queue[1] /\ p = m.order.part /\ st = Verdict(m) /\ m.order.job = seq
           /\ 1 \in 1 .. Len(queue)
           /\ p \in Part /\ seq \in JobId /\ job[seq].status = "running"
           /\ job[seq].sub[p] = "running" /\ \A q \in Part : job[seq].sub[q] # "error"
           /\ tab[t1].pc = "idle" /\ tab[t1].orders = {}
           /\ \A o \in orders : o.part # p
           /\ \A j \in 1 .. Len(queue) :
                queue[j].order.job = seq /\ queue[j].order.part = p => j = 1
           /\ Lone(m.order) /\ (Succeeds(m) \/ OnlyPart(p))
           /\ node' = Reported(m) /\ Ended(job[seq], p, st, job'[seq])
           /\ \A k \in JobId : k # seq => job'[k] = job[k]
           /\ cluster' = (CASE job'[seq].status = "error" -> "error"
                            [] job'[seq].status = "ready" -> "operational"
                            [] OTHER -> cluster)
           /\ \A r \in Role : row'[r] = IF st = "error" /\ r = p
                                        THEN RolledBack(m.order.act) ELSE row[r]
  BY FreshHead
<1>3. p # NoRole /\ m.status = "ready" /\ m.failed = {} /\ InError = {} /\ Succeeds(m)
  BY <1>2 DEF Succeeds, Lone
<1>4. st = "ready" /\ InError' = {}
  <2>1. \A n \in Node : node[n] # "error"
    BY <1>3 DEF InError
  <2>2. \A n \in Node : Reported(m)[n] # "error"
    BY <1>3, <2>1 DEF Reported
  <2> QED BY <1>2, <1>3, <2>2 DEF Verdict, InError
<1>5. /\ \A q \in Part : job'[seq].sub[q] = IF q = p THEN "ready" ELSE job[seq].sub[q]
      /\ job'[seq].status # "error"
  <2>1. \A q \in Part : job'[seq].sub[q] = IF q = p THEN "ready" ELSE job[seq].sub[q]
    BY <1>2, <1>4 DEF Ended
  <2>2. job'[seq].status = "error" => \E q \in Part : job'[seq].sub[q] = "error"
    BY <1>2 DEF Ended
  <2> QED BY <1>2, <2>1, <2>2
<1>6. \A r \in Role : row'[r] = row[r]
  BY <1>2, <1>4
<1>7. Handled(m)'
  <2>1. Reported(m)' = node' /\ Verdict(m)' = st
    BY <1>2, ReportedOnce
  <2> QED BY <1>1, <1>2, <1>4, <1>5, <2>1 DEF Handled
<1>8. Flight' /\ \A i \in Failing' : \E j \in Failing : queue'[i] = queue[j]
  BY <1>1, <1>2, <1>3, <1>4, <1>5, <1>7, SettledFlight
<1>9. Broken'
  BY <1>1, <1>5 DEF Broken, OneJob, NoJob
<1>10. Desk'
  BY <1>1, <1>2 DEF Desk, Asking
<1>11. Wanted = {} /\ Wanted' = {} /\ RolesHere' = RolesHere
  BY <1>1, <1>2 DEF Wanted, RolesHere
<1>12. Live' \subseteq Live
  BY <1>1, <1>8 DEF Live
<1>13. Live \subseteq Live'
  <2>1. PICK d \in {0, 1} :
          \A j \in 1 .. Len(queue) : j # 1 =>
             j - d \in 1 .. Len(queue') /\ queue'[j - d] = queue[j]
    BY <1>1, Shifted
  <2>2. ASSUME NEW j \in Failing PROVE \E i \in Failing' : queue'[i] = queue[j]
    <3>1. j \in 1 .. Len(queue) /\ Fresh(queue[j]) /\ ~ Succeeds(queue[j]) /\ j # 1
      BY <1>2, <1>3 DEF Failing
    <3>2. PICK i \in 1 .. Len(queue') : queue'[i] = queue[j]
      BY <2>1, <3>1
    <3>3. queue[j].order.part \in Part /\ queue[j].order.part # p /\ queue[j].order.job = seq
      BY <1>2, <3>1, QueuedIs, Kinds DEF Fresh, IInv, State, Proper
    <3>4. Fresh(queue[i])' /\ ~ Succeeds(queue[i])'
      BY <1>1, <1>5, <3>1, <3>2, <3>3 DEF Fresh, Succeeds
    <3> QED BY <3>2, <3>4 DEF Failing
  <2> QED BY <1>1, <2>2 DEF Live
<1>14. \A r \in RolesHere' : (\A o \in Live' : o.part # r) => Sound(r)'
  <2> SUFFICES ASSUME NEW r \in RolesHere, \A o \in Live' : o.part # r PROVE Sound(r)'
    BY <1>11
  <2>1. Sound(r) /\ row'[r] = row[r]
    BY <1>6, <1>11, <1>13, Kinds DEF Good, Rows
  <2> QED BY <1>1, <2>1 DEF Sound
<1>15. \A o \in Live' : o.part # NoRole => Due(o)'
  <2> SUFFICES ASSUME NEW o \in Live, o.part # NoRole PROVE Due(o)'
    BY <1>12
  <2>1. Due(o)
    BY DEF Good, Rows
  <2>2. o.part \in Role
    <3>1. o \in orders \cup Queued
      BY <1>2 DEF Live, Failing, Queued
    <3> QED BY <3>1, Kinds DEF IInv, State, Proper
  <2>3. row'[o.part] = row[o.part]
    BY <1>6, <2>2
  <2>4. Before(o.part, o.act) => Before(o.part, o.act)'
    BY <1>1, <2>3 DEF Before, Stopped
  <2>5. Multi(o.part) => Multi(o.part)'
    BY <1>1, <1>5 DEF Multi
  <2> QED BY <1>1, <2>1, <2>3, <2>4, <2>5 DEF Due, Stopped
<1>16. Rows'
  BY <1>1, <1>2, <1>11, <1>14, <1>15 DEF Rows
<1> QED BY <1>8, <1>9, <1>10, <1>16 DEF Good

LEMMA DeliveryGood ==
  ASSUME IInv, OneJob, Good, Consume \/ ConsumeUnacknowledged, OneJob'
  PROVE  Good'
BY StaleGood, LastGood, SettledGood

LEMMA ActsGood ==
  ASSUME IInv, OneJob, Good, Acts(t1), IInv', OneJob'
  PROVE  (Stuck \/ Good)'
<1>1. CASE \E r \in Role \cup {All}, act \in {"start", "stop"} : Press(t1, r, act)
  BY <1>1, PressGood
<1>2. CASE PressDeploy(t1)
  BY <1>2, PressDeployGood
<1>3. CASE Clear(t1) \/ Patch(t1)
  BY <1>3, BesideGood
<1>4. CASE Mark(t1)
  BY <1>4, MarkGood
<1>5. CASE Look(t1)
  BY <1>5, LookGood
<1>6. CASE Refuse(t1)
  BY <1>6, RefuseStuck
<1>7. CASE Create(t1)
  BY <1>7, CreateGood
<1>8. CASE AllOperated(t1) \/ Start(t1)
  BY <1>8, StartGood
<1>9. CASE DeployNodes(t1)
  BY <1>9, DeployNodesGood
<1>10. CASE OperateRole(t1)
  BY <1>10, OperateRoleGood
<1>11. CASE OperateAll(t1)
  BY <1>11, OperateAllGood
<1>12. CASE Cast(t1)
  BY <1>12, CastGood
<1>13. CASE DeployNodesFails(t1) \/ OperateRoleFails(t1) \/ Crash(t1)
  BY <1>13, LostGood
<1> QED
  BY <1>1, <1>2, <1>3, <1>4, <1>5, <1>6, <1>7, <1>8, <1>9, <1>10, <1>11, <1>12, <1>13
     DEF Acts, Continue

LEMMA TypeStays ==
  ASSUME Next
  PROVE  type' = type
BY DEF Next, Continue, Press, PressDeploy, Asks, Clear, Patch, Mark, Look, Refuse, Create,
       DeployNodes, OperateRole, OperateAll, AllOperated, Start, Cast, DeployNodesFails,
       OperateRoleFails, Crash, Abandon, Answer, Consume, ConsumeUnacknowledged

LEMMA CleanKept ==
  ASSUME IInv, SoloInv, CleanInv, [MCNext]_mcVars, IInv', SoloInv'
  PROVE  CleanInv'
<1>1. CASE MCNext
  <2> SUFFICES ASSUME Clean' PROVE (Stuck \/ Good)'
    BY DEF CleanInv, Stuck, Good
  <2>1. Next /\ type' = type /\ partial' = (partial \/ PartFails)
    BY <1>1, TypeStays DEF MCNext
  <2>2. Others' /\ OneJob'
    BY DEF Clean, SoloInv
  <2>3. /\ Others
        /\ \/ Acts(t1)
           \/ \E o \in orders : Answer(o)
           \/ Consume \/ ConsumeUnacknowledged
    BY <2>1, <2>2, WhoActs DEF SoloInv
  <2>4. (type # Ebs \/ ~ PartFails) /\ (type # Ebs \/ ~ partial)
    BY <2>1 DEF Clean
  <2>5. Clean /\ OneJob /\ (Stuck \/ Good)
    BY <2>3, <2>4 DEF Clean, CleanInv, SoloInv
  <2>6. CASE Stuck
    BY <2>3, <2>5, <2>6, StuckStays DEF Stuck
  <2>7. CASE Good
    BY <2>2, <2>3, <2>4, <2>5, <2>7, ActsGood, AnswerGood, DeliveryGood
  <2> QED BY <2>5, <2>6, <2>7
<1>2. CASE UNCHANGED mcVars
  <2>1. UNCHANGED <<vars, partial>>
    BY <1>2 DEF mcVars
  <2>2. Live' = Live /\ Wanted' = Wanted
    BY <2>1 DEF vars, Live, Failing, Fresh, Succeeds, Wanted
  <2>3. \A p : Multi(p)' <=> Multi(p)
    BY <2>1 DEF vars, Multi
  <2>4. \A o : Due(o)' <=> Due(o)
    BY <2>1, <2>3 DEF vars, Due, Before, Stopped
  <2>5. Rows => Rows'
    BY <2>1, <2>2, <2>4
       DEF vars, Rows, Before, Stopped, Sound, AllFit, AllAction, Offered, RolesHere
  <2>6. Flight => Flight'
    BY <2>1, FlightSame DEF vars
  <2>7. (Broken => Broken') /\ (Desk => Desk')
    BY <2>1 DEF vars, Broken, Desk, Lone, OnlyPart, InError
  <2>8. (Clean' => Clean) /\ (Stuck => Stuck')
    BY <2>1 DEF vars, Clean, Others, Stuck, Forgotten, Queued
  <2> QED BY <2>5, <2>6, <2>7, <2>8 DEF CleanInv, Good
<1> QED BY <1>1, <1>2

LEMMA CleanStarts == MCInit => CleanInv
<1> SUFFICES ASSUME MCInit PROVE Good
  BY DEF CleanInv
<1>1. PICK W \in SUBSET Tab, presses \in Int, faults \in Int : InitOf(W, presses, faults) /\ t1 \in W
  BY TabAssumption, BoundsAssumption DEF MCInit
<1>2. /\ tab[t1] = Idle /\ (\A k \in JobId : job[k] = NoJob) /\ cluster = "operational"
      /\ orders = {} /\ Len(queue) = 0 /\ runs = {} /\ begun = {}
      /\ \A r \in Role : row[r] \notin {2, 3}
  BY <1>1, TabAssumption DEF InitOf
<1>3. Idle.pc = "idle" /\ Idle.orders = {}
  BY IdleTyped
<1>4. Flight /\ Live = {}
  BY <1>2, <1>3 DEF Flight, Live, Failing
<1>5. Broken
  BY <1>2 DEF Broken, NoJob
<1>6. Desk
  BY <1>2, <1>3 DEF Desk, Asking
<1>7. Wanted = {}
  BY <1>2, <1>3 DEF Wanted
<1>8. \A r \in RolesHere : Sound(r)
  BY <1>2, Kinds DEF Sound
<1>9. Rows
  BY <1>2, <1>3, <1>4, <1>7, <1>8 DEF Rows
<1> QED BY <1>4, <1>5, <1>6, <1>9 DEF Good

LEMMA AlwaysClean == MCSpec => [](IInv /\ SoloInv /\ CleanInv)
<1>1. MCInit => IInv /\ SoloInv /\ CleanInv
  BY InitHolds, TabAssumption, SoloStarts, CleanStarts DEF MCInit
<1>2. IInv /\ SoloInv /\ CleanInv /\ [MCNext]_mcVars => IInv' /\ SoloInv' /\ CleanInv'
  BY NextKeeps, SoloKept, CleanKept DEF MCNext, mcVars
<1> QED BY <1>1, <1>2, PTL DEF MCSpec

\* In a single tab the rows say which roles run when all is answered, whatever
\* failed: a start that fails leaves a role as stopped as it was, a stop that
\* fails leaves it started (rollback_role_status), unless a request died before
\* it sent anything or a part failed of several.
THEOREM StatusAlwaysTrue == MCSpec => []StatusIsTrueInTurn
<1>1. ASSUME IInv, SoloInv, CleanInv
      PROVE  StatusIsTrueInTurn
  <2> SUFFICES ASSUME Alone, ~ uncast, ~ partial, Rest
               PROVE  \A r \in RolesHere : row[r] = 2 <=> r \in runs
    BY DEF StatusIsTrueInTurn, StatusIsTrue
  <2>1. Others /\ OneJob /\ Mindful /\ Clean
    BY <1>1, AloneIsT1 DEF SoloInv, Clean
  <2>2. orders = {} /\ Queued = {} /\ Len(queue) = 0
    BY DEF Rest, Queued
  <2>3. tab[t1] = Idle /\ Idle.pc = "idle" /\ Idle.orders = {} /\ "idle" \notin Making
    BY <1>1, TabAssumption, IdleTyped DEF Rest, SoloInv, Making
  <2>4. ~ Stuck
    BY <2>1, <2>2, <2>3 DEF Stuck, Mindful, InHand
  <2>5. Wanted = {} /\ Live = {}
    BY <2>2, <2>3 DEF Wanted, Live, Failing
  <2> QED BY <1>1, <2>1, <2>4, <2>5 DEF CleanInv, Good, Rows, Sound
<1> QED BY <1>1, AlwaysClean, PTL

\* What the orchestrator is told to do with an ONEST environment.
LEMMA OrdersTruly ==
  ASSUME IInv, CleanInv, Others, NEW o \in orders, type = OnestType
  PROVE  /\ o.act = "start" => o.part \notin begun
         /\ o.act = "started" => o.part \in begun
<1>1. Good
  <2>1. type # Ebs
    BY DEF OnestType, Ebs
  <2> QED BY <2>1 DEF CleanInv, Clean, Stuck
<1>2. Proper(o) /\ begun \subseteq RolesHere /\ o \in Live
  BY DEF IInv, State, TypeInv, Live
<1>3. CASE o.part = NoRole
  BY <1>2, <1>3, Kinds DEF Proper
<1>4. CASE o.part # NoRole
  BY <1>1, <1>2, <1>4 DEF Good, Rows, Due, Before
<1> QED BY <1>3, <1>4

\* From a single tab ONEST is sent "start" until a start was carried out, and
\* "started" from then on, however many of either fail
\* (ClusterStartRoleHandler, rollback_role_status).
THEOREM FirstStartAlways == MCSpec => []FirstStartInTurn
<1>1. ASSUME IInv, SoloInv, CleanInv
      PROVE  FirstStartInTurn
  <2> SUFFICES ASSUME Alone, NEW o \in orders
               PROVE  /\ o.act = "start" /\ type = OnestType => o.part \notin begun
                      /\ o.act = "started" => o.part \in begun
    BY DEF FirstStartInTurn, FirstStartIsFirst
  <2>1. Others /\ (o.act = "started" => type = OnestType)
    BY <1>1, AloneIsT1 DEF IInv, State, Proper
  <2> QED BY <1>1, <2>1, OrdersTruly
<1> QED BY <1>1, AlwaysClean, PTL

\* More than one tab is open on an EBS environment only, and what runs was
\* started for the first time before.
Begun == (type = Ebs \/ Others) /\ runs \subseteq begun

LEMMA BegunKept ==
  ASSUME IInv, SoloInv, CleanInv, Begun, [MCNext]_mcVars
  PROVE  Begun'
<1>1. CASE MCNext
  <2>1. Next /\ type' = type /\ tab[t1].pc # "closed"
    BY <1>1, TypeStays DEF MCNext, SoloInv
  <2>2. Others => Others'
    <3> SUFFICES ASSUME Others, NEW v \in Tab \ {t1} PROVE tab'[v].pc = "closed"
      BY DEF Others
    <3>1. ASSUME NEW w \in Tab, Acts(w) PROVE tab'[v] = tab[v]
      BY <3>1, ActsInside DEF Others
    <3>2. (\E o \in orders : Answer(o)) \/ Consume \/ ConsumeUnacknowledged => tab' = tab
      BY DEF Answer, Consume, ConsumeUnacknowledged
    <3>3. (\E w \in Tab : Acts(w)) \/ (\E o \in orders : Answer(o)) \/ Consume
          \/ ConsumeUnacknowledged
      BY <2>1 DEF Next, Acts
    <3> QED BY <3>1, <3>2, <3>3 DEF Others
  <2>3. (\E o \in orders : Answer(o)) \/ UNCHANGED <<runs, begun>>
    BY <2>1 DEF Next, Continue, Press, PressDeploy, Asks, Clear, Patch, Mark, Look, Refuse,
       Create, DeployNodes, OperateRole, OperateAll, AllOperated, Start, Cast,
       DeployNodesFails, OperateRoleFails, Crash, Abandon, Consume, ConsumeUnacknowledged
  <2>4. ASSUME NEW o \in orders, Answer(o) PROVE runs' \subseteq begun'
    <3>1. CarriedOut(o) \/ UNCHANGED <<runs, begun>>
      BY <2>4, AnswerKeeps
    <3>2. o.act \in Actions /\ (o.act = "started" => type = OnestType)
      BY DEF IInv, TypeInv, Order, State, Proper
    <3>3. o.act = "started" => o.part \in begun
      <4>1. OnestType # Ebs
        BY DEF OnestType, Ebs
      <4> QED BY <3>2, <4>1, OrdersTruly DEF Begun
    <3> QED BY <3>1, <3>2, <3>3 DEF Begun, CarriedOut, Actions
  <2> QED BY <2>1, <2>2, <2>3, <2>4 DEF Begun
<1>2. CASE UNCHANGED mcVars
  BY <1>2 DEF mcVars, vars, Begun, Others
<1> QED BY <1>1, <1>2

\* The types of all variables; a subtask belongs to a task that exists, and a
\* role that runs was started for the first time.
THEOREM TypeCorrect == MCSpec => []TypeOK
<1>1. MCInit => Begun
  BY IdleTyped, TabAssumption DEF MCInit, InitOf, Begun, Others
<1>2. ASSUME IInv, Begun
      PROVE  TypeOK
  <2>1. /\ DOMAIN job = JobId /\ cookie.role \in Role \cup {All} /\ cookie.act \in Actions
        /\ orders \subseteq Order /\ seq \in 0 .. MaxJob
    BY <1>2 DEF IInv, TypeInv, State, Cookie
  <2>2. \A k \in JobId :
          /\ job[k].status \in {"none", "running", "ready", "error"}
          /\ job[k].sub \in [Part -> {"none", "running", "ready", "error"}]
          /\ job[k].status = "none" \/ k > seq => job[k] = NoJob
    BY <1>2 DEF IInv, TypeInv, State, Agrees, JobRow, Statuses
  <2>3. \A i \in DOMAIN queue :
          queue[i] \in Reply /\ queue[i].failed \cap queue[i].ready = {}
    <3>1. queue \in Seq(Reply) /\ DOMAIN queue = 1 .. Len(queue)
      BY <1>2 DEF IInv, TypeInv
    <3> QED BY <1>2, <3>1, QueuedTyped DEF IInv, State
  <2>4. /\ \A r \in Role : row[r] = 3 => type = OnestType
        /\ runs \subseteq begun /\ begun \subseteq RolesHere
    BY <1>2 DEF IInv, State, TypeInv, Begun
  <2> QED BY <1>2, <2>1, <2>2, <2>3, <2>4 DEF TypeOK, IInv, TypeInv
<1>3. IInv /\ SoloInv /\ CleanInv /\ Begun /\ [MCNext]_mcVars => Begun'
  BY BegunKept
<1> QED BY <1>1, <1>2, <1>3, AlwaysClean, PTL DEF MCSpec

=============================================================================
