------------------------- MODULE NodeInventory_proofs -------------------------
(***************************************************************************)
(* NodeInventory: the variables keep their types, a row that is reported   *)
(* again and again stays online, and no machine ever takes another         *)
(* machine's row for its own. Served one request after the other, no       *)
(* machine has two rows.                                                   *)
(***************************************************************************)
EXTENDS MCNodeInventory, TLAPS

------------------------------------------------------------------------------
(***************************************************************************)
(* The invariant for the types: a bootstrap system has an address, and a   *)
(* request has what its stage needs.                                       *)
(***************************************************************************)

BootstrapHasLease ==
  \A m \in Machine : mode[m] = "bootstrap" => lease[m] # NoAddress

Whole(r) ==
  /\ r.stage # "idle" => r.from \in Machine /\ r.data \in Report
  /\ r.stage = "update" => r.row \in Id /\ r.seen \in Row
  /\ r.live => r.stage # "idle"

TypeInv ==
  /\ TypeOK
  /\ BootstrapHasLease
  /\ \A w \in Worker : Whole(worker[w])

------------------------------------------------------------------------------
(***************************************************************************)
(* Types of the operators.                                                 *)
(***************************************************************************)

\* What a report makes is a row.
LEMMA CreatedType == ASSUME NEW d \in Report PROVE Created(d) \in Row
  <1>1. d.mac \in Mac /\ d.ip \in Address
    BY DEF Report
  <1>2. d.mac[1] \in Machine /\ d.mac[2] \in BOOLEAN
    BY <1>1 DEF Mac
  <1> DEFINE known == d.mac[1] \in Known /\ ~d.mac[2]
  <1>3. known \in BOOLEAN
    BY <1>2
  <1>4. (IF known THEN Phys[d.mac[1]] ELSE d.ip) \in Address
    BY <1>1, <1>2 DEF Address
  <1>5. 0 \in 0 .. Timeout + 1
    BY BoundsAssumption
  <1> HIDE DEF known
  <1> QED BY <1>1, <1>3, <1>4, <1>5 DEF Created, Row, Statuses, known

\* A row one attribute of which is written stays a row.
LEMMA RowExcept ==
  ASSUME NEW r \in Row
  PROVE  /\ \A x \in Address : [r EXCEPT !.power_ip = x] \in Row
         /\ \A x \in Statuses : [r EXCEPT !.status = x] \in Row
         /\ \A x \in BOOLEAN : [r EXCEPT !.online = x] \in Row
         /\ \A x \in 0 .. Timeout + 1 : [r EXCEPT !.age = x] \in Row
         /\ \A x \in Report : [r EXCEPT !.agent_checksum = x] \in Row
  <1> DEFINE M == Mac  A == Address  S == Statuses  T == 0 .. Timeout + 1
             R == Report
  <1>1. Row = [mac : M, ip : A, power_ip : A, known : BOOLEAN, status : S,
               online : BOOLEAN, age : T, agent_checksum : R]
    BY DEF Row
  <1> HIDE DEF M, A, S, T, R
  <1>2. /\ \A x \in A : [r EXCEPT !.power_ip = x] \in Row
        /\ \A x \in S : [r EXCEPT !.status = x] \in Row
        /\ \A x \in BOOLEAN : [r EXCEPT !.online = x] \in Row
    BY <1>1
  <1>3. /\ \A x \in T : [r EXCEPT !.age = x] \in Row
        /\ \A x \in R : [r EXCEPT !.agent_checksum = x] \in Row
    BY <1>1
  <1> QED BY <1>2, <1>3 DEF A, S, T, R

\* A row that a report stamps and changes stays a row.
LEMMA StampedType ==
  ASSUME NEW r \in Row, NEW s \in Row PROVE Stamped(r, s) \in Row
  <1>1. 0 \in 0 .. Timeout + 1
    BY BoundsAssumption
  <1>2. [r EXCEPT !.age = 0] \in Row
    BY <1>1, RowExcept
  <1>3. r.online \in BOOLEAN
    BY DEF Row
  <1>4. [[r EXCEPT !.age = 0] EXCEPT
           !.online = IF s.online THEN r.online ELSE TRUE] \in Row
    BY <1>2, <1>3, RowExcept
  <1> QED BY <1>4 DEF Stamped

LEMMA ReportedType ==
  ASSUME NEW r \in Row, NEW s \in Row, NEW d \in Report, NEW moved \in BOOLEAN
  PROVE  Reported(r, s, d, moved) \in Row
  <1>1. Stamped(r, s) \in Row
    BY StampedType
  <1>2. ReportedStatus(r, s, d) \in Statuses
    BY DEF ReportedStatus, Row, Statuses
  <1> DEFINE p == IF moved /\ s.power_ip # d.ip THEN d.ip ELSE r.power_ip
  <1>3. p \in Address
    BY DEF Row, Report
  <1> HIDE DEF p
  <1>4. [Stamped(r, s) EXCEPT !.status = ReportedStatus(r, s, d)] \in Row
    BY <1>1, <1>2, RowExcept
  <1>5. [[Stamped(r, s) EXCEPT !.status = ReportedStatus(r, s, d)] EXCEPT
           !.power_ip = p] \in Row
    BY <1>3, <1>4, RowExcept
  <1>6. [[[Stamped(r, s) EXCEPT !.status = ReportedStatus(r, s, d)] EXCEPT
           !.power_ip = p] EXCEPT !.agent_checksum = d] \in Row
    BY <1>5, RowExcept
  <1> QED BY <1>1, <1>6 DEF Reported, p

\* The agent reports what it can say of its machine.
LEMMA DataType ==
  ASSUME TypeInv, NEW m \in Machine, mode[m] # "off" PROVE Data(m) \in Report
  <1>1. mode[m] = "os" \/ mode[m] = "bootstrap"
    BY DEF TypeInv, TypeOK
  <1>2. SystemMac(m) \in Mac /\ OwnMac(m) \in Mac
    BY DEF SystemMac, OwnMac, Mac
  <1>3. Phys[m] \in Address
    BY DEF Address
  <1>4. mode[m] = "bootstrap" => lease[m] \in Address
    BY DEF TypeInv, TypeOK, BootstrapHasLease, Address
  <1> QED BY <1>1, <1>2, <1>3, <1>4 DEF Data, Report

\* A request one field of which is written stays a request.
LEMMA RequestExcept ==
  ASSUME NEW r \in Request
  PROVE  /\ \A x \in {"idle", "post", "put", "by_mac", "read", "update",
                      "clear", "insert"} : [r EXCEPT !.stage = x] \in Request
         /\ \A x \in BOOLEAN : [r EXCEPT !.live = x] \in Request
         /\ \A x \in Mac : [r EXCEPT !.mac = x] \in Request
         /\ \A x \in BOOLEAN : [r EXCEPT !.moved = x] \in Request
         /\ \A x \in Id : [r EXCEPT !.row = x] \in Request
         /\ \A x \in Row : [r EXCEPT !.seen = x] \in Request
         /\ \A x \in BOOLEAN : [r EXCEPT !.next = x] \in Request
  <1> DEFINE G == {"idle", "post", "put", "by_mac", "read", "update",
                   "clear", "insert"}
             T == {"post", "put"}
             F == Machine \cup {NoMachine}
             D == Report \cup {NoReport}
             M == Mac \cup {NoMachine}
             I == Id \cup {NoId}
             S == Row \cup {NoRow}
  <1>1. Request = [stage : G, method : T, from : F, data : D, live : BOOLEAN,
                   first : BOOLEAN, mac : M, moved : BOOLEAN, row : I,
                   seen : S, next : BOOLEAN]
    BY DEF Request
  <1>2. Mac \subseteq M /\ Id \subseteq I /\ Row \subseteq S
    OBVIOUS
  <1> HIDE DEF G, T, F, D, M, I, S
  <1>3. \A x \in G : [r EXCEPT !.stage = x] \in Request
    BY <1>1
  <1>4. \A x \in BOOLEAN : [r EXCEPT !.live = x] \in Request
    BY <1>1
  <1>5. \A x \in M : [r EXCEPT !.mac = x] \in Request
    BY <1>1
  <1>6. \A x \in BOOLEAN : [r EXCEPT !.moved = x] \in Request
    BY <1>1
  <1>7. \A x \in I : [r EXCEPT !.row = x] \in Request
    BY <1>1
  <1>8. \A x \in S : [r EXCEPT !.seen = x] \in Request
    BY <1>1
  <1>9. \A x \in BOOLEAN : [r EXCEPT !.next = x] \in Request
    BY <1>1
  <1> QED BY <1>2, <1>3, <1>4, <1>5, <1>6, <1>7, <1>8, <1>9 DEF G

\* A request that goes on to a stage, or remembers something, has what it had.
LEMMA RequestGoesOn ==
  ASSUME NEW r \in Request, Whole(r), r.stage # "idle"
  PROVE  /\ \A x \in {"post", "put", "by_mac", "read", "clear", "insert"} :
              /\ [r EXCEPT !.stage = x] \in Request
              /\ Whole([r EXCEPT !.stage = x])
              /\ [r EXCEPT !.stage = x].stage = x
         /\ \A x \in Mac : /\ [r EXCEPT !.mac = x] \in Request
                           /\ Whole([r EXCEPT !.mac = x])
                           /\ [r EXCEPT !.mac = x].stage = r.stage
  <1> DEFINE G == {"idle", "post", "put", "by_mac", "read", "update",
                   "clear", "insert"}
             T == {"post", "put"}
             F == Machine \cup {NoMachine}
             D == Report \cup {NoReport}
             M == Mac \cup {NoMachine}
             I == Id \cup {NoId}
             S == Row \cup {NoRow}
  <1>1. Request = [stage : G, method : T, from : F, data : D, live : BOOLEAN,
                   first : BOOLEAN, mac : M, moved : BOOLEAN, row : I,
                   seen : S, next : BOOLEAN]
    BY DEF Request
  <1> HIDE DEF G, T, F, D, M, I, S
  <1>2. ASSUME NEW x \in {"post", "put", "by_mac", "read", "clear", "insert"}
        PROVE  /\ Whole([r EXCEPT !.stage = x])
               /\ [r EXCEPT !.stage = x].stage = x
    BY <1>1, <1>2 DEF Whole
  <1>3. ASSUME NEW x \in Mac
        PROVE  /\ Whole([r EXCEPT !.mac = x])
               /\ [r EXCEPT !.mac = x].stage = r.stage
    BY <1>1, <1>3 DEF Whole
  <1> QED BY <1>2, <1>3, RequestExcept

\* A request that is not waited for, or not counted on, any more.
LEMMA RequestForgets ==
  ASSUME NEW r \in Request, Whole(r)
  PROVE  /\ [r EXCEPT !.live = FALSE] \in Request
         /\ Whole([r EXCEPT !.live = FALSE])
         /\ [r EXCEPT !.next = FALSE] \in Request
         /\ Whole([r EXCEPT !.next = FALSE])
  <1> DEFINE G == {"idle", "post", "put", "by_mac", "read", "update",
                   "clear", "insert"}
             T == {"post", "put"}
             F == Machine \cup {NoMachine}
             D == Report \cup {NoReport}
             M == Mac \cup {NoMachine}
             I == Id \cup {NoId}
             S == Row \cup {NoRow}
  <1>1. Request = [stage : G, method : T, from : F, data : D, live : BOOLEAN,
                   first : BOOLEAN, mac : M, moved : BOOLEAN, row : I,
                   seen : S, next : BOOLEAN]
    BY DEF Request
  <1> HIDE DEF G, T, F, D, M, I, S
  <1>2. /\ [r EXCEPT !.live = FALSE] \in Request
        /\ Whole([r EXCEPT !.live = FALSE])
    BY <1>1 DEF Whole
  <1>3. /\ [r EXCEPT !.next = FALSE] \in Request
        /\ Whole([r EXCEPT !.next = FALSE])
    BY <1>1 DEF Whole
  <1> QED BY <1>2, <1>3

\* What a request becomes that has found a row by the MAC.
LEMMA RequestFinds ==
  ASSUME NEW r \in Request, Whole(r), r.stage # "idle", NEW x \in Mac,
         NEW q, q = [r EXCEPT !.stage = "read", !.mac = x, !.moved = TRUE]
  PROVE  q \in Request /\ Whole(q)
  <1> DEFINE G == {"idle", "post", "put", "by_mac", "read", "update",
                   "clear", "insert"}
             T == {"post", "put"}
             F == Machine \cup {NoMachine}
             D == Report \cup {NoReport}
             M == Mac \cup {NoMachine}
             I == Id \cup {NoId}
             S == Row \cup {NoRow}
  <1>1. Request = [stage : G, method : T, from : F, data : D, live : BOOLEAN,
                   first : BOOLEAN, mac : M, moved : BOOLEAN, row : I,
                   seen : S, next : BOOLEAN]
    BY DEF Request
  <1>2. x \in M /\ "read" \in G
    OBVIOUS
  <1> HIDE DEF G, T, F, D, M, I, S
  <1>3. q \in Request
    BY <1>1, <1>2
  <1>4. q.stage = "read" /\ q.from = r.from /\ q.data = r.data
    BY <1>1
  <1> QED BY <1>3, <1>4 DEF Whole

\* What a request becomes that has read a row.
LEMMA RequestReads ==
  ASSUME NEW r \in Request, Whole(r), r.stage # "idle", NEW i \in Id,
         NEW s \in Row, NEW x \in BOOLEAN,
         NEW q, q = [r EXCEPT !.stage = "update", !.row = i, !.seen = s, !.next = x]
  PROVE  q \in Request /\ Whole(q)
  <1> DEFINE G == {"idle", "post", "put", "by_mac", "read", "update",
                   "clear", "insert"}
             T == {"post", "put"}
             F == Machine \cup {NoMachine}
             D == Report \cup {NoReport}
             M == Mac \cup {NoMachine}
             I == Id \cup {NoId}
             S == Row \cup {NoRow}
  <1>1. Request = [stage : G, method : T, from : F, data : D, live : BOOLEAN,
                   first : BOOLEAN, mac : M, moved : BOOLEAN, row : I,
                   seen : S, next : BOOLEAN]
    BY DEF Request
  <1>2. i \in I /\ s \in S /\ "update" \in G
    OBVIOUS
  <1> HIDE DEF G, T, F, D, M, I, S
  <1>3. q \in Request
    BY <1>1, <1>2
  <1>4. q.stage = "update" /\ q.row = i /\ q.seen = s /\ q.from = r.from
        /\ q.data = r.data
    BY <1>1
  <1> QED BY <1>3, <1>4 DEF Whole

\* A worker without a request, and one with a new one.
LEMMA IdleType == Idle \in Request /\ Whole(Idle)
  BY DEF Idle, Request, Whole

LEMMA SentType ==
  ASSUME NEW m \in Machine, NEW method \in {"post", "put"}, NEW d \in Report,
         NEW first \in BOOLEAN
  PROVE  Sent(m, method, d, first) \in Request /\ Whole(Sent(m, method, d, first))
  BY DEF Sent, Request, Whole

\* A worker that goes on with a request that is whole.
LEMMA WorkerType ==
  ASSUME TypeInv, NEW w \in Worker, NEW r, r \in Request, Whole(r),
         worker' = [worker EXCEPT ![w] = r]
  PROVE  /\ worker' \in [Worker -> Request]
         /\ \A v \in Worker : Whole(worker'[v])
  <1>1. worker \in [Worker -> Request] /\ \A v \in Worker : Whole(worker[v])
    BY DEF TypeInv, TypeOK
  <1> QED BY <1>1

\* What the answers leave.
LEMMA AnswerType ==
  ASSUME TypeInv, NEW w \in Worker, worker[w].stage # "idle"
  PROVE  /\ AnswerNothing(w) => /\ worker' \in [Worker -> Request]
                                /\ \A v \in Worker : Whole(worker'[v])
                                /\ uid' = uid
         /\ \A i \in Id :
              AnswerId(w, i) => /\ worker' \in [Worker -> Request]
                                /\ \A v \in Worker : Whole(worker'[v])
                                /\ uid' \in [Machine -> Id \cup {NoId}]
         /\ \A other \in {"post", "put"} :
              AnswerRefusal(w, other) => /\ worker' \in [Worker -> Request]
                                         /\ \A v \in Worker : Whole(worker'[v])
                                         /\ uid' = uid
  <1>1. worker[w].from \in Machine /\ worker[w].data \in Report
    BY DEF TypeInv, Whole
  <1>2. ASSUME worker' = [worker EXCEPT ![w] = Idle]
        PROVE  /\ worker' \in [Worker -> Request]
               /\ \A v \in Worker : Whole(worker'[v])
    BY <1>2, IdleType, WorkerType
  <1>3. ASSUME NEW other \in {"post", "put"}, AnswerRefusal(w, other)
        PROVE  /\ worker' \in [Worker -> Request]
               /\ \A v \in Worker : Whole(worker'[v])
    <2>1. /\ Sent(worker[w].from, other, worker[w].data, FALSE) \in Request
          /\ Whole(Sent(worker[w].from, other, worker[w].data, FALSE))
      BY <1>1, SentType
    <2>2. CASE worker[w].live /\ worker[w].first
      BY <1>3, <2>1, <2>2, WorkerType DEF AnswerRefusal
    <2>3. CASE ~(worker[w].live /\ worker[w].first)
      BY <1>2, <1>3, <2>3 DEF AnswerRefusal
    <2> QED BY <2>2, <2>3
  <1>4. ASSUME NEW i \in Id, AnswerId(w, i)
        PROVE  uid' \in [Machine -> Id \cup {NoId}]
    <2>1. uid \in [Machine -> Id \cup {NoId}]
      BY DEF TypeInv, TypeOK
    <2> QED BY <1>4, <2>1 DEF AnswerId
  <1> QED BY <1>2, <1>3, <1>4 DEF AnswerNothing, AnswerId, AnswerRefusal

------------------------------------------------------------------------------
(***************************************************************************)
(* TypeInv is inductive: the steps of a worker.                            *)
(***************************************************************************)

LEMMA TypeFrame ==
  ASSUME TypeInv, UNCHANGED <<mode, lease, early>>,
         rows' \in [Id -> Row \cup {NoRow}], calm' \in [Id -> 0 .. 2],
         uid' \in [Machine -> Id \cup {NoId}],
         worker' \in [Worker -> Request], \A w \in Worker : Whole(worker'[w])
  PROVE  TypeInv'
  BY DEF TypeInv, TypeOK, BootstrapHasLease, Whole

LEMMA TypeParts ==
  ASSUME TypeInv
  PROVE  /\ rows \in [Id -> Row \cup {NoRow}]
         /\ mode \in [Machine -> {"off", "bootstrap", "os"}]
         /\ lease \in [Machine -> Lease \cup {NoAddress}]
         /\ uid \in [Machine -> Id \cup {NoId}]
         /\ worker \in [Worker -> Request]
         /\ calm \in [Id -> 0 .. 2]
         /\ early \in BOOLEAN
         /\ \A w \in Worker : Whole(worker[w])
         /\ \A i \in Present : rows[i] \in Row
  BY DEF TypeInv, TypeOK, Present

LEMMA TypePostValidates ==
  ASSUME TypeInv, NEW w \in Worker, PostValidates(w) PROVE TypeInv'
  <1> DEFINE r == [worker[w] EXCEPT !.stage = "clear"]
  <1>1. worker[w] \in Request /\ worker[w].stage = "post" /\ Whole(worker[w])
    BY TypeParts DEF PostValidates
  <1>2. r \in Request
    BY <1>1, RequestExcept
  <1>3. Whole(r)
    BY <1>1, RequestGoesOn
  <1>4. \/ AnswerRefusal(w, "put")
        \/ worker' = [worker EXCEPT ![w] = r] /\ uid' = uid
    BY DEF PostValidates
  <1> HIDE DEF r
  <1>5. worker' \in [Worker -> Request] /\ \A v \in Worker : Whole(worker'[v])
    BY <1>1, <1>2, <1>3, <1>4, AnswerType, WorkerType
  <1>6. uid' = uid
    BY <1>1, <1>4, AnswerType
  <1> QED BY <1>5, <1>6, TypeFrame, TypeParts DEF PostValidates

LEMMA TypeFindsByAddress ==
  ASSUME TypeInv, NEW w \in Worker, FindsByAddress(w) PROVE TypeInv'
  <1>1. worker[w] \in Request /\ worker[w].stage = "put" /\ Whole(worker[w])
    BY TypeParts DEF FindsByAddress
  <1>2. PICK r \in Request : Whole(r) /\ worker' = [worker EXCEPT ![w] = r]
    <2> DEFINE ip == worker[w].data.ip
               found == IF ByIp(ip) # {} THEN ByIp(ip) ELSE ByPowerIp(ip)
    <2>1. CASE found = {}
      <3> DEFINE r == [worker[w] EXCEPT !.stage = "by_mac"]
      <3>1. r \in Request /\ Whole(r)
        BY <1>1, RequestGoesOn
      <3> QED BY <2>1, <3>1 DEF FindsByAddress
    <2>2. CASE found # {}
      <3>1. PICK i \in found : worker' = [worker EXCEPT ![w].stage = "read",
                                                        ![w].mac = rows[i].mac]
        BY <2>2 DEF FindsByAddress
      <3>2. i \in Present
        BY DEF ByIp, ByPowerIp
      <3>3. rows[i].mac \in Mac
        BY <3>2, TypeParts DEF Row
      <3> DEFINE q == [worker[w] EXCEPT !.stage = "read"]
                 r == [q EXCEPT !.mac = rows[i].mac]
      <3>4. q \in Request /\ Whole(q) /\ q.stage = "read"
        BY <1>1, RequestGoesOn
      <3>5. r \in Request /\ Whole(r)
        BY <3>3, <3>4, RequestGoesOn
      <3>6. worker' = [worker EXCEPT ![w] = r]
        BY <1>1, <3>1, TypeParts
      <3> QED BY <3>5, <3>6
    <2> QED BY <2>1, <2>2
  <1>3. worker' \in [Worker -> Request] /\ \A v \in Worker : Whole(worker'[v])
    BY <1>2, WorkerType
  <1> QED BY <1>3, TypeFrame, TypeParts DEF FindsByAddress

LEMMA TypeFindsByMac ==
  ASSUME TypeInv, NEW w \in Worker, FindsByMac(w) PROVE TypeInv'
  <1>1. worker[w] \in Request /\ worker[w].stage = "by_mac" /\ Whole(worker[w])
    BY TypeParts DEF FindsByMac
  <1>2. PICK r \in Request : Whole(r) /\ worker' = [worker EXCEPT ![w] = r]
    <2> DEFINE mac == worker[w].data.mac
    <2>1. CASE ByMac(mac) = {}
      <3> DEFINE r == [worker[w] EXCEPT !.stage = "clear"]
      <3>1. r \in Request /\ Whole(r)
        BY <1>1, RequestGoesOn
      <3> QED BY <2>1, <3>1 DEF FindsByMac
    <2>2. CASE ByMac(mac) # {}
      <3>1. worker' = [worker EXCEPT ![w].stage = "read", ![w].mac = mac,
                                     ![w].moved = TRUE]
        BY <2>2 DEF FindsByMac
      <3>2. mac \in Mac
        BY <1>1 DEF Whole, Report
      <3> HIDE DEF mac
      <3> DEFINE r == [worker[w] EXCEPT !.stage = "read", !.mac = mac,
                                        !.moved = TRUE]
      <3>3. r \in Request /\ Whole(r)
        BY <1>1, <3>2, RequestFinds
      <3>4. worker' = [worker EXCEPT ![w] = r]
        BY <1>1, <3>1, TypeParts
      <3> QED BY <3>3, <3>4
    <2> QED BY <2>1, <2>2
  <1>3. worker' \in [Worker -> Request] /\ \A v \in Worker : Whole(worker'[v])
    BY <1>2, WorkerType
  <1> QED BY <1>3, TypeFrame, TypeParts DEF FindsByMac

LEMMA TypeDeletesConflicts ==
  ASSUME TypeInv, NEW w \in Worker, DeletesConflicts(w) PROVE TypeInv'
  <1> DEFINE r == [worker[w] EXCEPT !.stage = "insert"]
  <1>1. worker[w] \in Request /\ worker[w].stage = "clear" /\ Whole(worker[w])
    BY TypeParts DEF DeletesConflicts
  <1>2. r \in Request /\ Whole(r)
    BY <1>1, RequestGoesOn
  <1>3. worker' = [worker EXCEPT ![w] = r]
    BY DEF DeletesConflicts
  <1> HIDE DEF r
  <1>4. worker' \in [Worker -> Request] /\ \A v \in Worker : Whole(worker'[v])
    BY <1>2, <1>3, WorkerType
  <1>5. rows' \in [Id -> Row \cup {NoRow}]
    BY TypeParts DEF DeletesConflicts
  <1> QED BY <1>4, <1>5, TypeFrame, TypeParts DEF DeletesConflicts

LEMMA TypeCreates ==
  ASSUME TypeInv, NEW w \in Worker, Creates(w) PROVE TypeInv'
  <1> DEFINE d == worker[w].data
  <1>1. worker[w].stage = "insert" /\ Whole(worker[w])
    BY TypeParts DEF Creates
  <1>2. d \in Report
    BY <1>1 DEF Whole
  <1>3. UNCHANGED <<mode, lease, early>>
    BY DEF Creates
  <1>4. CASE ByMac(d.mac) # {}
    <2>1. AnswerRefusal(w, "post") \/ AnswerNothing(w)
      BY <1>4 DEF Creates
    <2>2. rows' = rows /\ calm' = calm
      BY <1>4 DEF Creates
    <2> QED BY <1>1, <1>3, <2>1, <2>2, AnswerType, TypeFrame, TypeParts
  <1>5. CASE ByMac(d.mac) = {}
    <2>1. PICK i \in Id : /\ rows' = [rows EXCEPT ![i] = Created(d)]
                          /\ calm' = [calm EXCEPT ![i] = 0]
                          /\ AnswerNothing(w) \/ AnswerId(w, i)
      BY <1>5 DEF Creates
    <2>2. rows' \in [Id -> Row \cup {NoRow}]
      BY <1>2, <2>1, CreatedType, TypeParts
    <2>3. calm' \in [Id -> 0 .. 2]
      BY <2>1, TypeParts
    <2> HIDE DEF d
    <2> QED BY <1>1, <1>3, <2>1, <2>2, <2>3, AnswerType, TypeFrame, TypeParts
  <1> QED BY <1>4, <1>5

LEMMA TypeReads ==
  ASSUME TypeInv, NEW w \in Worker, Reads(w) PROVE TypeInv'
  <1>1. /\ worker[w] \in Request /\ worker[w].stage = "read"
        /\ Whole(worker[w])
    BY TypeParts DEF Reads
  <1>2. UNCHANGED <<rows, mode, lease, calm, early>>
    BY DEF Reads
  <1>3. CASE ByMac(worker[w].mac) = {}
    <2>1. AnswerRefusal(w, "post") \/ AnswerNothing(w)
      BY <1>3 DEF Reads
    <2> QED BY <1>1, <1>2, <2>1, AnswerType, TypeFrame, TypeParts
  <1>4. CASE ByMac(worker[w].mac) # {}
    <2>1. PICK i \in ByMac(worker[w].mac) :
            worker' = [worker EXCEPT ![w].stage = "update", ![w].row = i,
                                     ![w].seen = rows[i],
                                     ![w].next = calm[i] > 0]
      BY <1>4 DEF Reads
    <2>2. i \in Present /\ i \in Id
      BY DEF ByMac, Present
    <2> DEFINE s == rows[i]
               x == calm[i] > 0
               r == [worker[w] EXCEPT !.stage = "update", !.row = i,
                                      !.seen = s, !.next = x]
    <2>3. s \in Row /\ x \in BOOLEAN
      BY <2>2, TypeParts
    <2>4. worker' = [worker EXCEPT ![w] = r]
      BY <1>1, <2>1, TypeParts
    <2> HIDE DEF s, x
    <2>5. r \in Request /\ Whole(r)
      BY <1>1, <2>2, <2>3, RequestReads
    <2> HIDE DEF r
    <2>6. worker' \in [Worker -> Request] /\ \A v \in Worker : Whole(worker'[v])
      BY <2>4, <2>5, WorkerType
    <2>7. uid' = uid
      BY <1>4 DEF Reads
    <2> QED BY <1>2, <2>6, <2>7, TypeFrame, TypeParts
  <1> QED BY <1>3, <1>4

LEMMA TypeUpdates ==
  ASSUME TypeInv, NEW w \in Worker, Updates(w) PROVE TypeInv'
  <1> DEFINE i == worker[w].row
             r == Reported(rows[i], worker[w].seen, worker[w].data,
                           worker[w].moved)
             c == IF worker[w].next THEN 2 ELSE IF calm[i] = 0 THEN 1 ELSE calm[i]
  <1>1. /\ worker[w] \in Request /\ worker[w].stage = "update"
        /\ Whole(worker[w])
    BY TypeParts DEF Updates
  <1>2. i \in Id /\ worker[w].seen \in Row /\ worker[w].data \in Report
        /\ worker[w].moved \in BOOLEAN
    BY <1>1 DEF Whole, Request
  <1>3. UNCHANGED <<mode, lease, early>>
    BY DEF Updates
  <1>4. CASE rows[i] = NoRow
    <2>1. AnswerNothing(w) /\ UNCHANGED <<rows, calm>>
      BY <1>4 DEF Updates
    <2> QED BY <1>1, <1>3, <2>1, AnswerType, TypeFrame, TypeParts
  <1>5. CASE rows[i] # NoRow
    <2>1. /\ rows' = [rows EXCEPT ![i] = r]
          /\ calm' = [calm EXCEPT ![i] = c]
          /\ AnswerId(w, i)
      BY <1>2, <1>5, TypeParts DEF Updates
    <2>2. r \in Row
      BY <1>2, <1>5, ReportedType, TypeParts DEF Present
    <2>3. c \in 0 .. 2
      BY <1>2, TypeParts
    <2> HIDE DEF r, c, i
    <2>4. /\ rows' \in [Id -> Row \cup {NoRow}]
          /\ calm' \in [Id -> 0 .. 2]
      BY <2>1, <2>2, <2>3, TypeParts
    <2> QED BY <1>1, <1>2, <1>3, <2>1, <2>4, AnswerType, TypeFrame
  <1> QED BY <1>4, <1>5

------------------------------------------------------------------------------
(***************************************************************************)
(* TypeInv is inductive: the agents, the assassin, the receivers and the   *)
(* machines.                                                               *)
(***************************************************************************)

LEMMA TypeAgentRuns ==
  ASSUME TypeInv, NEW m \in Machine, NEW w \in Worker, AgentRuns(m, w)
  PROVE  TypeInv'
  <1> DEFINE method == IF uid[m] = NoId THEN "post" ELSE "put"
             r == Sent(m, method, Data(m), TRUE)
  <1>1. Data(m) \in Report
    BY DataType DEF AgentRuns
  <1>2. method \in {"post", "put"}
    OBVIOUS
  <1>3. worker' = [worker EXCEPT ![w] = r]
    BY DEF AgentRuns
  <1> HIDE DEF method
  <1>4. r \in Request /\ Whole(r)
    BY <1>1, <1>2, SentType
  <1> HIDE DEF r
  <1>5. worker' \in [Worker -> Request] /\ \A v \in Worker : Whole(worker'[v])
    BY <1>3, <1>4, WorkerType
  <1> QED BY <1>5, TypeFrame, TypeParts DEF AgentRuns

LEMMA TypeAgentGivesUp ==
  ASSUME TypeInv, NEW w \in Worker, AgentGivesUp(w) PROVE TypeInv'
  <1> DEFINE r == [worker[w] EXCEPT !.live = FALSE]
  <1>1. r \in Request /\ Whole(r)
    BY RequestForgets, TypeParts
  <1>2. worker' = [worker EXCEPT ![w] = r]
    BY DEF AgentGivesUp
  <1> HIDE DEF r
  <1>3. worker' \in [Worker -> Request] /\ \A v \in Worker : Whole(worker'[v])
    BY <1>1, <1>2, WorkerType
  <1> QED BY <1>3, TypeFrame, TypeParts DEF AgentGivesUp

\* What Disturbed and Abandoned leave of the requests.
LEMMA ForgottenType ==
  ASSUME TypeInv
  PROVE  /\ \A D \in SUBSET Id : Disturbed(D) =>
              /\ calm' \in [Id -> 0 .. 2]
              /\ worker' \in [Worker -> Request]
              /\ \A v \in Worker : Whole(worker'[v])
         /\ \A m \in Machine :
              /\ Abandoned(m) \in [Worker -> Request]
              /\ \A v \in Worker : Whole(Abandoned(m)[v])
  <1>1. \A v \in Worker : /\ [worker[v] EXCEPT !.next = FALSE] \in Request
                          /\ Whole([worker[v] EXCEPT !.next = FALSE])
                          /\ [worker[v] EXCEPT !.live = FALSE] \in Request
                          /\ Whole([worker[v] EXCEPT !.live = FALSE])
    BY RequestForgets, TypeParts
  <1>2. ASSUME NEW D \in SUBSET Id, Disturbed(D)
        PROVE  /\ calm' \in [Id -> 0 .. 2]
               /\ worker' \in [Worker -> Request]
               /\ \A v \in Worker : Whole(worker'[v])
    <2>1. calm' \in [Id -> 0 .. 2]
      BY <1>2, TypeParts DEF Disturbed
    <2>2. \A v \in Worker : \/ worker'[v] = worker[v]
                            \/ worker'[v] = [worker[v] EXCEPT !.next = FALSE]
      BY <1>2 DEF Disturbed
    <2>3. worker' = [v \in Worker |-> worker'[v]]
      BY <1>2 DEF Disturbed
    <2>4. \A v \in Worker : worker'[v] \in Request /\ Whole(worker'[v])
      BY <1>1, <2>2, TypeParts
    <2> QED BY <2>1, <2>3, <2>4
  <1>3. ASSUME NEW m \in Machine
        PROVE  /\ Abandoned(m) \in [Worker -> Request]
               /\ \A v \in Worker : Whole(Abandoned(m)[v])
    <2>1. \A v \in Worker :
            \/ Abandoned(m)[v] = worker[v]
            \/ Abandoned(m)[v] = [worker[v] EXCEPT !.live = FALSE]
      BY DEF Abandoned
    <2>2. Abandoned(m) = [v \in Worker |-> Abandoned(m)[v]]
      BY DEF Abandoned
    <2>3. \A v \in Worker : Abandoned(m)[v] \in Request /\ Whole(Abandoned(m)[v])
      BY <1>1, <2>1, TypeParts
    <2> QED BY <2>2, <2>3
  <1> QED BY <1>2, <1>3

LEMMA TypeUpdateNodesStatus ==
  ASSUME TypeInv, UpdateNodesStatus PROVE TypeInv'
  <1>1. \A i \in Present : [rows[i] EXCEPT !.online = FALSE] \in Row
    BY RowExcept, TypeParts
  <1>2. rows' \in [Id -> Row \cup {NoRow}]
    BY <1>1, TypeParts DEF UpdateNodesStatus, Present
  <1> QED BY <1>2, TypeFrame, TypeParts DEF UpdateNodesStatus

LEMMA TypeTick ==
  ASSUME TypeInv, Tick PROVE TypeInv'
  <1>1. ASSUME NEW i \in Present, rows[i].age <= Timeout
        PROVE  [rows[i] EXCEPT !.age = @ + 1] \in Row
    <2>1. rows[i] \in Row
      BY TypeParts
    <2>2. rows[i].age \in 0 .. Timeout + 1
      BY <2>1 DEF Row
    <2>3. rows[i].age + 1 \in 0 .. Timeout + 1
      BY <1>1, <2>2, BoundsAssumption
    <2> DEFINE x == rows[i].age + 1
    <2>4. [rows[i] EXCEPT !.age = x] \in Row
      BY <2>1, <2>3, RowExcept
    <2> QED BY <2>4
  <1>2. rows' \in [Id -> Row \cup {NoRow}]
    BY <1>1, TypeParts DEF Tick, Present
  <1> DEFINE D == {i \in Present : rows[i].age >= Timeout}
  <1>3. D \in SUBSET Id
    BY DEF Present
  <1>4. Disturbed(D)
    BY DEF Tick
  <1> HIDE DEF D
  <1>5. /\ calm' \in [Id -> 0 .. 2]
        /\ worker' \in [Worker -> Request]
        /\ \A v \in Worker : Whole(worker'[v])
    BY <1>3, <1>4, ForgottenType
  <1> QED BY <1>2, <1>5, TypeFrame, TypeParts DEF Tick

\* The row that a receiver or a manager writes.
LEMMA OperatedType ==
  ASSUME TypeInv, NEW i \in Id, Operates(i)
  PROVE  rows' \in [Id -> Row \cup {NoRow}]
  <1>1. PICK r \in Row \cup {NoRow} : SetRow(i, r)
    <2>1. i \in Present /\ rows[i] \in Row
      BY TypeParts DEF Operates, Provision, ProvisionEnds, ProvisionFails,
        ResetToDiscover, RemoveNode
    <2>2. rows[i].ip \in Address
      BY <2>1 DEF Row
    <2>3. CASE Provision(i)
      BY <2>1, <2>3, RowExcept DEF Provision, Statuses
    <2>4. CASE ProvisionEnds(i)
      <3> DEFINE x == rows[i].ip
                 q == [rows[i] EXCEPT !.status = "provisioned"]
                 r == [q EXCEPT !.power_ip = x]
      <3>1. q \in Row
        BY <2>1, RowExcept DEF Statuses
      <3> HIDE DEF q
      <3>2. r \in Row
        BY <2>2, <3>1, RowExcept
      <3>3. SetRow(i, r)
        BY <2>4 DEF ProvisionEnds, q
      <3> QED BY <3>2, <3>3
    <2>5. CASE ProvisionFails(i)
      BY <2>1, <2>5, RowExcept DEF ProvisionFails, Statuses
    <2>6. CASE ResetToDiscover(i)
      <3> DEFINE q == [rows[i] EXCEPT !.status = "discover"]
                 r == [q EXCEPT !.online = FALSE]
      <3>1. q \in Row
        BY <2>1, RowExcept DEF Statuses
      <3> HIDE DEF q
      <3>2. r \in Row
        BY <3>1, RowExcept
      <3>3. SetRow(i, r)
        BY <2>6 DEF ResetToDiscover, q
      <3> QED BY <3>2, <3>3
    <2>7. CASE RemoveNode(i)
      BY <2>7 DEF RemoveNode
    <2> QED BY <2>3, <2>4, <2>5, <2>6, <2>7 DEF Operates
  <1> QED BY <1>1, TypeParts DEF SetRow

LEMMA TypeOperates ==
  ASSUME TypeInv, NEW i \in Id, Operates(i) PROVE TypeInv'
  <1>1. UNCHANGED <<mode, lease, uid, early>>
    BY DEF Operates, Provision, ProvisionEnds, ProvisionFails, ResetToDiscover,
      RemoveNode
  <1>2. UNCHANGED <<worker, calm>> \/ Disturbed({i})
    BY DEF Operates, Provision, ProvisionEnds, ProvisionFails, ResetToDiscover,
      RemoveNode
  <1>3. {i} \in SUBSET Id
    OBVIOUS
  <1>4. /\ calm' \in [Id -> 0 .. 2]
        /\ worker' \in [Worker -> Request]
        /\ \A v \in Worker : Whole(worker'[v])
    BY <1>2, <1>3, ForgottenType, TypeParts
  <1> QED BY <1>1, <1>4, OperatedType, TypeFrame, TypeParts

LEMMA TypeMachines ==
  ASSUME TypeInv, NEW m \in Machine, Boots(m) \/ PowerOff(m) \/ LeaseEnds(m)
  PROVE  TypeInv'
  <1>1. rows' = rows /\ calm' = calm
    BY DEF Boots, PowerOff, LeaseEnds
  <1>2. worker' = worker \/ worker' = Abandoned(m)
    BY DEF Boots, PowerOff, LeaseEnds
  <1>3. worker' \in [Worker -> Request] /\ \A v \in Worker : Whole(worker'[v])
    BY <1>2, ForgottenType, TypeParts
  <1>4. uid' \in [Machine -> Id \cup {NoId}]
    BY TypeParts DEF Boots, PowerOff, LeaseEnds
  <1>5. /\ mode' \in [Machine -> {"off", "bootstrap", "os"}]
        /\ lease' \in [Machine -> Lease \cup {NoAddress}]
        /\ early' \in BOOLEAN
        /\ BootstrapHasLease'
    <2>1. CASE Boots(m)
      <3>1. Wanted(m) \in {"off", "bootstrap", "os"}
        BY TypeParts DEF Wanted
      <3>2. mode' = [mode EXCEPT ![m] = Wanted(m)] /\ early' = early
        BY <2>1 DEF Boots
      <3>3. /\ lease' \in [Machine -> Lease \cup {NoAddress}]
            /\ \A n \in Machine : n # m => lease'[n] = lease[n]
            /\ Wanted(m) = "bootstrap" => lease'[m] # NoAddress
        BY <2>1, TypeParts, MachineAssumption DEF Boots
      <3>4. BootstrapHasLease
        BY DEF TypeInv
      <3> HIDE DEF Wanted
      <3> QED BY <3>1, <3>2, <3>3, <3>4, TypeParts DEF BootstrapHasLease
    <2>2. CASE PowerOff(m)
      BY <2>2, TypeParts DEF PowerOff, BootstrapHasLease, TypeInv
    <2>3. CASE LeaseEnds(m)
      <3>1. /\ mode' = mode /\ mode[m] # "bootstrap"
            /\ lease' = [lease EXCEPT ![m] = NoAddress]
            /\ early' \in BOOLEAN
        BY <2>3, TypeParts DEF LeaseEnds
      <3> QED BY <3>1, TypeParts DEF BootstrapHasLease, TypeInv
    <2> QED BY <2>1, <2>2, <2>3
  <1> QED BY <1>1, <1>3, <1>4, <1>5, TypeParts
        DEF TypeInv, TypeOK, Whole

LEMMA TypeInit == ASSUME Init PROVE TypeInv
  <1>1. worker \in [Worker -> Request] /\ \A w \in Worker : Whole(worker[w])
    BY IdleType DEF Init
  <1>2. rows \in [Id -> Row \cup {NoRow}] /\ calm \in [Id -> 0 .. 2]
    BY DEF Init
  <1>3. /\ mode \in [Machine -> {"off", "bootstrap", "os"}]
        /\ lease \in [Machine -> Lease \cup {NoAddress}]
        /\ early \in BOOLEAN
    BY DEF Init
  <1>4. uid \in [Machine -> Id \cup {NoId}]
    BY DEF Init
  <1>5. BootstrapHasLease
    BY DEF Init, BootstrapHasLease
  <1> QED BY <1>1, <1>2, <1>3, <1>4, <1>5 DEF TypeInv, TypeOK

LEMMA TypeStep == ASSUME TypeInv, [Next]_vars PROVE TypeInv'
  <1>1. ASSUME NEW w \in Worker, Serves(w) PROVE TypeInv'
    BY <1>1, TypePostValidates, TypeFindsByAddress, TypeFindsByMac,
      TypeDeletesConflicts, TypeCreates, TypeReads, TypeUpdates DEF Serves
  <1>2. CASE UNCHANGED vars
    BY <1>2, TypeFrame, TypeParts DEF vars
  <1> QED BY <1>1, <1>2, TypeMachines, TypeAgentRuns, TypeAgentGivesUp,
        TypeOperates, TypeUpdateNodesStatus, TypeTick DEF Next

\* The type invariant holds of every behaviour, for every number of machines,
\* workers and rows (NodeInventory's TypeOK).
THEOREM TypeCorrect == Spec => []TypeOK
  <1>1. Init => TypeInv
    BY TypeInit
  <1>2. TypeInv /\ [Next]_vars => TypeInv'
    BY TypeStep
  <1>3. TypeInv => TypeOK
    BY DEF TypeInv
  <1> QED BY <1>1, <1>2, <1>3, PTL DEF Spec

------------------------------------------------------------------------------
(***************************************************************************)
(* What steps leave of requests and rows.                                  *)
(***************************************************************************)

Kept(q, r) ==
  /\ q.from = r.from /\ q.data = r.data /\ q.row = r.row
  /\ q.seen = r.seen /\ q.next = r.next

\* The forms in which the actions write requests.
AtStage(r, x) == [r EXCEPT !.stage = x]
Found(r, y) == [r EXCEPT !.stage = "read", !.mac = y]
FoundByMac(r, y) == [r EXCEPT !.stage = "read", !.mac = y, !.moved = TRUE]
HasRead(r, x, y, z) ==
  [r EXCEPT !.stage = "update", !.row = x, !.seen = y, !.next = z]
Unwaited(r) == [r EXCEPT !.live = FALSE]
Uncounted(r) == [r EXCEPT !.next = FALSE]

LEMMA RequestKept ==
  ASSUME NEW r \in Request
  PROVE  /\ \A x : /\ Kept(AtStage(r, x), r)
                  /\ AtStage(r, x).mac = r.mac /\ AtStage(r, x).moved = r.moved
                  /\ AtStage(r, x).stage = x
         /\ \A y : /\ Kept(Found(r, y), r)
                  /\ Found(r, y).mac = y /\ Found(r, y).moved = r.moved
                  /\ Found(r, y).stage = "read"
         /\ \A y : /\ Kept(FoundByMac(r, y), r)
                  /\ FoundByMac(r, y).mac = y /\ FoundByMac(r, y).moved
                  /\ FoundByMac(r, y).stage = "read"
         /\ \A x, y, z : /\ HasRead(r, x, y, z).from = r.from
                         /\ HasRead(r, x, y, z).data = r.data
                         /\ HasRead(r, x, y, z).mac = r.mac
                         /\ HasRead(r, x, y, z).moved = r.moved
                         /\ HasRead(r, x, y, z).stage = "update"
                         /\ HasRead(r, x, y, z).row = x
                         /\ HasRead(r, x, y, z).seen = y
                         /\ HasRead(r, x, y, z).next = z
         /\ /\ Kept(Unwaited(r), r) /\ Unwaited(r).mac = r.mac
            /\ Unwaited(r).moved = r.moved /\ Unwaited(r).stage = r.stage
         /\ /\ Uncounted(r).from = r.from /\ Uncounted(r).data = r.data
            /\ Uncounted(r).mac = r.mac /\ Uncounted(r).moved = r.moved
            /\ Uncounted(r).stage = r.stage /\ Uncounted(r).row = r.row
            /\ Uncounted(r).seen = r.seen /\ ~Uncounted(r).next
  <1> DEFINE G == {"idle", "post", "put", "by_mac", "read", "update",
                   "clear", "insert"}
             T == {"post", "put"}
             F == Machine \cup {NoMachine}
             D == Report \cup {NoReport}
             M == Mac \cup {NoMachine}
             I == Id \cup {NoId}
             S == Row \cup {NoRow}
  <1>1. Request = [stage : G, method : T, from : F, data : D, live : BOOLEAN,
                   first : BOOLEAN, mac : M, moved : BOOLEAN, row : I,
                   seen : S, next : BOOLEAN]
    BY DEF Request
  <1> HIDE DEF G, T, F, D, M, I, S
  <1>2. ASSUME NEW x
        PROVE  /\ Kept(AtStage(r, x), r)
               /\ AtStage(r, x).mac = r.mac /\ AtStage(r, x).moved = r.moved
               /\ AtStage(r, x).stage = x
    BY <1>1 DEF Kept, AtStage
  <1>3. ASSUME NEW y
        PROVE  /\ Kept(Found(r, y), r)
               /\ Found(r, y).mac = y /\ Found(r, y).moved = r.moved
               /\ Found(r, y).stage = "read"
    BY <1>1 DEF Kept, Found
  <1>4. ASSUME NEW y
        PROVE  /\ Kept(FoundByMac(r, y), r)
               /\ FoundByMac(r, y).mac = y /\ FoundByMac(r, y).moved
               /\ FoundByMac(r, y).stage = "read"
    BY <1>1 DEF Kept, FoundByMac
  <1>5. ASSUME NEW x, NEW y, NEW z
        PROVE  /\ HasRead(r, x, y, z).from = r.from
               /\ HasRead(r, x, y, z).data = r.data
               /\ HasRead(r, x, y, z).mac = r.mac
               /\ HasRead(r, x, y, z).moved = r.moved
               /\ HasRead(r, x, y, z).stage = "update"
               /\ HasRead(r, x, y, z).row = x
               /\ HasRead(r, x, y, z).seen = y
               /\ HasRead(r, x, y, z).next = z
    BY <1>1 DEF HasRead
  <1>6. /\ Kept(Unwaited(r), r) /\ Unwaited(r).mac = r.mac
        /\ Unwaited(r).moved = r.moved /\ Unwaited(r).stage = r.stage
    BY <1>1 DEF Kept, Unwaited
  <1>7. /\ Uncounted(r).from = r.from /\ Uncounted(r).data = r.data
        /\ Uncounted(r).mac = r.mac /\ Uncounted(r).moved = r.moved
        /\ Uncounted(r).stage = r.stage /\ Uncounted(r).row = r.row
        /\ Uncounted(r).seen = r.seen /\ ~Uncounted(r).next
    BY <1>1 DEF Uncounted
  <1> QED BY <1>2, <1>3, <1>4, <1>5, <1>6, <1>7

\* The forms in which the receivers and the assassin write rows.
WithStatus(r, x) == [r EXCEPT !.status = x]
Installed(r, x, y) == [r EXCEPT !.status = x, !.power_ip = y]
Overdue(r) == [r EXCEPT !.online = FALSE]
Aged(r, x) == [r EXCEPT !.age = x]
Discovered(r) == [r EXCEPT !.status = "discover", !.online = FALSE]

Named(q, r) == q.mac = r.mac /\ q.ip = r.ip /\ q.known = r.known

LEMMA RowKept ==
  ASSUME NEW r \in Row
  PROVE  /\ \A x : /\ Named(WithStatus(r, x), r) /\ WithStatus(r, x).status = x
                  /\ WithStatus(r, x).power_ip = r.power_ip
                  /\ WithStatus(r, x).online = r.online
                  /\ WithStatus(r, x).age = r.age
         /\ \A x, y : /\ Named(Installed(r, x, y), r)
                     /\ Installed(r, x, y).status = x
                     /\ Installed(r, x, y).power_ip = y
                     /\ Installed(r, x, y).online = r.online
                     /\ Installed(r, x, y).age = r.age
         /\ /\ Named(Overdue(r), r) /\ Overdue(r).status = r.status
            /\ Overdue(r).power_ip = r.power_ip
         /\ \A x : /\ Named(Aged(r, x), r) /\ Aged(r, x).status = r.status
                  /\ Aged(r, x).power_ip = r.power_ip
         /\ /\ Named(Discovered(r), r) /\ Discovered(r).status = "discover"
            /\ Discovered(r).power_ip = r.power_ip
  <1> DEFINE M == Mac  A == Address  S == Statuses  T == 0 .. Timeout + 1
             R == Report
  <1>1. r \in [mac : M, ip : A, power_ip : A, known : BOOLEAN, status : S,
               online : BOOLEAN, age : T, agent_checksum : R]
    BY DEF Row
  <1> HIDE DEF M, A, S, T, R
  <1>2. ASSUME NEW x
        PROVE  /\ Named(WithStatus(r, x), r) /\ WithStatus(r, x).status = x
               /\ WithStatus(r, x).power_ip = r.power_ip
               /\ WithStatus(r, x).online = r.online
               /\ WithStatus(r, x).age = r.age
    BY <1>1 DEF Named, WithStatus
  <1>3. ASSUME NEW x, NEW y
        PROVE  /\ Named(Installed(r, x, y), r)
               /\ Installed(r, x, y).status = x
               /\ Installed(r, x, y).power_ip = y
               /\ Installed(r, x, y).online = r.online
               /\ Installed(r, x, y).age = r.age
    BY <1>1 DEF Named, Installed
  <1>4. /\ Named(Overdue(r), r) /\ Overdue(r).status = r.status
        /\ Overdue(r).power_ip = r.power_ip
    BY <1>1 DEF Named, Overdue
  <1>5. ASSUME NEW x
        PROVE  /\ Named(Aged(r, x), r) /\ Aged(r, x).status = r.status
               /\ Aged(r, x).power_ip = r.power_ip
    BY <1>1 DEF Named, Aged
  <1>6. /\ Named(Discovered(r), r) /\ Discovered(r).status = "discover"
        /\ Discovered(r).power_ip = r.power_ip
    BY <1>1 DEF Named, Discovered
  <1> QED BY <1>2, <1>3, <1>4, <1>5, <1>6

\* What a report changes of a row.
Changed(q, r, s, d, moved) ==
  /\ Named(q, r)
  /\ q.age = 0
  /\ q.online = IF s.online THEN r.online ELSE TRUE
  /\ \/ q.status = r.status /\ q.power_ip = r.power_ip
     \/ /\ q.status = ReportedStatus(r, s, d)
        /\ q.power_ip = r.power_ip \/ (moved /\ q.power_ip = d.ip)

LEMMA ReportedFields ==
  ASSUME NEW r \in Row, NEW s \in Row, NEW d \in Report, NEW moved \in BOOLEAN
  PROVE  Changed(Reported(r, s, d, moved), r, s, d, moved)
  <1> DEFINE M == Mac  A == Address  S == Statuses  T == 0 .. Timeout + 1
             R == Report
             t == ReportedStatus(r, s, d)
             p == IF moved /\ s.power_ip # d.ip THEN d.ip ELSE r.power_ip
             o == IF s.online THEN r.online ELSE TRUE
             u == [r EXCEPT !.age = 0, !.online = o]
             q == Reported(r, s, d, moved)
  <1>1. r \in [mac : M, ip : A, power_ip : A, known : BOOLEAN, status : S,
               online : BOOLEAN, age : T, agent_checksum : R]
    BY DEF Row
  <1>0. u \in [mac : M, ip : A, power_ip : A, known : BOOLEAN, status : S,
               online : BOOLEAN, age : T, agent_checksum : R]
    BY StampedType DEF Stamped, Row
  <1>2. q = IF s.agent_checksum = d THEN u
            ELSE [u EXCEPT !.status = t, !.power_ip = p, !.agent_checksum = d]
    BY DEF Reported, Stamped
  <1> HIDE DEF M, A, S, T, R, t, p, o, q
  <1>3. /\ u.mac = r.mac /\ u.ip = r.ip /\ u.known = r.known
        /\ u.age = 0 /\ u.online = o
        /\ u.status = r.status /\ u.power_ip = r.power_ip
    BY <1>1
  <1>4. CASE s.agent_checksum = d
    BY <1>2, <1>3, <1>4 DEF o, q, Named, Changed
  <1> HIDE DEF u
  <1>5. CASE s.agent_checksum # d
    <2>1. q = [u EXCEPT !.status = t, !.power_ip = p, !.agent_checksum = d]
      BY <1>2, <1>5
    <2>2. /\ q.mac = u.mac /\ q.ip = u.ip /\ q.known = u.known
          /\ q.age = u.age /\ q.online = u.online
      BY <1>0, <2>1
    <2>3. q.status = t /\ q.power_ip = p
      BY <1>0, <2>1
    <2> QED BY <1>3, <2>2, <2>3 DEF o, p, t, q, Named, Changed
  <1> QED BY <1>4, <1>5

LEMMA OperatedForms ==
  ASSUME TypeInv, NEW i \in Id, Operates(i)
  PROVE  /\ i \in Present
         /\ \A j \in Id : j # i => rows'[j] = rows[j]
         /\ Provision(i) => rows'[i] = WithStatus(rows[i], "provisioning")
         /\ ProvisionEnds(i) =>
              rows'[i] = Installed(rows[i], "provisioned", rows[i].ip)
         /\ ProvisionFails(i) => rows'[i] = WithStatus(rows[i], "error")
         /\ ResetToDiscover(i) => rows'[i] = Discovered(rows[i])
         /\ RemoveNode(i) => rows'[i] = NoRow
  <1>1. i \in Present
    BY DEF Operates, Provision, ProvisionEnds, ProvisionFails, ResetToDiscover,
      RemoveNode
  <1>2. \E r : SetRow(i, r)
    BY DEF Operates, Provision, ProvisionEnds, ProvisionFails, ResetToDiscover,
      RemoveNode
  <1>3. \A j \in Id : j # i => rows'[j] = rows[j]
    BY <1>2, TypeParts DEF SetRow
  <1>4. \A r : SetRow(i, r) => rows'[i] = r
    BY TypeParts DEF SetRow
  <1>5. Provision(i) => rows'[i] = WithStatus(rows[i], "provisioning")
    BY <1>4 DEF Provision, WithStatus
  <1>6. ProvisionEnds(i) =>
          rows'[i] = Installed(rows[i], "provisioned", rows[i].ip)
    BY <1>4 DEF ProvisionEnds, Installed
  <1>7. ProvisionFails(i) => rows'[i] = WithStatus(rows[i], "error")
    BY <1>4 DEF ProvisionFails, WithStatus
  <1>8. ResetToDiscover(i) => rows'[i] = Discovered(rows[i])
    BY <1>4 DEF ResetToDiscover, Discovered
  <1>9. RemoveNode(i) => rows'[i] = NoRow
    BY <1>4 DEF RemoveNode
  <1> QED BY <1>1, <1>3, <1>5, <1>6, <1>7, <1>8, <1>9

\* What a request becomes when it is answered.
Ended(q, r) ==
  \/ q = Idle
  \/ \E x \in {"post", "put"} : q = Sent(r.from, x, r.data, FALSE)

\* What the worker's steps make of its request.
LEMMA WorkerForms ==
  ASSUME TypeInv, NEW w \in Worker
  PROVE  /\ \A v \in Worker : Serves(w) /\ v # w => worker'[v] = worker[v]
         /\ PostValidates(w) => \/ Ended(worker'[w], worker[w])
                               \/ worker'[w] = AtStage(worker[w], "clear")
         /\ FindsByAddress(w) =>
              \/ worker'[w] = AtStage(worker[w], "by_mac")
              \/ \E i \in ByIp(worker[w].data.ip) \cup ByPowerIp(worker[w].data.ip) :
                   worker'[w] = Found(worker[w], rows[i].mac)
         /\ FindsByMac(w) =>
              \/ worker'[w] = AtStage(worker[w], "clear")
              \/ worker'[w] = FoundByMac(worker[w], worker[w].data.mac)
         /\ DeletesConflicts(w) => worker'[w] = AtStage(worker[w], "insert")
         /\ Creates(w) => Ended(worker'[w], worker[w])
         /\ Reads(w) =>
              \/ Ended(worker'[w], worker[w])
              \/ \E i \in ByMac(worker[w].mac) :
                   worker'[w] = HasRead(worker[w], i, rows[i], calm[i] > 0)
         /\ Updates(w) => Ended(worker'[w], worker[w])
  <1>1. worker \in [Worker -> Request]
    BY TypeParts
  <1>2. /\ AnswerNothing(w) => Ended(worker'[w], worker[w])
        /\ \A i : AnswerId(w, i) => Ended(worker'[w], worker[w])
        /\ \A x \in {"post", "put"} :
             AnswerRefusal(w, x) => Ended(worker'[w], worker[w])
    BY <1>1 DEF AnswerNothing, AnswerId, AnswerRefusal, Ended
  <1>3. \A v \in Worker : v # w =>
          /\ AnswerNothing(w) => worker'[v] = worker[v]
          /\ \A i : AnswerId(w, i) => worker'[v] = worker[v]
          /\ \A x : AnswerRefusal(w, x) => worker'[v] = worker[v]
    BY <1>1 DEF AnswerNothing, AnswerId, AnswerRefusal
  <1>4. /\ PostValidates(w) => \/ Ended(worker'[w], worker[w])
                               \/ worker'[w] = AtStage(worker[w], "clear")
        /\ \A v \in Worker : PostValidates(w) /\ v # w => worker'[v] = worker[v]
    BY <1>1, <1>2, <1>3 DEF PostValidates, AtStage
  <1>5. /\ FindsByAddress(w) =>
             \/ worker'[w] = AtStage(worker[w], "by_mac")
             \/ \E i \in ByIp(worker[w].data.ip) \cup ByPowerIp(worker[w].data.ip) :
                  worker'[w] = Found(worker[w], rows[i].mac)
        /\ \A v \in Worker : FindsByAddress(w) /\ v # w => worker'[v] = worker[v]
    <2> SUFFICES ASSUME FindsByAddress(w)
                 PROVE  /\ \/ worker'[w] = AtStage(worker[w], "by_mac")
                           \/ \E i \in ByIp(worker[w].data.ip)
                                     \cup ByPowerIp(worker[w].data.ip) :
                                worker'[w] = Found(worker[w], rows[i].mac)
                        /\ \A v \in Worker : v # w => worker'[v] = worker[v]
      OBVIOUS
    <2>1. CASE worker' = [worker EXCEPT ![w].stage = "by_mac"]
      BY <1>1, <2>1 DEF AtStage
    <2>2. CASE worker' # [worker EXCEPT ![w].stage = "by_mac"]
      <3>1. PICK i \in ByIp(worker[w].data.ip) \cup ByPowerIp(worker[w].data.ip) :
              worker' = [worker EXCEPT ![w].stage = "read", ![w].mac = rows[i].mac]
        BY <2>2 DEF FindsByAddress
      <3>2. worker'[w] = Found(worker[w], rows[i].mac)
        BY <1>1, <3>1 DEF Found
      <3>3. \A v \in Worker : v # w => worker'[v] = worker[v]
        BY <1>1, <3>1
      <3> QED BY <3>2, <3>3
    <2> QED BY <2>1, <2>2
  <1>6. /\ FindsByMac(w) =>
             \/ worker'[w] = AtStage(worker[w], "clear")
             \/ worker'[w] = FoundByMac(worker[w], worker[w].data.mac)
        /\ \A v \in Worker : FindsByMac(w) /\ v # w => worker'[v] = worker[v]
    BY <1>1 DEF FindsByMac, AtStage, FoundByMac
  <1>7. /\ DeletesConflicts(w) => worker'[w] = AtStage(worker[w], "insert")
        /\ \A v \in Worker :
             DeletesConflicts(w) /\ v # w => worker'[v] = worker[v]
    BY <1>1 DEF DeletesConflicts, AtStage
  <1>8. /\ Creates(w) => Ended(worker'[w], worker[w])
        /\ \A v \in Worker : Creates(w) /\ v # w => worker'[v] = worker[v]
    <2>1. Creates(w) => \/ AnswerRefusal(w, "post") \/ AnswerNothing(w)
                        \/ \E i \in Id : AnswerId(w, i)
      BY DEF Creates
    <2> QED BY <1>2, <1>3, <2>1
  <1>9. /\ Reads(w) =>
             \/ Ended(worker'[w], worker[w])
             \/ \E i \in ByMac(worker[w].mac) :
                  worker'[w] = HasRead(worker[w], i, rows[i], calm[i] > 0)
        /\ \A v \in Worker : Reads(w) /\ v # w => worker'[v] = worker[v]
    <2> SUFFICES ASSUME Reads(w)
                 PROVE  /\ \/ Ended(worker'[w], worker[w])
                           \/ \E i \in ByMac(worker[w].mac) :
                                worker'[w] =
                                  HasRead(worker[w], i, rows[i], calm[i] > 0)
                        /\ \A v \in Worker : v # w => worker'[v] = worker[v]
      OBVIOUS
    <2>1. CASE AnswerRefusal(w, "post") \/ AnswerNothing(w)
      BY <1>2, <1>3, <2>1
    <2>2. CASE ~(AnswerRefusal(w, "post") \/ AnswerNothing(w))
      <3>1. PICK i \in ByMac(worker[w].mac) :
              worker' = [worker EXCEPT ![w].stage = "update", ![w].row = i,
                                       ![w].seen = rows[i],
                                       ![w].next = calm[i] > 0]
        BY <2>2 DEF Reads
      <3>2. worker'[w] = HasRead(worker[w], i, rows[i], calm[i] > 0)
        BY <1>1, <3>1 DEF HasRead
      <3>3. \A v \in Worker : v # w => worker'[v] = worker[v]
        BY <1>1, <3>1
      <3> QED BY <3>2, <3>3
    <2> QED BY <2>1, <2>2
  <1>10. /\ Updates(w) => Ended(worker'[w], worker[w])
         /\ \A v \in Worker : Updates(w) /\ v # w => worker'[v] = worker[v]
    <2>1. Updates(w) => AnswerNothing(w) \/ \E i : AnswerId(w, i)
      BY DEF Updates
    <2> QED BY <1>2, <1>3, <2>1
  <1> QED BY <1>4, <1>5, <1>6, <1>7, <1>8, <1>9, <1>10 DEF Serves

------------------------------------------------------------------------------
(***************************************************************************)
(* The invariant for SteadyIsOnline: what the rows and the requests that   *)
(* have read one know of its time and of its being online.                 *)
(***************************************************************************)

CalmIsFresh == \A i \in Present : calm[i] > 0 => rows[i].age <= Timeout

NextIsSeen ==
  \A w \in Worker : worker[w].next =>
    /\ worker[w].row \in Id
    /\ rows[worker[w].row] # NoRow =>
         /\ calm[worker[w].row] > 0
         /\ worker[w].seen.online => rows[worker[w].row].online

SteadyInv == SteadyIsOnline /\ CalmIsFresh /\ NextIsSeen

\* A step that makes nobody count on a row who did not, and changes rows only
\* by deleting them.
LEMMA SteadyFrame ==
  ASSUME TypeInv, SteadyInv, calm' = calm,
         \A i \in Id : rows'[i] = rows[i] \/ rows'[i] = NoRow,
         \A w \in Worker : worker'[w].next =>
           /\ worker[w].next /\ worker'[w].row = worker[w].row
           /\ worker'[w].seen = worker[w].seen
  PROVE  SteadyInv'
  <1>1. SteadyIsOnline' /\ CalmIsFresh'
    BY DEF SteadyInv, SteadyIsOnline, CalmIsFresh, Present
  <1>2. NextIsSeen'
    BY DEF SteadyInv, NextIsSeen
  <1> QED BY <1>1, <1>2 DEF SteadyInv

LEMMA EndedFields ==
  ASSUME NEW q, NEW r, Ended(q, r)
  PROVE  ~q.next /\ q.stage \notin {"read", "update"}
  BY DEF Ended, Idle, Sent

\* A worker's step but for Creates, Reads and Updates.
LEMMA SteadyServes ==
  ASSUME TypeInv, SteadyInv, NEW w \in Worker,
         \/ PostValidates(w) \/ FindsByAddress(w) \/ FindsByMac(w)
         \/ DeletesConflicts(w)
  PROVE  SteadyInv'
  <1>1. calm' = calm /\ \A i \in Id : rows'[i] = rows[i] \/ rows'[i] = NoRow
    BY DEF PostValidates, FindsByAddress, FindsByMac, DeletesConflicts
  <1>2. Ended(worker'[w], worker[w]) \/ Kept(worker'[w], worker[w])
    <2>1. worker[w] \in Request
      BY TypeParts
    <2>2. \/ Ended(worker'[w], worker[w])
          \/ \E x : worker'[w] = AtStage(worker[w], x)
          \/ \E y : worker'[w] = Found(worker[w], y)
          \/ \E y : worker'[w] = FoundByMac(worker[w], y)
      BY WorkerForms
    <2>3. /\ \A x : Kept(AtStage(worker[w], x), worker[w])
          /\ \A y : Kept(Found(worker[w], y), worker[w])
          /\ \A y : Kept(FoundByMac(worker[w], y), worker[w])
      BY <2>1, RequestKept
    <2> QED BY <2>2, <2>3
  <1>3. \A v \in Worker : v # w => worker'[v] = worker[v]
    BY WorkerForms DEF Serves
  <1>4. \A v \in Worker : worker'[v].next =>
          /\ worker[v].next /\ worker'[v].row = worker[v].row
          /\ worker'[v].seen = worker[v].seen
    BY <1>2, <1>3, EndedFields DEF Kept
  <1> QED BY <1>1, <1>4, SteadyFrame

\* The row that is made is new to every worker.
LEMMA SteadyCreates ==
  ASSUME TypeInv, SteadyInv, NEW w \in Worker, Creates(w) PROVE SteadyInv'
  <1>1. Ended(worker'[w], worker[w])
    BY WorkerForms
  <1>2. \A v \in Worker : v # w => worker'[v] = worker[v]
    BY WorkerForms DEF Serves
  <1>3. ~worker'[w].next
    BY <1>1, EndedFields
  <1>4. CASE ByMac(worker[w].data.mac) # {}
    <2>1. calm' = calm /\ rows' = rows
      BY <1>4 DEF Creates
    <2> QED BY <1>2, <1>3, <2>1, SteadyFrame
  <1>5. CASE ByMac(worker[w].data.mac) = {}
    <2>1. PICK i \in Id : /\ NewId(i)
                          /\ rows' = [rows EXCEPT ![i] = Created(worker[w].data)]
                          /\ calm' = [calm EXCEPT ![i] = 0]
      BY <1>5 DEF Creates
    <2>2. i \notin Present /\ \A v \in Worker : worker[v].row # i
      BY <2>1 DEF NewId, Unused
    <2>3. calm'[i] = 0 /\ \A j \in Id : j # i => /\ calm'[j] = calm[j]
                                                 /\ rows'[j] = rows[j]
      BY <2>1, TypeParts
    <2>4. SteadyIsOnline' /\ CalmIsFresh'
      BY <2>3 DEF SteadyInv, SteadyIsOnline, CalmIsFresh, Present
    <2>5. NextIsSeen'
      BY <1>2, <1>3, <2>2, <2>3 DEF SteadyInv, NextIsSeen
    <2> QED BY <2>4, <2>5 DEF SteadyInv
  <1> QED BY <1>4, <1>5

LEMMA SteadyReads ==
  ASSUME TypeInv, SteadyInv, NEW w \in Worker, Reads(w) PROVE SteadyInv'
  <1>1. rows' = rows /\ calm' = calm
    BY DEF Reads
  <1>2. \A v \in Worker : v # w => worker'[v] = worker[v]
    BY WorkerForms DEF Serves
  <1>3. CASE Ended(worker'[w], worker[w])
    BY <1>1, <1>2, <1>3, EndedFields, SteadyFrame
  <1>4. CASE ~Ended(worker'[w], worker[w])
    <2>1. PICK i \in ByMac(worker[w].mac) :
            worker'[w] = HasRead(worker[w], i, rows[i], calm[i] > 0)
      BY <1>4, WorkerForms
    <2>2. /\ worker'[w].row = i /\ worker'[w].seen = rows[i]
          /\ worker'[w].next = (calm[i] > 0)
      BY <2>1, RequestKept, TypeParts
    <2>3. i \in Id
      BY DEF ByMac, Present
    <2>4. NextIsSeen'
      BY <1>1, <1>2, <2>2, <2>3 DEF SteadyInv, NextIsSeen
    <2> QED BY <1>1, <2>4 DEF SteadyInv, SteadyIsOnline, CalmIsFresh, Present
  <1> QED BY <1>3, <1>4

\* A report that counts on its row has seen what the row still is: whether it
\* stamps the row online or finds it so, it is.
LEMMA SteadyUpdates ==
  ASSUME TypeInv, SteadyInv, NEW w \in Worker, Updates(w) PROVE SteadyInv'
  <1> DEFINE i == worker[w].row
             r == Reported(rows[i], worker[w].seen, worker[w].data,
                           worker[w].moved)
             c == IF worker[w].next THEN 2 ELSE IF calm[i] = 0 THEN 1 ELSE calm[i]
  <1>1. /\ worker[w] \in Request /\ worker[w].stage = "update"
        /\ Whole(worker[w])
    BY TypeParts DEF Updates
  <1>2. i \in Id /\ worker[w].seen \in Row /\ worker[w].data \in Report
        /\ worker[w].moved \in BOOLEAN
    BY <1>1 DEF Whole, Request
  <1>3. \A v \in Worker : v # w => worker'[v] = worker[v]
    BY WorkerForms DEF Serves
  <1>4. ~worker'[w].next
    BY WorkerForms, EndedFields
  <1>5. CASE rows[i] = NoRow
    <2>1. calm' = calm /\ rows' = rows
      BY <1>5 DEF Updates
    <2> QED BY <1>3, <1>4, <2>1, SteadyFrame
  <1>6. CASE rows[i] # NoRow
    <2>1. /\ rows' = [rows EXCEPT ![i] = r]
          /\ calm' = [calm EXCEPT ![i] = c]
      BY <1>2, <1>6, TypeParts DEF Updates
    <2>2. rows[i] \in Row
      BY <1>2, <1>6, TypeParts
    <2>3. /\ r.age = 0
          /\ r.online = IF worker[w].seen.online THEN rows[i].online ELSE TRUE
      <3>1. Changed(r, rows[i], worker[w].seen, worker[w].data, worker[w].moved)
        BY <1>2, <2>2, ReportedFields
      <3> QED BY <3>1 DEF Changed
    <2> HIDE DEF r
    <2>4. /\ rows'[i] = r /\ calm'[i] = c
          /\ \A j \in Id : j # i => rows'[j] = rows[j] /\ calm'[j] = calm[j]
      BY <1>2, <2>1, TypeParts
    <2>5. calm[i] \in 0 .. 2
      BY <1>2, TypeParts
    <2>6. c > 0 /\ (c = 2 => worker[w].next \/ calm[i] = 2)
      BY <2>5
    <2>7. /\ calm[i] = 2 => rows[i].online
          /\ worker[w].next /\ worker[w].seen.online => rows[i].online
      BY <1>2, <1>6 DEF SteadyInv, SteadyIsOnline, NextIsSeen, Present
    <2> HIDE DEF c
    <2>8. SteadyIsOnline'
      BY <2>3, <2>4, <2>6, <2>7 DEF SteadyInv, SteadyIsOnline, Present
    <2>9. CalmIsFresh'
      BY <2>3, <2>4, BoundsAssumption DEF SteadyInv, CalmIsFresh, Present
    <2>10. rows[i].online => r.online
      BY <2>3
    <2> HIDE DEF i
    <2>11. NextIsSeen'
      BY <1>3, <1>4, <1>6, <2>4, <2>6, <2>10 DEF SteadyInv, NextIsSeen
    <2> QED BY <2>8, <2>9, <2>11 DEF SteadyInv
  <1> QED BY <1>5, <1>6

\* The assassin leaves alone what is counted on, since it is not overdue.
LEMMA SteadyUpdateNodesStatus ==
  ASSUME TypeInv, SteadyInv, UpdateNodesStatus PROVE SteadyInv'
  <1>1. calm' = calm /\ worker' = worker
    BY DEF UpdateNodesStatus
  <1>2. \A i \in Id : rows[i] = NoRow => rows'[i] = NoRow
    BY DEF UpdateNodesStatus
  <1>3. \A i \in Present : calm[i] > 0 => rows'[i] = rows[i]
    <2> SUFFICES ASSUME NEW i \in Present, calm[i] > 0 PROVE rows'[i] = rows[i]
      OBVIOUS
    <2>1. rows[i].age <= Timeout
      BY DEF SteadyInv, CalmIsFresh
    <2>2. rows[i].age \in Int /\ Timeout \in Int
      BY TypeParts, BoundsAssumption DEF Row
    <2> QED BY <2>1, <2>2 DEF UpdateNodesStatus, Present
  <1>4. SteadyIsOnline' /\ CalmIsFresh'
    <2>1. \A i \in Id : calm[i] = 2 => calm[i] > 0
      OBVIOUS
    <2> QED BY <1>1, <1>2, <1>3, <2>1
          DEF SteadyInv, SteadyIsOnline, CalmIsFresh, Present
  <1>5. NextIsSeen'
    BY <1>1, <1>2, <1>3 DEF SteadyInv, NextIsSeen, Present
  <1> QED BY <1>4, <1>5 DEF SteadyInv

\* Whoever counted on what is disturbed does not any more.
LEMMA SteadyDisturbed ==
  ASSUME TypeInv, SteadyInv, NEW D \in SUBSET Id, Disturbed(D),
         \A i \in Id : rows'[i] # NoRow =>
           \/ i \in D
           \/ /\ rows[i] # NoRow /\ rows'[i].online = rows[i].online
              /\ calm[i] > 0 => rows'[i].age <= Timeout
  PROVE  SteadyInv'
  <1>1. \A i \in Id : calm'[i] = IF i \in D THEN 0 ELSE calm[i]
    BY DEF Disturbed
  <1>2. \A w \in Worker : worker'[w].next =>
          /\ worker[w].row \notin D /\ worker[w].next
          /\ worker'[w] = worker[w]
    <2> SUFFICES ASSUME NEW w \in Worker, worker'[w].next
                 PROVE  /\ worker[w].row \notin D /\ worker[w].next
                        /\ worker'[w] = worker[w]
      OBVIOUS
    <2>1. CASE worker[w].row \in D
      <3>1. worker'[w] = Uncounted(worker[w])
        BY <2>1 DEF Disturbed, Uncounted
      <3> QED BY <3>1, RequestKept, TypeParts
    <2>2. CASE worker[w].row \notin D
      BY <2>2 DEF Disturbed
    <2> QED BY <2>1, <2>2
  <1>3. SteadyIsOnline' /\ CalmIsFresh'
    BY <1>1, TypeParts DEF SteadyInv, SteadyIsOnline, CalmIsFresh, Present
  <1>4. NextIsSeen'
    BY <1>1, <1>2 DEF SteadyInv, NextIsSeen
  <1> QED BY <1>3, <1>4 DEF SteadyInv

LEMMA SteadyTick == ASSUME TypeInv, SteadyInv, Tick PROVE SteadyInv'
  <1> DEFINE D == {i \in Present : rows[i].age >= Timeout}
  <1>1. D \in SUBSET Id /\ Disturbed(D)
    BY DEF Tick, Present
  <1>2. ASSUME NEW i \in Id, rows'[i] # NoRow, i \notin D
        PROVE  /\ rows[i] # NoRow /\ rows'[i].online = rows[i].online
               /\ rows'[i].age <= Timeout
    <2>1. rows[i] # NoRow
      BY <1>2 DEF Tick
    <2>2. rows[i] \in Row
      BY <2>1, TypeParts
    <2>3. rows[i].age \in Int /\ Timeout \in Int /\ rows[i].age < Timeout
      BY <1>2, <2>1, <2>2, BoundsAssumption DEF Row, Present
    <2>4. rows'[i] = [rows[i] EXCEPT !.age = rows[i].age + 1]
      BY <2>1, <2>3 DEF Tick
    <2>5. rows'[i].online = rows[i].online /\ rows'[i].age = rows[i].age + 1
      BY <2>2, <2>4 DEF Row
    <2> QED BY <2>1, <2>3, <2>5
  <1> HIDE DEF D
  <1> QED BY <1>1, <1>2, SteadyDisturbed

LEMMA SteadyOperates ==
  ASSUME TypeInv, SteadyInv, NEW i \in Id, Operates(i) PROVE SteadyInv'
  <1>1. i \in Present /\ rows[i] \in Row
    BY TypeParts DEF Operates, Provision, ProvisionEnds, ProvisionFails,
      ResetToDiscover, RemoveNode
  <1>2. CASE ResetToDiscover(i) \/ RemoveNode(i)
    <2>1. {i} \in SUBSET Id /\ Disturbed({i})
      BY <1>2 DEF ResetToDiscover, RemoveNode
    <2>2. \A j \in Id : j \notin {i} => rows'[j] = rows[j]
      BY <1>2, TypeParts DEF ResetToDiscover, RemoveNode, SetRow
    <2>3. \A j \in Id : rows[j] # NoRow /\ calm[j] > 0 => rows[j].age <= Timeout
      BY DEF SteadyInv, CalmIsFresh, Present
    <2> QED BY <2>1, <2>2, <2>3, SteadyDisturbed
  <1>3. CASE Provision(i) \/ ProvisionEnds(i) \/ ProvisionFails(i)
    <2>1. calm' = calm /\ worker' = worker
      BY <1>3 DEF Provision, ProvisionEnds, ProvisionFails
    <2>2. rows'[i].online = rows[i].online /\ rows'[i].age = rows[i].age
      <3>1. \/ \E x : rows'[i] = WithStatus(rows[i], x)
            \/ \E x, y : rows'[i] = Installed(rows[i], x, y)
        BY <1>3, OperatedForms
      <3> QED BY <1>1, <3>1, RowKept
    <2>3. \A j \in Id : j # i => rows'[j] = rows[j]
      BY OperatedForms
    <2>4. SteadyIsOnline' /\ CalmIsFresh'
      BY <1>1, <2>1, <2>2, <2>3
        DEF SteadyInv, SteadyIsOnline, CalmIsFresh, Present
    <2>5. NextIsSeen'
      BY <1>1, <2>1, <2>2, <2>3 DEF SteadyInv, NextIsSeen, Present
    <2> QED BY <2>4, <2>5 DEF SteadyInv
  <1> QED BY <1>2, <1>3 DEF Operates

\* The agents, their machines and the DHCP server touch no row.
LEMMA SteadyMachines ==
  ASSUME TypeInv, SteadyInv,
         \/ \E m \in Machine : \/ Boots(m) \/ PowerOff(m) \/ LeaseEnds(m)
                               \/ \E w \in Worker : AgentRuns(m, w)
         \/ \E w \in Worker : AgentGivesUp(w)
         \/ UNCHANGED vars
  PROVE  SteadyInv'
  <1>1. rows' = rows /\ calm' = calm
    BY DEF Boots, PowerOff, LeaseEnds, AgentRuns, AgentGivesUp, vars
  <1>2. \A w \in Worker :
          \/ worker'[w] = worker[w]
          \/ worker'[w] = Unwaited(worker[w])
          \/ \E m, x, d : worker'[w] = Sent(m, x, d, TRUE)
    <2>1. ASSUME NEW m \in Machine, Boots(m) \/ PowerOff(m)
          PROVE  \A w \in Worker : worker'[w] \in {worker[w], Unwaited(worker[w])}
      BY <2>1 DEF Boots, PowerOff, Abandoned, Unwaited
    <2>2. ASSUME NEW m \in Machine, NEW v \in Worker, AgentRuns(m, v)
          PROVE  \A w \in Worker : \/ worker'[w] = worker[w]
                                   \/ \E n, x, d : worker'[w] = Sent(n, x, d, TRUE)
      BY <2>2, TypeParts DEF AgentRuns
    <2>3. ASSUME NEW v \in Worker, AgentGivesUp(v)
          PROVE  \A w \in Worker : worker'[w] \in {worker[w], Unwaited(worker[w])}
      BY <2>3, TypeParts DEF AgentGivesUp, Unwaited
    <2>4. ASSUME (\E m \in Machine : LeaseEnds(m)) \/ UNCHANGED vars
          PROVE  worker' = worker
      BY <2>4 DEF LeaseEnds, vars
    <2> QED BY <2>1, <2>2, <2>3, <2>4
  <1>3. \A w \in Worker : worker'[w].next =>
          /\ worker[w].next /\ worker'[w].row = worker[w].row
          /\ worker'[w].seen = worker[w].seen
    <2>1. \A m, x, d : ~Sent(m, x, d, TRUE).next
      BY DEF Sent
    <2>2. \A w \in Worker : Kept(Unwaited(worker[w]), worker[w])
      BY RequestKept, TypeParts
    <2> SUFFICES ASSUME NEW w \in Worker, worker'[w].next
                 PROVE  /\ worker[w].next /\ worker'[w].row = worker[w].row
                        /\ worker'[w].seen = worker[w].seen
      OBVIOUS
    <2>3. ~ \E m, x, d : worker'[w] = Sent(m, x, d, TRUE)
      BY <2>1
    <2>4. worker'[w] = worker[w] \/ Kept(worker'[w], worker[w])
      BY <1>2, <2>2, <2>3
    <2> QED BY <2>4 DEF Kept
  <1> QED BY <1>1, <1>3, SteadyFrame

LEMMA SteadyStep ==
  ASSUME TypeInv, SteadyInv, [Next]_vars PROVE SteadyInv'
  <1>1. ASSUME NEW w \in Worker, Serves(w) PROVE SteadyInv'
    BY <1>1, SteadyServes, SteadyCreates, SteadyReads, SteadyUpdates DEF Serves
  <1> QED BY <1>1, SteadyMachines, SteadyOperates, SteadyUpdateNodesStatus,
        SteadyTick DEF Next

\* A row that was reported twice in a row and was neither overdue nor reset
\* since is online, however the assassin and other requests interleave.
THEOREM SteadyStaysOnline == Spec => []SteadyIsOnline
  <1>1. Init => TypeInv
    BY TypeInit
  <1>2. Init => SteadyInv
    BY DEF Init, SteadyInv, SteadyIsOnline, CalmIsFresh, NextIsSeen, Present, Idle
  <1>3. TypeInv /\ [Next]_vars => TypeInv'
    BY TypeStep
  <1>4. TypeInv /\ SteadyInv /\ [Next]_vars => SteadyInv'
    BY SteadyStep
  <1>5. SteadyInv => SteadyIsOnline
    BY DEF SteadyInv
  <1> QED BY <1>1, <1>2, <1>3, <1>4, <1>5, PTL DEF Spec

------------------------------------------------------------------------------
(***************************************************************************)
(* The invariant for IdentityIsOwn: whose addresses leases, reports and    *)
(* rows have. A row is its MAC's machine's.                                *)
(***************************************************************************)

\* The DHCP server gives an address to one machine.
LeaseIsOwn ==
  \A m, n \in Machine : lease[m] = lease[n] /\ lease[m] # NoAddress => m = n

\* Of a machine m, its own system reports its lease, an installed one its address.
OwnReport(m, d) ==
  \/ d.mac = OwnMac(m) /\ d.ip = lease[m] /\ lease[m] # NoAddress
  \/ d.mac = SystemMac(m) /\ d.ip = Phys[m]

OwnRequest(q) ==
  q.stage # "idle" => q.from \in Machine /\ OwnReport(q.from, q.data)

\* An address of a row is its machine's; in a row of an installed system, and in
\* one of a node that is installed, it is the physical machine's.
OwnRow(r) ==
  /\ r.ip = Phys[r.mac[1]] \/ r.ip = lease[r.mac[1]]
  /\ r.power_ip = Phys[r.mac[1]] \/ r.power_ip = lease[r.mac[1]]
  /\ r.known => r.ip = Phys[r.mac[1]]
  /\ r.status \in {"provisioning", "provisioned"} => r.known
  /\ r.mac[2] \/ r.status = "provisioned"
       => r.ip = Phys[r.mac[1]] /\ r.power_ip = Phys[r.mac[1]]

\* The row a request has found is its machine's; found by the MAC it is the row
\* of the system that reports.
OwnFound(q) ==
  /\ q.stage \in {"read", "update"} => q.mac \in Mac /\ q.mac[1] = q.from
  /\ q.moved => q.stage \in {"read", "update"} /\ q.mac = q.data.mac

\* The row it has read is still that one, and is not installed since, while its
\* machine's bootstrap system reports.
OwnRead(q) ==
  q.stage = "update" =>
    /\ q.row \in Id
    /\ rows[q.row] # NoRow =>
         /\ rows[q.row].mac = q.mac
         /\ rows[q.row].status = "provisioned" =>
              q.seen.status = "provisioned" \/ q.data.mac[2]

UidIsOwn ==
  \A m \in Machine, i \in Present : uid[m] = i => rows[i].mac[1] = m

Own ==
  /\ LeaseIsOwn
  /\ \A i \in Present : OwnRow(rows[i])
  /\ \A w \in Worker : /\ OwnRequest(worker[w]) /\ OwnFound(worker[w])
                       /\ OwnRead(worker[w])
  /\ UidIsOwn

OwnInv == ~early => Own

\* The step leaves the leases, changes rows but to ones that are theirs, installs
\* none, and leaves requests and identities that are the machines' own.
LEMMA OwnFrame ==
  ASSUME TypeInv, Own, lease' = lease,
         \A i \in Id : rows'[i] # NoRow =>
           /\ rows[i] # NoRow /\ rows'[i].mac = rows[i].mac
           /\ OwnRow(rows'[i])
           /\ rows'[i].status = "provisioned" => rows[i].status = "provisioned",
         \A w \in Worker : /\ OwnRequest(worker'[w]) /\ OwnFound(worker'[w])
                           /\ OwnRead(worker'[w]),
         \A m \in Machine, i \in Present : uid'[m] = i => rows[i].mac[1] = m
  PROVE  Own'
  <1>1. LeaseIsOwn'
    BY DEF Own, LeaseIsOwn
  <1>2. \A i \in Present' : OwnRow(rows[i])'
    BY DEF Present, OwnRow
  <1>3. \A w \in Worker : OwnRequest(worker[w])' /\ OwnFound(worker[w])'
    BY DEF OwnRequest, OwnReport, OwnFound
  <1>4. \A w \in Worker : OwnRead(worker[w])'
    BY DEF OwnRead
  <1>5. UidIsOwn'
    BY DEF UidIsOwn, Present
  <1> QED BY <1>1, <1>2, <1>3, <1>4, <1>5 DEF Own

\* What a request needs for being the machine's own.
SameOwn(q, r) ==
  /\ q.from = r.from /\ q.data = r.data /\ q.mac = r.mac /\ q.moved = r.moved
  /\ q.stage = r.stage /\ q.row = r.row /\ q.seen = r.seen

LEMMA OwnSame ==
  ASSUME NEW q, NEW r, SameOwn(q, r), OwnRequest(r), OwnFound(r), OwnRead(r)
  PROVE  OwnRequest(q) /\ OwnFound(q) /\ OwnRead(q)
  BY DEF SameOwn, OwnRequest, OwnFound, OwnRead

LEMMA OwnEnded ==
  ASSUME NEW q, NEW r, Ended(q, r), r.stage # "idle", OwnRequest(r)
  PROVE  OwnRequest(q) /\ OwnFound(q) /\ OwnRead(q)
  <1>1. CASE q = Idle
    BY <1>1 DEF Idle, OwnRequest, OwnFound, OwnRead
  <1>2. CASE q # Idle
    <2>1. PICK x \in {"post", "put"} : q = Sent(r.from, x, r.data, FALSE)
      BY <1>2 DEF Ended
    <2>2. /\ q.from = r.from /\ q.data = r.data /\ ~q.moved
          /\ q.stage \in {"post", "put"}
      BY <2>1 DEF Sent
    <2> QED BY <2>2 DEF OwnRequest, OwnFound, OwnRead
  <1> QED BY <1>1, <1>2

\* A request that goes on to a stage before any row is found.
LEMMA OwnAtStage ==
  ASSUME NEW q, NEW r, Kept(q, r), q.moved = r.moved, r.stage # "idle",
         r.stage \notin {"read", "update"}, OwnRequest(r), OwnFound(r),
         q.stage \in {"by_mac", "clear", "insert"}
  PROVE  OwnRequest(q) /\ OwnFound(q) /\ OwnRead(q)
  BY DEF Kept, OwnRequest, OwnFound, OwnRead

\* The machine at an address of a row's is the row's.
LEMMA FoundIsOwn ==
  ASSUME TypeInv, Own, NEW m \in Machine, NEW d \in Report, OwnReport(m, d),
         NEW i \in ByIp(d.ip) \cup ByPowerIp(d.ip)
  PROVE  rows[i].mac \in Mac /\ rows[i].mac[1] = m
  <1>1. i \in Present /\ (rows[i].ip = d.ip \/ rows[i].power_ip = d.ip)
    BY DEF ByIp, ByPowerIp
  <1>2. rows[i].mac \in Mac
    BY <1>1, TypeParts DEF Row
  <1> DEFINE n == rows[i].mac[1]
  <1>3. n \in Machine
    BY <1>2 DEF Mac
  <1>4. d.ip = Phys[n] \/ d.ip = lease[n]
    BY <1>1 DEF Own, OwnRow
  <1>5. \/ d.ip = Phys[m]
        \/ d.ip = lease[m] /\ lease[m] # NoAddress
    BY DEF OwnReport
  <1>6. lease[m] \in Lease \cup {NoAddress} /\ lease[n] \in Lease \cup {NoAddress}
    BY <1>3, TypeParts
  <1> HIDE DEF n
  <1>7. n = m
    BY <1>3, <1>4, <1>5, <1>6, MachineAssumption DEF Own, LeaseIsOwn
  <1> QED BY <1>2, <1>7 DEF n

\* The parts of Own, of one request or row.
LEMMA OwnParts ==
  ASSUME TypeInv, Own
  PROVE  /\ \A w \in Worker :
              /\ OwnRequest(worker[w]) /\ OwnFound(worker[w])
              /\ OwnRead(worker[w])
         /\ \A i \in Present : OwnRow(rows[i])
         /\ \A m \in Machine, i \in Present : uid[m] = i => rows[i].mac[1] = m
         /\ \A i \in Id : rows[i] # NoRow => i \in Present
  BY DEF Own, UidIsOwn, Present

\* A worker's step that writes no row but deletes some.
LEMMA OwnServes ==
  ASSUME TypeInv, Own, NEW w \in Worker,
         \/ PostValidates(w) \/ FindsByAddress(w) \/ FindsByMac(w)
         \/ DeletesConflicts(w) \/ Reads(w)
  PROVE  Own'
  <1> DEFINE r == worker[w]
             q == worker'[w]
  <1>1. /\ lease' = lease
        /\ \A i \in Id : rows'[i] = rows[i] \/ rows'[i] = NoRow
    BY DEF PostValidates, FindsByAddress, FindsByMac, DeletesConflicts, Reads
  <1>2. uid' = uid
    BY DEF PostValidates, FindsByAddress, FindsByMac, DeletesConflicts, Reads,
      AnswerRefusal, AnswerNothing
  <1>3. \A v \in Worker : v # w => worker'[v] = worker[v]
    BY WorkerForms DEF Serves
  <1>4. r \in Request /\ Whole(r) /\ OwnRequest(r) /\ OwnFound(r) /\ OwnRead(r)
    BY OwnParts, TypeParts
  <1>5. r.stage # "idle"
    BY DEF PostValidates, FindsByAddress, FindsByMac, DeletesConflicts, Reads
  <1>6. r.from \in Machine /\ r.data \in Report /\ OwnReport(r.from, r.data)
    BY <1>4, <1>5 DEF Whole, OwnRequest
  <1>7. OwnRequest(q) /\ OwnFound(q) /\ OwnRead(q)
    <2>1. CASE Ended(q, r)
      BY <1>4, <1>5, <2>1, OwnEnded
    <2>2. CASE /\ \E x \in {"by_mac", "clear", "insert"} : q = AtStage(r, x)
               /\ r.stage \notin {"read", "update"}
      <3>1. PICK x \in {"by_mac", "clear", "insert"} : q = AtStage(r, x)
        BY <2>2
      <3> HIDE DEF q, r
      <3>2. Kept(q, r) /\ q.moved = r.moved /\ q.stage = x
        BY <1>4, <3>1, RequestKept
      <3> QED BY <1>4, <1>5, <2>2, <3>2, OwnAtStage
    <2>3. CASE FindsByAddress(w) /\ q # AtStage(r, "by_mac")
      <3>1. r.stage = "put"
        BY <2>3 DEF FindsByAddress
      <3>2. PICK i \in ByIp(r.data.ip) \cup ByPowerIp(r.data.ip) :
              q = Found(r, rows[i].mac)
        BY <2>3, WorkerForms
      <3> HIDE DEF q, r
      <3>3. rows[i].mac \in Mac /\ rows[i].mac[1] = r.from
        BY <1>6, FoundIsOwn
      <3>4. /\ Kept(q, r) /\ q.mac = rows[i].mac /\ q.moved = r.moved
            /\ q.stage = "read"
        BY <1>4, <3>2, RequestKept
      <3>5. ~q.moved
        BY <1>4, <3>1, <3>4 DEF OwnFound
      <3> QED BY <1>4, <1>5, <3>3, <3>4, <3>5
            DEF Kept, OwnRequest, OwnFound, OwnRead
    <2>4. CASE q = FoundByMac(r, r.data.mac)
      <3> HIDE DEF q, r
      <3>1. /\ Kept(q, r) /\ q.mac = r.data.mac /\ q.moved
            /\ q.stage = "read"
        BY <1>4, <2>4, RequestKept
      <3>2. r.data.mac \in Mac /\ r.data.mac[1] = r.from
        <4>1. r.data.mac \in Mac
          BY <1>6 DEF Report
        <4>2. OwnMac(r.from)[1] = r.from /\ SystemMac(r.from)[1] = r.from
          BY DEF OwnMac, SystemMac
        <4> QED BY <1>6, <4>1, <4>2 DEF OwnReport
      <3> QED BY <1>4, <1>5, <3>1, <3>2 DEF Kept, OwnRequest, OwnFound, OwnRead
    <2>5. CASE Reads(w) /\ ~Ended(q, r)
      <3>1. r.stage = "read"
        BY <2>5 DEF Reads
      <3>2. PICK i \in ByMac(r.mac) : q = HasRead(r, i, rows[i], calm[i] > 0)
        BY <2>5, WorkerForms
      <3>3. i \in Id /\ rows[i].mac = r.mac
        BY DEF ByMac, Present
      <3> HIDE DEF q, r
      <3>4. /\ q.from = r.from /\ q.data = r.data /\ q.mac = r.mac
            /\ q.moved = r.moved /\ q.stage = "update" /\ q.row = i
            /\ q.seen = rows[i]
        BY <1>4, <3>2, RequestKept
      <3> QED BY <1>4, <1>5, <3>1, <3>3, <3>4
            DEF OwnRequest, OwnFound, OwnRead
    <2> QED BY <2>1, <2>2, <2>3, <2>4, <2>5, WorkerForms
          DEF PostValidates, FindsByAddress, FindsByMac, DeletesConflicts
  <1> HIDE DEF q, r
  <1>8. \A v \in Worker : /\ OwnRequest(worker'[v]) /\ OwnFound(worker'[v])
                          /\ OwnRead(worker'[v])
    BY <1>3, <1>7, OwnParts DEF q
  <1> QED BY <1>1, <1>2, <1>8, OwnFrame, OwnParts

\* A report changes of its machine's row what leaves it its machine's: the row
\* of an installed node is not given the bootstrap system's address, since who
\* has seen it not yet installed is done by then.
LEMMA OwnUpdates ==
  ASSUME TypeInv, Own, NEW w \in Worker, Updates(w) PROVE Own'
  <1> DEFINE q == worker[w]
             i == q.row
             r == rows[i]
             n == Reported(r, q.seen, q.data, q.moved)
  <1>1. /\ q \in Request /\ q.stage = "update" /\ Whole(q)
        /\ OwnRequest(q) /\ OwnFound(q) /\ OwnRead(q)
    BY OwnParts, TypeParts DEF Updates
  <1>2. /\ i \in Id /\ q.seen \in Row /\ q.data \in Report
        /\ q.moved \in BOOLEAN /\ q.from \in Machine /\ OwnReport(q.from, q.data)
    BY <1>1 DEF Whole, Request, OwnRequest
  <1>3. \A v \in Worker : v # w => worker'[v] = worker[v]
    BY WorkerForms DEF Serves
  <1>4. \A v \in Worker : /\ OwnRequest(worker'[v]) /\ OwnFound(worker'[v])
                          /\ OwnRead(worker'[v])
    BY <1>1, <1>3, OwnEnded, OwnParts, WorkerForms
  <1>5. CASE r = NoRow
    <2>1. rows' = rows /\ uid' = uid /\ lease' = lease
      BY <1>5 DEF Updates, AnswerNothing
    <2> QED BY <1>4, <2>1, OwnFrame, OwnParts
  <1>6. CASE r # NoRow
    <2>1. /\ rows' = [rows EXCEPT ![i] = n] /\ lease' = lease
          /\ uid' = uid \/ uid' = [uid EXCEPT ![q.from] = i]
      BY <1>2, <1>6, TypeParts DEF Updates, AnswerId
    <2>2. r \in Row /\ OwnRow(r) /\ i \in Present
      BY <1>2, <1>6, OwnParts, TypeParts
    <2>3. Changed(n, r, q.seen, q.data, q.moved)
      BY <1>2, <2>2, ReportedFields
    <2>4. /\ rows'[i] = n /\ \A j \in Id : j # i => rows'[j] = rows[j]
      BY <1>2, <2>1, TypeParts
    <2>5. /\ r.mac = q.mac /\ r.mac[1] = q.from
          /\ q.moved => r.mac = q.data.mac
          /\ r.status = "provisioned" =>
               q.seen.status = "provisioned" \/ q.data.mac[2]
      BY <1>1, <1>2, <1>6 DEF OwnRead, OwnFound
    <2> HIDE DEF n, r, i, q
    <2>6. /\ n.mac = r.mac /\ n.ip = r.ip /\ n.known = r.known
          /\ n.status \in {r.status, "discover"}
          /\ \/ n.power_ip = r.power_ip
             \/ /\ q.moved /\ n.power_ip = q.data.ip
                /\ n.status = ReportedStatus(r, q.seen, q.data)
      <3>1. ReportedStatus(r, q.seen, q.data) \in {r.status, "discover"}
        BY DEF ReportedStatus
      <3>2. Named(n, r)
        BY <2>3 DEF Changed
      <3>3. \/ n.status = r.status /\ n.power_ip = r.power_ip
            \/ /\ n.status = ReportedStatus(r, q.seen, q.data)
               /\ \/ n.power_ip = r.power_ip
                  \/ q.moved /\ n.power_ip = q.data.ip
        BY <2>3 DEF Changed
      <3> QED BY <3>1, <3>2, <3>3 DEF Named
    <2>7. OwnRow(n)
      <3>1. CASE n.power_ip = r.power_ip
        BY <2>2, <2>6, <3>1 DEF OwnRow
      <3>2. CASE /\ q.moved /\ n.power_ip = q.data.ip
                 /\ n.status = ReportedStatus(r, q.seen, q.data)
        <4>1. /\ n.power_ip = Phys[r.mac[1]] \/ n.power_ip = lease[r.mac[1]]
              /\ r.mac[2] => n.power_ip = Phys[r.mac[1]]
          <5>1. r.mac = q.data.mac /\ r.mac[1] = q.from
            BY <2>5, <3>2
          <5>2. ~OwnMac(q.from)[2]
            BY DEF OwnMac
          <5> QED BY <1>2, <3>2, <5>1, <5>2 DEF OwnReport
        <4>2. ~r.mac[2] => n.status # "provisioned"
          <5> SUFFICES ASSUME ~r.mac[2], n.status = "provisioned" PROVE FALSE
            OBVIOUS
          <5>1. r.status = "provisioned"
            BY <2>6
          <5>2. ~q.data.mac[2] /\ q.seen.status = "provisioned"
            BY <2>5, <3>2, <5>1
          <5> QED BY <3>2, <5>2 DEF ReportedStatus
        <4> QED BY <2>2, <2>6, <4>1, <4>2 DEF OwnRow
      <3> QED BY <2>6, <3>1, <3>2
    <2>8. \A j \in Id : rows'[j] # NoRow =>
            /\ rows[j] # NoRow /\ rows'[j].mac = rows[j].mac
            /\ OwnRow(rows'[j])
            /\ rows'[j].status = "provisioned" => rows[j].status = "provisioned"
      <3>1. \A j \in Id : j # i /\ rows'[j] # NoRow =>
              rows'[j] = rows[j] /\ OwnRow(rows[j])
        BY <2>4, OwnParts
      <3>2. /\ rows[i] # NoRow /\ rows'[i].mac = rows[i].mac
            /\ OwnRow(rows'[i])
            /\ rows'[i].status = "provisioned" => rows[i].status = "provisioned"
        BY <1>6, <2>4, <2>6, <2>7 DEF r
      <3> QED BY <3>1, <3>2
    <2>9. \A m \in Machine, j \in Present : uid'[m] = j => rows[j].mac[1] = m
      <3>1. \A m \in Machine : \/ uid'[m] = uid[m]
                               \/ m = q.from /\ uid'[m] = i
        BY <1>2, <2>1, TypeParts
      <3>2. rows[i].mac[1] = q.from
        BY <2>5 DEF r
      <3> QED BY <3>1, <3>2, OwnParts
    <2> QED BY <1>4, <2>1, <2>8, <2>9, OwnFrame
  <1> QED BY <1>5, <1>6

\* The row that is made is its machine's, and so is its id.
LEMMA OwnCreates ==
  ASSUME TypeInv, Own, NEW w \in Worker, Creates(w) PROVE Own'
  <1> DEFINE q == worker[w]
             d == q.data
             n == Created(d)
  <1>1. /\ q \in Request /\ q.stage = "insert" /\ Whole(q)
        /\ OwnRequest(q) /\ OwnFound(q) /\ OwnRead(q)
    BY OwnParts, TypeParts DEF Creates
  <1>2. d \in Report /\ q.from \in Machine /\ OwnReport(q.from, d)
    BY <1>1 DEF Whole, OwnRequest
  <1>3. \A v \in Worker : v # w => worker'[v] = worker[v]
    BY WorkerForms DEF Serves
  <1>4. \A v \in Worker : /\ OwnRequest(worker'[v]) /\ OwnFound(worker'[v])
                          /\ OwnRead(worker'[v])
    BY <1>1, <1>3, OwnEnded, OwnParts, WorkerForms
  <1>5. lease' = lease
    BY DEF Creates
  <1>6. CASE ByMac(d.mac) # {}
    <2>1. rows' = rows /\ uid' = uid
      BY <1>6 DEF Creates, AnswerNothing, AnswerRefusal
    <2> QED BY <1>4, <1>5, <2>1, OwnFrame, OwnParts
  <1>7. CASE ByMac(d.mac) = {}
    <2>1. PICK i \in Id : /\ NewId(i) /\ rows' = [rows EXCEPT ![i] = n]
                          /\ uid' = uid \/ uid' = [uid EXCEPT ![q.from] = i]
      BY <1>7 DEF Creates, AnswerNothing, AnswerId
    <2>2. /\ i \notin Present
          /\ \A m \in Machine : uid[m] # i
          /\ \A v \in Worker : worker[v].row # i
      BY <2>1 DEF NewId, Unused
    <2>3. /\ rows'[i] = n /\ \A j \in Id : j # i => rows'[j] = rows[j]
      BY <2>1, TypeParts
    <2>4. /\ d.mac = OwnMac(q.from) \/ d.mac = SystemMac(q.from)
          /\ OwnMac(q.from)[1] = q.from /\ SystemMac(q.from)[1] = q.from
          /\ ~OwnMac(q.from)[2] /\ SystemMac(q.from)[2]
      BY <1>2 DEF OwnReport, OwnMac, SystemMac
    <2>5. /\ n.mac = d.mac /\ n.power_ip = d.ip /\ n.status = "discover"
          /\ n.known = (d.mac[1] \in Known /\ ~d.mac[2])
          /\ n.ip = IF n.known THEN Phys[d.mac[1]] ELSE d.ip
      BY DEF Created
    <2>6. \/ ~d.mac[2] /\ d.ip = lease[q.from]
          \/ d.mac[2] /\ d.ip = Phys[q.from]
      BY <1>2, <2>4 DEF OwnReport
    <2> HIDE DEF n, d, q
    <2>7. OwnRow(n) /\ n.mac[1] = q.from
      BY <2>4, <2>5, <2>6 DEF OwnRow
    <2>8. LeaseIsOwn'
      BY <1>5 DEF Own, LeaseIsOwn
    <2>9. \A j \in Present' : OwnRow(rows'[j])
      BY <2>3, <2>7, OwnParts DEF Present
    <2>10. \A j \in Present' : OwnRow(rows[j])'
      BY <1>5, <2>9 DEF OwnRow
    <2>11. \A v \in Worker : OwnRequest(worker[v])' /\ OwnFound(worker[v])'
      BY <1>4, <1>5 DEF OwnRequest, OwnReport, OwnFound
    <2>12. \A v \in Worker : OwnRead(worker[v])'
      <3> SUFFICES ASSUME NEW v \in Worker PROVE OwnRead(worker[v])'
        OBVIOUS
      <3>1. CASE v = w
        <4>1. worker'[w].stage # "update"
          BY EndedFields, WorkerForms
        <4> QED BY <3>1, <4>1 DEF OwnRead
      <3>2. CASE v # w
        <4>1. worker'[v] = worker[v] /\ worker[v].row # i /\ OwnRead(worker[v])
          BY <1>3, <2>2, <3>2, OwnParts
        <4> QED BY <2>3, <4>1 DEF OwnRead
      <3> QED BY <3>1, <3>2
    <2>13. UidIsOwn'
      <3>1. \A m \in Machine : \/ uid'[m] = uid[m] /\ uid[m] # i
                               \/ m = q.from /\ uid'[m] = i
        BY <1>2, <2>1, <2>2, TypeParts
      <3>2. \A j \in Present' : \/ j = i /\ rows'[j].mac[1] = q.from
                                \/ j \in Present /\ rows'[j] = rows[j]
        BY <2>3, <2>7 DEF Present
      <3>3. \A m \in Machine, j \in Present' : uid'[m] = j => rows'[j].mac[1] = m
        BY <2>2, <3>1, <3>2, OwnParts
      <3> QED BY <3>3 DEF UidIsOwn
    <2> QED BY <2>8, <2>10, <2>11, <2>12, <2>13 DEF Own
  <1> QED BY <1>6, <1>7

\* The requests that Disturbed, Abandoned and AgentGivesUp leave.
LEMMA OwnForgotten ==
  ASSUME TypeInv, Own, NEW w \in Worker,
         worker'[w] \in {worker[w], Unwaited(worker[w]), Uncounted(worker[w])}
  PROVE  OwnRequest(worker'[w]) /\ OwnFound(worker'[w]) /\ OwnRead(worker'[w])
  <1>1. worker[w] \in Request
    BY TypeParts
  <1>2. SameOwn(Unwaited(worker[w]), worker[w])
    BY <1>1, RequestKept DEF SameOwn, Kept
  <1>3. SameOwn(Uncounted(worker[w]), worker[w])
    BY <1>1, RequestKept DEF SameOwn
  <1>4. SameOwn(worker[w], worker[w])
    BY DEF SameOwn
  <1>5. SameOwn(worker'[w], worker[w])
    BY <1>2, <1>3, <1>4
  <1> QED BY <1>5, OwnSame, OwnParts

LEMMA DisturbedForms ==
  ASSUME TypeInv, NEW D, Disturbed(D), NEW w \in Worker
  PROVE  worker'[w] \in {worker[w], Uncounted(worker[w])}
  BY DEF Disturbed, Uncounted

LEMMA OwnUpdateNodesStatus ==
  ASSUME TypeInv, Own, UpdateNodesStatus PROVE Own'
  <1>1. worker' = worker /\ uid' = uid /\ lease' = lease
    BY DEF UpdateNodesStatus
  <1>2. ASSUME NEW i \in Id, rows'[i] # NoRow
        PROVE  /\ rows[i] # NoRow /\ rows'[i].mac = rows[i].mac
               /\ OwnRow(rows'[i])
               /\ rows'[i].status = rows[i].status
    <2>1. /\ rows[i] # NoRow
          /\ rows'[i] = rows[i] \/ rows'[i] = Overdue(rows[i])
      BY <1>2 DEF UpdateNodesStatus, Overdue
    <2>2. rows[i] \in Row /\ OwnRow(rows[i])
      BY <2>1, OwnParts, TypeParts
    <2>3. /\ Named(rows'[i], rows[i]) /\ rows'[i].status = rows[i].status
          /\ rows'[i].power_ip = rows[i].power_ip
      BY <2>1, <2>2, RowKept DEF Named
    <2> QED BY <2>1, <2>2, <2>3 DEF Named, OwnRow
  <1>3. \A w \in Worker : /\ OwnRequest(worker'[w]) /\ OwnFound(worker'[w])
                          /\ OwnRead(worker'[w])
    BY <1>1, OwnParts
  <1> QED BY <1>1, <1>2, <1>3, OwnFrame, OwnParts

LEMMA OwnTick == ASSUME TypeInv, Own, Tick PROVE Own'
  <1>1. uid' = uid /\ lease' = lease
    BY DEF Tick
  <1>2. ASSUME NEW i \in Id, rows'[i] # NoRow
        PROVE  /\ rows[i] # NoRow /\ rows'[i].mac = rows[i].mac
               /\ OwnRow(rows'[i])
               /\ rows'[i].status = rows[i].status
    <2>1. /\ rows[i] # NoRow
          /\ rows'[i] = rows[i] \/ rows'[i] = Aged(rows[i], rows[i].age + 1)
      BY <1>2 DEF Tick, Aged
    <2>2. rows[i] \in Row /\ OwnRow(rows[i])
      BY <2>1, OwnParts, TypeParts
    <2>3. /\ Named(rows'[i], rows[i]) /\ rows'[i].status = rows[i].status
          /\ rows'[i].power_ip = rows[i].power_ip
      BY <2>1, <2>2, RowKept DEF Named
    <2> QED BY <2>1, <2>2, <2>3 DEF Named, OwnRow
  <1>3. \A w \in Worker : /\ OwnRequest(worker'[w]) /\ OwnFound(worker'[w])
                          /\ OwnRead(worker'[w])
    <2>1. Disturbed({i \in Present : rows[i].age >= Timeout})
      BY DEF Tick
    <2> QED BY <2>1, DisturbedForms, OwnForgotten
  <1> QED BY <1>1, <1>2, <1>3, OwnFrame, OwnParts

\* A node that is installed is at its own address from then on, and none of its
\* bootstrap system's reports has it in hand.
LEMMA OwnProvisionEnds ==
  ASSUME TypeInv, Own, NEW i \in Id, ProvisionEnds(i) PROVE Own'
  <1> DEFINE r == rows[i]
             n == Installed(r, "provisioned", r.ip)
  <1>1. worker' = worker /\ uid' = uid /\ lease' = lease
    BY DEF ProvisionEnds
  <1>2. i \in Present /\ rows'[i] = n /\ \A j \in Id : j # i => rows'[j] = rows[j]
    BY OperatedForms DEF Operates
  <1>3. r \in Row /\ OwnRow(r) /\ r.status = "provisioning"
    BY <1>2, OwnParts, TypeParts DEF ProvisionEnds
  <1>4. \A w \in Worker :
          worker[w].stage = "update" /\ worker[w].row = i => worker[w].data.mac[2]
    BY DEF ProvisionEnds, Settled
  <1>5. Named(n, r) /\ n.status = "provisioned" /\ n.power_ip = r.ip
    BY <1>3, RowKept
  <1> HIDE DEF n
  <1>6. OwnRow(n)
    BY <1>3, <1>5 DEF OwnRow, Named
  <1>7. \A j \in Present' : OwnRow(rows'[j])
    BY <1>2, <1>6, OwnParts DEF Present
  <1>8. (\A j \in Present : OwnRow(rows[j]))' /\ LeaseIsOwn'
    BY <1>1, <1>7 DEF OwnRow, Own, LeaseIsOwn
  <1>9. \A w \in Worker : OwnRequest(worker[w])' /\ OwnFound(worker[w])'
    BY <1>1, OwnParts DEF OwnRequest, OwnReport, OwnFound
  <1>10. \A w \in Worker : OwnRead(worker[w])'
    <2> SUFFICES ASSUME NEW w \in Worker PROVE OwnRead(worker[w])'
      OBVIOUS
    <2>1. OwnRead(worker[w]) /\ worker'[w] = worker[w]
      BY <1>1, OwnParts
    <2>2. CASE worker[w].row = i
      <3>1. rows[i] # NoRow /\ rows'[i].mac = rows[i].mac
        BY <1>2, <1>5 DEF Present, Named
      <3> QED BY <1>4, <2>1, <2>2, <3>1 DEF OwnRead
    <2>3. CASE worker[w].row # i
      BY <1>2, <2>1, <2>3 DEF OwnRead
    <2> QED BY <2>2, <2>3
  <1>11. UidIsOwn'
    <2>1. \A j \in Present' : j \in Present /\ rows'[j].mac = rows[j].mac
      BY <1>2, <1>5 DEF Present, Named
    <2> QED BY <1>1, <2>1, OwnParts DEF UidIsOwn
  <1> QED BY <1>8, <1>9, <1>10, <1>11 DEF Own

LEMMA OwnOperates ==
  ASSUME TypeInv, Own, NEW i \in Id, Operates(i) PROVE Own'
  <1>1. CASE ProvisionEnds(i)
    BY <1>1, OwnProvisionEnds
  <1>2. CASE \/ Provision(i) \/ ProvisionFails(i) \/ ResetToDiscover(i)
             \/ RemoveNode(i)
    <2>1. uid' = uid /\ lease' = lease /\ (worker' = worker \/ Disturbed({i}))
      BY <1>2 DEF Provision, ProvisionFails, ResetToDiscover, RemoveNode
    <2>2. \A w \in Worker : /\ OwnRequest(worker'[w]) /\ OwnFound(worker'[w])
                            /\ OwnRead(worker'[w])
      BY <2>1, DisturbedForms, OwnForgotten
    <2>3. rows[i] \in Row /\ OwnRow(rows[i]) /\ rows[i] # NoRow
      BY OperatedForms, OwnParts, TypeParts DEF Present
    <2>4. Provision(i) => rows[i].known
      BY DEF Provision
    <2>5. ASSUME rows'[i] # NoRow
          PROVE  /\ Named(rows'[i], rows[i])
                 /\ rows'[i].power_ip = rows[i].power_ip
                 /\ \/ rows'[i].status \in {"error", "discover"}
                    \/ rows'[i].status = "provisioning" /\ rows[i].known
      <3>1. CASE Provision(i)
        BY <2>3, <2>4, <3>1, OperatedForms, RowKept
      <3>2. CASE ProvisionFails(i)
        BY <2>3, <3>2, OperatedForms, RowKept
      <3>3. CASE ResetToDiscover(i)
        BY <2>3, <3>3, OperatedForms, RowKept
      <3>4. CASE RemoveNode(i)
        BY <2>5, <3>4, OperatedForms
      <3> QED BY <1>2, <3>1, <3>2, <3>3, <3>4
    <2>6. rows'[i] # NoRow => /\ rows'[i].mac = rows[i].mac /\ OwnRow(rows'[i])
                              /\ rows'[i].status # "provisioned"
      BY <2>3, <2>5 DEF Named, OwnRow
    <2>7. \A j \in Id : j # i => rows'[j] = rows[j]
      BY OperatedForms
    <2>8. \A j \in Id : rows'[j] # NoRow =>
            /\ rows[j] # NoRow /\ rows'[j].mac = rows[j].mac
            /\ OwnRow(rows'[j])
            /\ rows'[j].status = "provisioned" => rows[j].status = "provisioned"
      BY <2>3, <2>6, <2>7, OwnParts
    <2> QED BY <2>1, <2>2, <2>8, OwnFrame, OwnParts
  <1> QED BY <1>1, <1>2 DEF Operates

\* The agent reports its machine's own addresses.
LEMMA OwnAgentRuns ==
  ASSUME TypeInv, Own, NEW m \in Machine, NEW w \in Worker, AgentRuns(m, w)
  PROVE  Own'
  <1> DEFINE x == IF uid[m] = NoId THEN "post" ELSE "put"
             q == Sent(m, x, Data(m), TRUE)
  <1>1. rows' = rows /\ uid' = uid /\ lease' = lease
    BY DEF AgentRuns
  <1>2. worker'[w] = q /\ \A v \in Worker : v # w => worker'[v] = worker[v]
    BY TypeParts DEF AgentRuns
  <1>3. OwnReport(m, Data(m))
    <2>1. mode[m] = "os" \/ mode[m] = "bootstrap"
      BY TypeParts DEF AgentRuns
    <2>2. mode[m] = "bootstrap" => lease[m] # NoAddress
      BY DEF TypeInv, BootstrapHasLease
    <2> QED BY <2>1, <2>2 DEF Data, OwnReport
  <1>4. /\ q.from = m /\ q.data = Data(m) /\ ~q.moved
        /\ q.stage \in {"post", "put"}
    BY DEF Sent
  <1> HIDE DEF q
  <1>5. OwnRequest(q) /\ OwnFound(q) /\ OwnRead(q)
    BY <1>3, <1>4 DEF OwnRequest, OwnFound, OwnRead
  <1>6. \A v \in Worker : /\ OwnRequest(worker'[v]) /\ OwnFound(worker'[v])
                          /\ OwnRead(worker'[v])
    BY <1>2, <1>5, OwnParts
  <1> QED BY <1>1, <1>6, OwnFrame, OwnParts

LEMMA OwnAgentGivesUp ==
  ASSUME TypeInv, Own, NEW w \in Worker, AgentGivesUp(w) PROVE Own'
  <1>1. rows' = rows /\ uid' = uid /\ lease' = lease
    BY DEF AgentGivesUp
  <1>2. \A v \in Worker : worker'[v] \in {worker[v], Unwaited(worker[v])}
    BY TypeParts DEF AgentGivesUp, Unwaited
  <1> QED BY <1>1, <1>2, OwnForgotten, OwnFrame, OwnParts

LEMMA OwnPowerOff ==
  ASSUME TypeInv, Own, NEW m \in Machine, PowerOff(m) PROVE Own'
  <1>1. rows' = rows /\ lease' = lease
    BY DEF PowerOff
  <1>2. \A n \in Machine : uid'[n] = uid[n] \/ uid'[n] = NoId
    BY TypeParts DEF PowerOff
  <1>3. \A i \in Present : i # NoId
    BY DEF Present, Id, NoId
  <1>4. \A v \in Worker : worker'[v] \in {worker[v], Unwaited(worker[v])}
    BY DEF PowerOff, Abandoned, Unwaited
  <1>5. \A n \in Machine, i \in Present : uid'[n] = i => rows[i].mac[1] = n
    BY <1>2, <1>3, OwnParts
  <1>6. \A w \in Worker : /\ OwnRequest(worker'[w]) /\ OwnFound(worker'[w])
                          /\ OwnRead(worker'[w])
    BY <1>4, OwnForgotten
  <1> QED BY <1>1, <1>5, <1>6, OwnFrame, OwnParts

\* A step that changes leases, but none that a row or a request names.
LEMMA OwnLeases ==
  ASSUME TypeInv, Own, rows' = rows, LeaseIsOwn',
         \A i \in Present : \A x \in {rows[i].ip, rows[i].power_ip} :
           \/ x = Phys[rows[i].mac[1]]
           \/ x = lease[rows[i].mac[1]] /\ x = lease'[rows[i].mac[1]],
         \A w \in Worker : worker[w].stage # "idle" =>
           OwnReport(worker[w].from, worker[w].data)',
         \A w \in Worker : worker'[w] \in {worker[w], Unwaited(worker[w])},
         \A m \in Machine : uid'[m] = uid[m] \/ uid'[m] = NoId
  PROVE  Own'
  <1>1. \A i \in Present' : OwnRow(rows[i])'
    <2> SUFFICES ASSUME NEW i \in Present PROVE OwnRow(rows[i])'
      BY DEF Present
    <2> DEFINE r == rows[i]
    <2>1. OwnRow(r) /\ rows'[i] = r
      BY OwnParts
    <2>2. /\ r.ip = Phys[r.mac[1]] \/ r.ip = lease'[r.mac[1]]
          /\ r.power_ip = Phys[r.mac[1]] \/ r.power_ip = lease'[r.mac[1]]
      OBVIOUS
    <2> HIDE DEF r
    <2> QED BY <2>1, <2>2 DEF OwnRow
  <1>2. \A w \in Worker : /\ OwnRequest(worker'[w]) /\ OwnFound(worker'[w])
                          /\ OwnRead(worker'[w])
    BY OwnForgotten
  <1>3. \A w \in Worker : OwnRequest(worker[w])'
    <2> SUFFICES ASSUME NEW w \in Worker PROVE OwnRequest(worker[w])'
      OBVIOUS
    <2>1. /\ worker'[w].from = worker[w].from
          /\ worker'[w].data = worker[w].data
          /\ worker'[w].stage = worker[w].stage
      <3>1. worker[w] \in Request
        BY TypeParts
      <3>2. Kept(Unwaited(worker[w]), worker[w])
            /\ Unwaited(worker[w]).stage = worker[w].stage
        BY <3>1, RequestKept
      <3>3. worker'[w] = worker[w] \/ worker'[w] = Unwaited(worker[w])
        OBVIOUS
      <3> QED BY <3>2, <3>3 DEF Kept
    <2> QED BY <1>2, <2>1 DEF OwnRequest
  <1>4. \A w \in Worker : OwnFound(worker[w])' /\ OwnRead(worker[w])'
    BY <1>2 DEF OwnFound, OwnRead
  <1>5. UidIsOwn'
    <2>1. \A i \in Present' : i \in Present /\ i # NoId
      BY DEF Present, Id, NoId
    <2> QED BY <2>1, OwnParts DEF UidIsOwn
  <1> QED BY <1>1, <1>3, <1>4, <1>5 DEF Own

\* A machine gets a lease that no other has, and only when it has none.
LEMMA OwnBoots ==
  ASSUME TypeInv, Own, NEW m \in Machine, Boots(m) PROVE Own'
  <1>1. /\ rows' = rows
        /\ \A n \in Machine : uid'[n] = uid[n] \/ uid'[n] = NoId
        /\ \A w \in Worker : worker'[w] \in {worker[w], Unwaited(worker[w])}
    <2>1. \A n \in Machine : uid'[n] = uid[n] \/ uid'[n] = NoId
      BY TypeParts DEF Boots
    <2>2. \A w \in Worker : worker'[w] \in {worker[w], Unwaited(worker[w])}
      BY DEF Boots, Abandoned, Unwaited
    <2> QED BY <2>1, <2>2 DEF Boots
  <1>2. \/ lease' = lease
        \/ /\ lease[m] = NoAddress
           /\ \E x \in Lease : /\ \A n \in Machine : lease[n] # x
                               /\ lease' = [lease EXCEPT ![m] = x]
    BY DEF Boots
  <1>3. \A n \in Machine : lease[n] # NoAddress => lease'[n] = lease[n]
    BY <1>2, TypeParts
  <1>4. LeaseIsOwn'
    BY <1>2, TypeParts DEF Own, LeaseIsOwn
  <1>5. ASSUME NEW i \in Present, NEW x \in {rows[i].ip, rows[i].power_ip}
        PROVE  \/ x = Phys[rows[i].mac[1]]
               \/ x = lease[rows[i].mac[1]] /\ x = lease'[rows[i].mac[1]]
    <2>1. rows[i] \in Row
      BY TypeParts
    <2>2. x \in Address /\ rows[i].mac \in Mac
      BY <2>1 DEF Row
    <2>3. x # NoAddress /\ rows[i].mac[1] \in Machine
      BY <2>2, MachineAssumption DEF Address, Mac
    <2>4. x = Phys[rows[i].mac[1]] \/ x = lease[rows[i].mac[1]]
      BY OwnParts DEF OwnRow
    <2> QED BY <1>3, <2>3, <2>4
  <1>6. ASSUME NEW w \in Worker, worker[w].stage # "idle"
        PROVE  OwnReport(worker[w].from, worker[w].data)'
    <2>1. /\ worker[w].from \in Machine
          /\ OwnReport(worker[w].from, worker[w].data)
      BY <1>6, OwnParts DEF OwnRequest
    <2> QED BY <1>1, <1>3, <2>1, RequestKept, TypeParts DEF OwnReport, Kept
  <1> QED BY <1>1, <1>4, <1>5, <1>6, OwnLeases

\* A lease that ends is one that, unless it ends early, no row names any more.
LEMMA OwnLeaseEnds ==
  ASSUME TypeInv, Own, NEW m \in Machine, LeaseEnds(m), ~early' PROVE Own'
  <1>1. /\ rows' = rows /\ worker' = worker /\ uid' = uid
        /\ lease' = [lease EXCEPT ![m] = NoAddress] /\ lease[m] # NoAddress
        /\ \A w \in Worker : worker[w].stage # "idle" => worker[w].data.ip # lease[m]
        /\ \A i \in ByMac(OwnMac(m)) : rows[i].status = "provisioned"
    BY DEF LeaseEnds
  <1>2. \A n \in Machine : n # m => lease'[n] = lease[n]
    BY <1>1, TypeParts
  <1>3. LeaseIsOwn'
    BY <1>1, TypeParts DEF Own, LeaseIsOwn
  <1>4. ASSUME NEW i \in Present, NEW x \in {rows[i].ip, rows[i].power_ip}
        PROVE  \/ x = Phys[rows[i].mac[1]]
               \/ x = lease[rows[i].mac[1]] /\ x = lease'[rows[i].mac[1]]
    <2>1. rows[i] \in Row /\ OwnRow(rows[i])
      BY OwnParts, TypeParts
    <2>2. rows[i].mac \in Machine \X BOOLEAN
      BY <2>1 DEF Row, Mac
    <2>3. CASE rows[i].mac[1] # m
      <3>1. lease'[rows[i].mac[1]] = lease[rows[i].mac[1]]
        BY <1>2, <2>2, <2>3
      <3> QED BY <2>1, <3>1 DEF OwnRow
    <2>4. CASE rows[i].mac[1] = m
      <3>1. rows[i].mac = OwnMac(m) \/ rows[i].mac[2]
        <4>1. PICK n \in Machine, b \in BOOLEAN : rows[i].mac = <<n, b>>
          BY <2>2
        <4>2. rows[i].mac[1] = n /\ rows[i].mac[2] = b
          BY <4>1
        <4>3. n = m
          BY <2>4, <4>2
        <4>4. CASE b = TRUE
          BY <4>2, <4>4
        <4>5. CASE b = FALSE
          <5>1. rows[i].mac = <<m, FALSE>>
            BY <4>1, <4>3, <4>5
          <5> QED BY <5>1 DEF OwnMac
        <4> QED BY <4>4, <4>5
      <3>2. rows[i].mac[2] \/ rows[i].status = "provisioned"
        BY <1>1, <3>1 DEF ByMac
      <3> QED BY <2>1, <3>2 DEF OwnRow
    <2> QED BY <2>3, <2>4
  <1>5. ASSUME NEW w \in Worker, worker[w].stage # "idle"
        PROVE  OwnReport(worker[w].from, worker[w].data)'
    <2>1. /\ worker[w].from \in Machine
          /\ OwnReport(worker[w].from, worker[w].data)
          /\ worker[w].data.ip # lease[m]
      BY <1>1, <1>5, OwnParts DEF OwnRequest
    <2> QED BY <1>1, <1>2, <2>1 DEF OwnReport
  <1> QED BY <1>1, <1>3, <1>4, <1>5, OwnLeases

LEMMA OwnStep ==
  ASSUME TypeInv, OwnInv, [Next]_vars PROVE OwnInv'
  <1> SUFFICES ASSUME ~early' PROVE Own'
    BY DEF OwnInv
  <1>1. ~early
    BY TypeParts DEF Next, vars, Boots, PowerOff, LeaseEnds, AgentRuns,
      AgentGivesUp, Serves, PostValidates, FindsByAddress, FindsByMac,
      DeletesConflicts, Creates, Reads, Updates, Operates, Provision,
      ProvisionEnds, ProvisionFails, ResetToDiscover, RemoveNode,
      UpdateNodesStatus, Tick
  <1>2. Own
    BY <1>1 DEF OwnInv
  <1>3. CASE UNCHANGED vars
    <2>1. rows' = rows /\ lease' = lease /\ uid' = uid /\ worker' = worker
      BY <1>3 DEF vars
    <2> QED BY <1>2, <2>1, OwnFrame, OwnParts
  <1>4. ASSUME NEW m \in Machine, Boots(m) \/ PowerOff(m) \/ LeaseEnds(m)
        PROVE  Own'
    BY <1>2, <1>4, OwnBoots, OwnPowerOff, OwnLeaseEnds
  <1>5. ASSUME NEW m \in Machine, NEW w \in Worker, AgentRuns(m, w) PROVE Own'
    BY <1>2, <1>5, OwnAgentRuns
  <1>6. ASSUME NEW w \in Worker, AgentGivesUp(w) \/ Serves(w) PROVE Own'
    BY <1>2, <1>6, OwnAgentGivesUp, OwnServes, OwnCreates, OwnUpdates DEF Serves
  <1>7. ASSUME NEW i \in Id, Operates(i) PROVE Own'
    BY <1>2, <1>7, OwnOperates
  <1>8. CASE UpdateNodesStatus \/ Tick
    BY <1>2, <1>8, OwnUpdateNodesStatus, OwnTick
  <1> QED BY <1>3, <1>4, <1>5, <1>6, <1>7, <1>8 DEF Next

LEMMA OwnInit == ASSUME Init PROVE OwnInv
  <1>1. \A w \in Worker : worker[w] = Idle
    BY DEF Init
  <1>2. \A w \in Worker : /\ OwnRequest(worker[w]) /\ OwnFound(worker[w])
                          /\ OwnRead(worker[w])
    BY <1>1 DEF Idle, OwnRequest, OwnFound, OwnRead
  <1>3. LeaseIsOwn /\ Present = {}
    BY DEF Init, LeaseIsOwn, Present
  <1> QED BY <1>2, <1>3 DEF OwnInv, Own, UidIsOwn

\* No machine's agent takes another machine's row for its own, for any number
\* of machines, leases, workers and rows, as long as no lease ends for a machine
\* that is not installed.
THEOREM IdentityStaysOwn == Spec => []IdentityIsOwn
  <1>1. Init => TypeInv /\ OwnInv
    BY TypeInit, OwnInit
  <1>2. TypeInv /\ [Next]_vars => TypeInv'
    BY TypeStep
  <1>3. TypeInv /\ OwnInv /\ [Next]_vars => OwnInv'
    BY OwnStep
  <1>4. OwnInv => IdentityIsOwn
    BY DEF OwnInv, Own, UidIsOwn, IdentityIsOwn
  <1> QED BY <1>1, <1>2, <1>3, <1>4, PTL DEF Spec

------------------------------------------------------------------------------
(***************************************************************************)
(* The invariant for ConflictGoneInTurn: where the rows of a machine are   *)
(* found, and what the request that is served has found to be gone.        *)
(***************************************************************************)

\* Only what is in the table of physical machines is ever installed, and all
\* rows of such a machine are at its address there.
NamedRow(r) ==
  /\ r.mac[2] => r.ip = Phys[r.mac[1]] /\ ~r.known
  /\ r.mac[2] \/ r.known => r.mac[1] \in Known
  /\ r.mac[1] \in Known => r.ip = Phys[r.mac[1]]
  /\ r.status # "discover" => r.known

NamedReport(d) ==
  d.mac[2] => d.ip = Phys[d.mac[1]] /\ d.mac[1] \in Known

Names ==
  /\ \A m \in Machine : mode[m] = "os" => m \in Known
  /\ \A i \in Present : NamedRow(rows[i])
  /\ \A w \in Worker : worker[w].stage # "idle" => NamedReport(worker[w].data)

\* An installed system makes a row only when its machine has none by which it
\* would have been found, a machine only when its system's has been deleted.
Alone(q) ==
  /\ q.stage \in {"by_mac", "clear", "insert"} /\ q.data.mac[2] =>
       ByMac(OwnMac(q.data.mac[1])) = {}
  /\ q.stage = "insert" /\ ~q.data.mac[2] =>
       ByMac(SystemMac(q.data.mac[1])) = {}

OneServed ==
  \A v, w \in Worker :
    v # w => worker[v].stage = "idle" \/ worker[w].stage = "idle"

Single ==
  \A m \in Machine : ByMac(OwnMac(m)) = {} \/ ByMac(SystemMac(m)) = {}

InTurn ==
  /\ OneServed
  /\ \A w \in Worker : Alone(worker[w])
  /\ Single

TurnInv == Names /\ (alone => InTurn)

\* No row is made, and what is kept keeps its name.
Fewer ==
  \A i \in Id : rows'[i] # NoRow => /\ rows[i] # NoRow
                                    /\ rows'[i].mac = rows[i].mac
                                    /\ NamedRow(rows'[i])

LEMMA FewerMacs ==
  ASSUME Fewer
  PROVE  \A x : ByMac(x) = {} => ByMac(x)' = {}
  BY DEF Fewer, ByMac, Present

\* A request that stays at its stage, or is at one before anything is looked for.
Stays(q, r) ==
  \/ q.stage = r.stage /\ q.data = r.data
  \/ q.stage \in {"idle", "post", "put", "read", "update"}

LEMMA TurnFrame ==
  ASSUME InTurn, Fewer, OneServed',
         \A w \in Worker : Stays(worker'[w], worker[w])
  PROVE  InTurn'
  <1>1. \A w \in Worker : Alone(worker[w])'
    BY FewerMacs DEF InTurn, Alone, Stays
  <1>2. Single'
    BY FewerMacs DEF InTurn, Single
  <1> QED BY <1>1, <1>2 DEF InTurn

LEMMA NamesFrame ==
  ASSUME Names, Fewer,
         \A m \in Machine : mode'[m] = "os" => m \in Known,
         \A w \in Worker : worker'[w].stage # "idle" =>
           \/ NamedReport(worker'[w].data)
           \/ worker[w].stage # "idle" /\ worker'[w].data = worker[w].data
  PROVE  Names'
  <1>1. \A i \in Present' : NamedRow(rows[i])'
    BY DEF Fewer, NamedRow, Present
  <1>2. \A w \in Worker : worker'[w].stage # "idle" => NamedReport(worker[w].data)'
    BY DEF Names, NamedReport
  <1> QED BY <1>1, <1>2 DEF Names

------------------------------------------------------------------------------
(***************************************************************************)
(* TurnInv is inductive: the steps of a worker.                            *)
(***************************************************************************)

LEMMA TurnParts ==
  ASSUME Names
  PROVE  /\ \A i \in Present : NamedRow(rows[i])
         /\ \A w \in Worker : worker[w].stage # "idle" => NamedReport(worker[w].data)
         /\ \A m \in Machine : mode[m] = "os" => m \in Known
         /\ \A i \in Id : rows[i] # NoRow => i \in Present
  BY DEF Names, Present

\* Only rows that are named as they should are left of the rows.
LEMMA FewerRows ==
  ASSUME Names, \A i \in Id : rows'[i] = rows[i] \/ rows'[i] = NoRow PROVE Fewer
  BY TurnParts DEF Fewer

\* A step of one worker that makes no row.
LEMMA TurnOfOne ==
  ASSUME InTurn, Fewer, OneServed', NEW w \in Worker,
         \A v \in Worker : v # w => worker'[v] = worker[v],
         Alone(worker[w])'
  PROVE  InTurn'
  <1>1. ASSUME NEW v \in Worker, v # w PROVE Alone(worker[v])'
    BY <1>1, FewerMacs DEF InTurn, Alone
  <1>2. Single'
    BY FewerMacs DEF InTurn, Single
  <1> QED BY <1>1, <1>2 DEF InTurn

\* A request that ends sends at most its own report again.
LEMMA EndedStays ==
  ASSUME NEW q, NEW r, Ended(q, r)
  PROVE  q.stage \in {"idle", "post", "put"} /\ (q.stage # "idle" => q.data = r.data)
  <1>1. CASE q = Idle
    BY <1>1 DEF Idle
  <1>2. CASE q # Idle
    <2>1. PICK x \in {"post", "put"} : q = Sent(r.from, x, r.data, FALSE)
      BY <1>2 DEF Ended
    <2> QED BY <2>1 DEF Sent
  <1> QED BY <1>1, <1>2

\* What the worker's steps leave of the report.
LEMMA ServesReport ==
  ASSUME TypeInv, NEW w \in Worker, Serves(w)
  PROVE  /\ worker[w].stage # "idle"
         /\ worker'[w].stage # "idle" => worker'[w].data = worker[w].data
         /\ \A v \in Worker : v # w => worker'[v] = worker[v]
         /\ mode' = mode
  <1>1. worker[w].stage # "idle" /\ mode' = mode
    BY DEF Serves, PostValidates, FindsByAddress, FindsByMac, DeletesConflicts,
      Creates, Reads, Updates
  <1>2. worker[w] \in Request
    BY TypeParts
  <1>3. ASSUME PostValidates(w) PROVE worker'[w].stage # "idle" => worker'[w].data = worker[w].data
    BY <1>2, <1>3, WorkerForms, EndedStays, RequestKept DEF Kept
  <1>4. ASSUME FindsByAddress(w) PROVE worker'[w].data = worker[w].data
    BY <1>2, <1>4, WorkerForms, RequestKept DEF Kept
  <1>5. ASSUME FindsByMac(w) PROVE worker'[w].data = worker[w].data
    BY <1>2, <1>5, WorkerForms, RequestKept DEF Kept
  <1>6. ASSUME DeletesConflicts(w) PROVE worker'[w].data = worker[w].data
    BY <1>2, <1>6, WorkerForms, RequestKept DEF Kept
  <1>7. ASSUME Creates(w) \/ Updates(w)
        PROVE  worker'[w].stage # "idle" => worker'[w].data = worker[w].data
    BY <1>7, WorkerForms, EndedStays
  <1>8. ASSUME Reads(w)
        PROVE  worker'[w].stage # "idle" => worker'[w].data = worker[w].data
    BY <1>2, <1>8, WorkerForms, EndedStays, RequestKept
  <1>9. \A v \in Worker : v # w => worker'[v] = worker[v]
    BY WorkerForms
  <1> QED BY <1>1, <1>3, <1>4, <1>5, <1>6, <1>7, <1>8, <1>9 DEF Serves

LEMMA NamesServes ==
  ASSUME TypeInv, Names, NEW w \in Worker, Serves(w), Fewer PROVE Names'
  <1>1. \A m \in Machine : mode'[m] = "os" => m \in Known
    BY ServesReport, TurnParts
  <1>2. \A v \in Worker : worker'[v].stage # "idle" =>
          worker[v].stage # "idle" /\ worker'[v].data = worker[v].data
    BY ServesReport
  <1> QED BY <1>1, <1>2, NamesFrame

\* No installed system makes a row while its machine has one at that address.
LEMMA TurnFindsByAddress ==
  ASSUME TypeInv, Names, NEW w \in Worker, FindsByAddress(w)
  PROVE  Alone(worker[w])'
  <1> DEFINE r == worker[w]
  <1>1. r \in Request /\ r.stage # "idle" /\ rows' = rows
    BY TypeParts DEF FindsByAddress
  <1>2. CASE worker'[w].stage = "read"
    BY <1>2 DEF Alone
  <1>3. CASE worker'[w].stage # "read"
    <2>1. worker'[w] = AtStage(r, "by_mac")
      BY <1>1, <1>3, WorkerForms, RequestKept
    <2>2. worker'[w].stage = "by_mac" /\ worker'[w].data = r.data
      BY <1>1, <2>1, RequestKept DEF Kept
    <2>3. ByIp(r.data.ip) = {}
      <3>1. SUFFICES ASSUME ByIp(r.data.ip) # {} PROVE FALSE
        OBVIOUS
      <3>2. PICK i \in ByIp(r.data.ip) :
              worker' = [worker EXCEPT ![w].stage = "read", ![w].mac = rows[i].mac]
        BY <3>1 DEF FindsByAddress
      <3>3. worker'[w] = Found(r, rows[i].mac)
        BY <3>2, TypeParts DEF Found
      <3> QED BY <1>1, <1>3, <3>3, RequestKept
    <2>4. ASSUME r.data.mac[2] PROVE ByMac(OwnMac(r.data.mac[1])) = {}
      <3>1. r.data.ip = Phys[r.data.mac[1]] /\ r.data.mac[1] \in Known
        BY <1>1, <2>4, TurnParts DEF NamedReport
      <3>2. SUFFICES ASSUME NEW i \in ByMac(OwnMac(r.data.mac[1])) PROVE FALSE
        OBVIOUS
      <3>3. i \in Present /\ rows[i].mac[1] = r.data.mac[1]
        BY DEF ByMac, OwnMac
      <3>4. rows[i].ip = r.data.ip
        BY <3>1, <3>3, TurnParts DEF NamedRow
      <3> QED BY <2>3, <3>3, <3>4 DEF ByIp
    <2>5. ByMac(OwnMac(r.data.mac[1]))' = ByMac(OwnMac(r.data.mac[1]))
      BY <1>1, <2>2 DEF ByMac, Present
    <2> QED BY <2>2, <2>4, <1>1 DEF Alone, ByMac, Present
  <1> QED BY <1>2, <1>3

LEMMA TurnPostValidates ==
  ASSUME TypeInv, NEW w \in Worker, PostValidates(w) PROVE Alone(worker[w])'
  <1>1. worker[w] \in Request
    BY TypeParts
  <1>2. CASE Ended(worker'[w], worker[w])
    BY <1>2, EndedStays DEF Alone
  <1>3. CASE ~Ended(worker'[w], worker[w])
    <2>1. worker'[w] = AtStage(worker[w], "clear")
      BY <1>3, WorkerForms
    <2>2. worker'[w].stage = "clear" /\ worker'[w].data = worker[w].data
      BY <1>1, <2>1, RequestKept DEF Kept
    <2>3. AnswerRefusal(w, "put") => Ended(worker'[w], worker[w])
      BY TypeParts DEF AnswerRefusal, Ended
    <2>4. ~worker[w].data.mac[2]
      BY <1>3, <2>3 DEF PostValidates
    <2> QED BY <2>2, <2>4 DEF Alone
  <1> QED BY <1>2, <1>3

LEMMA TurnFindsByMac ==
  ASSUME TypeInv, InTurn, NEW w \in Worker, FindsByMac(w) PROVE Alone(worker[w])'
  <1>1. worker[w] \in Request /\ rows' = rows /\ worker[w].stage = "by_mac"
    BY TypeParts DEF FindsByMac
  <1>2. \/ worker'[w].stage = "read"
        \/ worker'[w].stage = "clear" /\ worker'[w].data = worker[w].data
    BY <1>1, WorkerForms, RequestKept DEF Kept
  <1>3. Alone(worker[w])
    BY DEF InTurn
  <1> QED BY <1>1, <1>2, <1>3 DEF Alone, ByMac, Present

\* The rows its system made are at the address at which a machine makes its own.
LEMMA TurnDeletesConflicts ==
  ASSUME TypeInv, Names, InTurn, NEW w \in Worker, DeletesConflicts(w), Fewer
  PROVE  Alone(worker[w])'
  <1>0. PICK r, m : r = worker[w] /\ m = r.data.mac[1]
    OBVIOUS
  <1>1. r \in Request /\ r.stage = "clear" /\ r.stage # "idle"
    BY <1>0, TypeParts DEF DeletesConflicts
  <1>2. worker'[w].stage = "insert" /\ worker'[w].data = r.data
    BY <1>0, <1>1, WorkerForms, RequestKept DEF Kept
  <1>3. r.data.mac[2] => ByMac(OwnMac(m)) = {}
    BY <1>0, <1>1 DEF InTurn, Alone
  <1>4. r.data.mac[2] => ByMac(OwnMac(m))' = {}
    BY <1>3, FewerMacs
  <1>5. ASSUME ~r.data.mac[2], NEW i \in Id, rows'[i] # NoRow
        PROVE  rows'[i].mac # SystemMac(m)
    <2>1. i \in Present /\ rows'[i] = rows[i]
      BY <1>5, TurnParts DEF DeletesConflicts
    <2>2. SUFFICES ASSUME rows[i].mac = SystemMac(m) PROVE FALSE
      BY <2>1
    <2>3. rows[i].mac[1] = m /\ rows[i].mac[2]
      BY <2>2 DEF SystemMac
    <2>4. rows[i].ip = Phys[m] /\ ~rows[i].known /\ m \in Known
      BY <2>1, <2>3, TurnParts DEF NamedRow
    <2>5. Created(r.data).ip = Phys[m]
      BY <1>0, <1>5, <2>4 DEF Created
    <2>6. rows'[i] = NoRow
      BY <1>0, <2>1, <2>4, <2>5 DEF DeletesConflicts, ByIp
    <2> QED BY <1>5, <2>6
  <1>6. ~r.data.mac[2] => \A i \in Present' : rows'[i].mac # SystemMac(m)
    BY <1>5 DEF Present
  <1>7. Alone(worker[w])' <=>
          /\ r.data.mac[2] => ByMac(OwnMac(m))' = {}
          /\ ~r.data.mac[2] => {i \in Present' : rows'[i].mac = SystemMac(m)} = {}
    BY <1>0, <1>2 DEF Alone, ByMac, OwnMac, SystemMac
  <1> QED BY <1>4, <1>6, <1>7

LEMMA TurnServes ==
  ASSUME TypeInv, TurnInv, NEW w \in Worker, alone' = alone, alone => OneServed',
         \/ PostValidates(w) \/ FindsByAddress(w) \/ FindsByMac(w)
         \/ DeletesConflicts(w) \/ Reads(w)
  PROVE  TurnInv'
  <1>1. Fewer
    <2>1. \A i \in Id : rows'[i] = rows[i] \/ rows'[i] = NoRow
      BY DEF PostValidates, FindsByAddress, FindsByMac, DeletesConflicts, Reads
    <2> QED BY <2>1, FewerRows DEF TurnInv
  <1>2. Names'
    BY <1>1, NamesServes DEF TurnInv, Serves
  <1>3. ASSUME alone PROVE InTurn'
    <2>1. InTurn /\ OneServed'
      BY <1>3 DEF TurnInv
    <2>2. ASSUME Reads(w) PROVE Alone(worker[w])'
      <3>1. worker[w] \in Request
        BY TypeParts
      <3>2. worker'[w].stage \in {"idle", "post", "put", "update"}
        BY <2>2, <3>1, WorkerForms, EndedStays, RequestKept
      <3> QED BY <3>2 DEF Alone
    <2>3. Alone(worker[w])'
      BY <1>1, <2>1, <2>2, TurnPostValidates, TurnFindsByAddress, TurnFindsByMac,
        TurnDeletesConflicts DEF TurnInv
    <2>4. \A v \in Worker : v # w => worker'[v] = worker[v]
      BY ServesReport DEF Serves
    <2> QED BY <1>1, <2>1, <2>3, <2>4, TurnOfOne
  <1> QED BY <1>2, <1>3 DEF TurnInv

LEMMA TurnUpdates ==
  ASSUME TypeInv, TurnInv, NEW w \in Worker, alone' = alone, alone => OneServed',
         Updates(w)
  PROVE  TurnInv'
  <1> DEFINE r == worker[w]
             i == r.row
             n == Reported(rows[i], r.seen, r.data, r.moved)
  <1>1. /\ r \in Request /\ r.data \in Report /\ r.moved \in BOOLEAN
        /\ i \in Id /\ r.seen \in Row
    BY TypeParts DEF Updates, Whole, Request
  <1>2. ASSUME rows[i] = NoRow PROVE Fewer
    <2>1. rows' = rows
      BY <1>2 DEF Updates
    <2> QED BY <2>1, FewerRows DEF TurnInv
  <1>3. ASSUME rows[i] # NoRow PROVE Fewer
    <2>1. i \in Present /\ rows[i] \in Row /\ NamedRow(rows[i])
      BY <1>1, <1>3, TurnParts, TypeParts DEF TurnInv
    <2>2. rows' = [rows EXCEPT ![i] = n]
      BY <1>3 DEF Updates
    <2>3. Changed(n, rows[i], r.seen, r.data, r.moved)
      BY <1>1, <2>1, ReportedFields
    <2> HIDE DEF n
    <2>4. /\ Named(n, rows[i])
          /\ n.status \in {rows[i].status, "discover"}
      BY <2>3 DEF Changed, ReportedStatus
    <2>5. NamedRow(n) /\ n.mac = rows[i].mac
      BY <2>1, <2>4 DEF NamedRow, Named
    <2>6. rows'[i] = n /\ \A j \in Id : j # i => rows'[j] = rows[j]
      BY <1>1, <2>2, TypeParts
    <2> QED BY <1>3, <2>5, <2>6, TurnParts DEF Fewer, TurnInv
  <1>4. Fewer
    BY <1>2, <1>3
  <1>5. Names'
    BY <1>4, NamesServes DEF TurnInv, Serves
  <1>6. ASSUME alone PROVE InTurn'
    <2>1. worker'[w].stage \in {"idle", "post", "put"}
      BY WorkerForms, EndedStays
    <2>2. Alone(worker[w])'
      BY <2>1 DEF Alone
    <2>3. \A v \in Worker : v # w => worker'[v] = worker[v]
      BY ServesReport DEF Serves
    <2> QED BY <1>4, <1>6, <2>2, <2>3, TurnOfOne DEF TurnInv
  <1> QED BY <1>5, <1>6 DEF TurnInv

\* What a report makes is named as it should.
LEMMA CreatedNamed ==
  ASSUME NEW d \in Report, NamedReport(d)
  PROVE  NamedRow(Created(d)) /\ Created(d).mac = d.mac
  BY DEF NamedRow, NamedReport, Created

\* The other of a machine's rows is gone by the time one is made.
LEMMA TurnCreates ==
  ASSUME TypeInv, TurnInv, NEW w \in Worker, alone' = alone, alone => OneServed',
         Creates(w)
  PROVE  TurnInv'
  <1>0. PICK d : d = worker[w].data
    OBVIOUS
  <1>1. worker[w].stage = "insert" /\ d \in Report
    BY <1>0, TypeParts DEF Creates, Whole
  <1>2. NamedReport(d)
    BY <1>0, <1>1, TurnParts DEF TurnInv
  <1>3. NamedRow(Created(d)) /\ Created(d).mac = d.mac
    BY <1>1, <1>2, CreatedNamed
  <1>4. \A j \in Id : rows'[j] = rows[j] \/ rows'[j] = Created(d)
    BY <1>0, TypeParts DEF Creates
  <1>5. Names'
    <2>1. \A j \in Present' : NamedRow(rows'[j])
      BY <1>3, <1>4, TurnParts DEF TurnInv, Present
    <2>2. \A v \in Worker : worker'[v].stage # "idle" =>
            worker[v].stage # "idle" /\ worker'[v].data = worker[v].data
      BY ServesReport DEF Serves
    <2>3. \A v \in Worker : worker'[v].stage # "idle" => NamedReport(worker'[v].data)
      BY <2>2, TurnParts DEF TurnInv
    <2>4. \A m \in Machine : mode'[m] = "os" => m \in Known
      BY TurnParts, ServesReport DEF TurnInv, Serves
    <2>5. (\A j \in Present : NamedRow(rows[j]))'
      BY <2>1 DEF NamedRow
    <2>6. (\A v \in Worker : worker[v].stage # "idle" => NamedReport(worker[v].data))'
      BY <2>3 DEF NamedReport
    <2> QED BY <2>4, <2>5, <2>6 DEF Names
  <1>6. ASSUME alone PROVE InTurn'
    <2>1. InTurn /\ OneServed'
      BY <1>6 DEF TurnInv
    <2>2. ASSUME NEW v \in Worker PROVE Alone(worker[v])'
      <3>1. v # w => worker'[v] = worker[v] /\ worker[v].stage = "idle"
        BY <1>1, <2>1, ServesReport DEF InTurn, OneServed, Serves
      <3>2. worker'[w].stage \in {"idle", "post", "put"}
        BY WorkerForms, EndedStays
      <3>3. worker'[v].stage \in {"idle", "post", "put"}
        BY <3>1, <3>2
      <3> QED BY <3>3 DEF Alone
    <2>3. ASSUME NEW x, x # d.mac, ByMac(x) = {} PROVE ByMac(x)' = {}
      BY <1>3, <1>4, <2>3 DEF ByMac, Present
    <2>4. Single'
      <3> SUFFICES ASSUME NEW m \in Machine
                   PROVE  ByMac(OwnMac(m))' = {} \/ ByMac(SystemMac(m))' = {}
        BY DEF Single
      <3>1. PICK n \in Machine, b \in BOOLEAN : d.mac = <<n, b>>
        BY <1>1 DEF Report, Mac
      <3>2. d.mac[1] = n /\ d.mac[2] = b
        BY <3>1
      <3>3. /\ OwnMac(m)[1] = m /\ OwnMac(m)[2] = FALSE
            /\ SystemMac(m)[1] = m /\ SystemMac(m)[2] = TRUE
        BY DEF OwnMac, SystemMac
      <3>4. /\ OwnMac(m) = d.mac => m = n /\ b = FALSE
            /\ SystemMac(m) = d.mac => m = n /\ b = TRUE
        BY <3>2, <3>3
      <3>5. CASE m # n
        <4>1. OwnMac(m) # d.mac /\ SystemMac(m) # d.mac
          BY <3>5, <3>4
        <4>2. ByMac(OwnMac(m)) = {} \/ ByMac(SystemMac(m)) = {}
          BY <2>1 DEF InTurn, Single
        <4> QED BY <2>3, <4>1, <4>2
      <3>6. CASE m = n /\ b
        <4>1. ByMac(OwnMac(m)) = {}
          BY <1>0, <1>1, <2>1, <3>2, <3>6 DEF InTurn, Alone
        <4>2. OwnMac(m) # d.mac
          BY <3>6, <3>4
        <4> QED BY <2>3, <4>1, <4>2
      <3>7. CASE m = n /\ ~b
        <4>1. ByMac(SystemMac(m)) = {}
          BY <1>0, <1>1, <2>1, <3>2, <3>7 DEF InTurn, Alone
        <4>2. SystemMac(m) # d.mac
          BY <3>7, <3>4
        <4> QED BY <2>3, <4>1, <4>2
      <3> QED BY <3>5, <3>6, <3>7
    <2> QED BY <2>1, <2>2, <2>4 DEF InTurn
  <1> QED BY <1>5, <1>6 DEF TurnInv

------------------------------------------------------------------------------
(***************************************************************************)
(* TurnInv is inductive: the other steps.                                  *)
(***************************************************************************)

\* A step that makes no row and at most forgets who waits for a request.
LEMMA TurnForgotten ==
  ASSUME TypeInv, TurnInv, alone' = alone, alone => OneServed', Fewer,
         \A m \in Machine : mode'[m] = "os" => m \in Known,
         \A w \in Worker :
           worker'[w] \in {worker[w], Unwaited(worker[w]), Uncounted(worker[w])}
  PROVE  TurnInv'
  <1>1. \A w \in Worker :
          worker'[w].stage = worker[w].stage /\ worker'[w].data = worker[w].data
    <2> SUFFICES ASSUME NEW w \in Worker
                 PROVE  /\ worker'[w].stage = worker[w].stage
                        /\ worker'[w].data = worker[w].data
      OBVIOUS
    <2>1. worker[w] \in Request
      BY TypeParts
    <2>2. /\ Unwaited(worker[w]).stage = worker[w].stage
          /\ Unwaited(worker[w]).data = worker[w].data
          /\ Uncounted(worker[w]).stage = worker[w].stage
          /\ Uncounted(worker[w]).data = worker[w].data
      BY <2>1, RequestKept DEF Kept
    <2> QED BY <2>2
  <1>2. Names'
    BY <1>1, NamesFrame DEF TurnInv
  <1>3. alone => InTurn'
    BY <1>1, TurnFrame DEF TurnInv, Stays
  <1> QED BY <1>2, <1>3 DEF TurnInv

LEMMA TurnAgentRuns ==
  ASSUME TypeInv, TurnInv, NEW m \in Machine, NEW w \in Worker, AgentRuns(m, w),
         alone' = alone, alone => OneServed'
  PROVE  TurnInv'
  <1> DEFINE x == IF uid[m] = NoId THEN "post" ELSE "put"
             q == Sent(m, x, Data(m), TRUE)
  <1>1. Fewer
    BY FewerRows DEF TurnInv, AgentRuns
  <1>2. worker'[w] = q /\ \A v \in Worker : v # w => worker'[v] = worker[v]
    BY TypeParts DEF AgentRuns
  <1>3. NamedReport(Data(m))
    BY TurnParts DEF TurnInv, NamedReport, Data, OwnMac, SystemMac
  <1>4. q.data = Data(m) /\ q.stage \in {"post", "put"}
    BY DEF Sent
  <1> HIDE DEF q
  <1>5. Names'
    <2>1. \A n \in Machine : mode'[n] = "os" => n \in Known
      BY TurnParts DEF TurnInv, AgentRuns
    <2>2. \A v \in Worker : worker'[v].stage # "idle" =>
            \/ NamedReport(worker'[v].data)
            \/ worker[v].stage # "idle" /\ worker'[v].data = worker[v].data
      BY <1>2, <1>3, <1>4
    <2> QED BY <1>1, <2>1, <2>2, NamesFrame DEF TurnInv
  <1>6. \A v \in Worker : Stays(worker'[v], worker[v])
    BY <1>2, <1>4 DEF Stays
  <1> QED BY <1>1, <1>5, <1>6, TurnFrame DEF TurnInv

\* A machine boots what is installed when its row says so: then it is known.
LEMMA TurnBoots ==
  ASSUME TypeInv, TurnInv, NEW m \in Machine, Boots(m) \/ PowerOff(m) \/ LeaseEnds(m),
         alone' = alone, alone => OneServed'
  PROVE  TurnInv'
  <1>1. Fewer
    BY FewerRows DEF TurnInv, Boots, PowerOff, LeaseEnds
  <1>2. Wanted(m) = "os" => m \in Known
    <2>1. ASSUME NEW i \in ByMac(OwnMac(m)), rows[i].status # "discover"
          PROVE  m \in Known
      <3>1. i \in Present /\ rows[i].mac[1] = m
        BY DEF ByMac, OwnMac
      <3> QED BY <2>1, <3>1, TurnParts DEF TurnInv, NamedRow
    <2>2. mode[m] = "os" => m \in Known
      BY TurnParts DEF TurnInv
    <2> QED BY <2>1, <2>2 DEF Wanted
  <1>3. \A n \in Machine : mode'[n] = "os" => n \in Known
    BY <1>2, TurnParts, TypeParts DEF TurnInv, Boots, PowerOff, LeaseEnds
  <1>4. \A v \in Worker : worker'[v] \in {worker[v], Unwaited(worker[v])}
    BY DEF Boots, PowerOff, LeaseEnds, Abandoned, Unwaited
  <1> QED BY <1>1, <1>3, <1>4, TurnForgotten

LEMMA TurnAgentGivesUp ==
  ASSUME TypeInv, TurnInv, NEW w \in Worker, AgentGivesUp(w),
         alone' = alone, alone => OneServed'
  PROVE  TurnInv'
  <1>1. Fewer
    BY FewerRows DEF TurnInv, AgentGivesUp
  <1>2. \A n \in Machine : mode'[n] = "os" => n \in Known
    BY TurnParts DEF TurnInv, AgentGivesUp
  <1>3. \A v \in Worker : worker'[v] \in {worker[v], Unwaited(worker[v])}
    BY TypeParts DEF AgentGivesUp, Unwaited
  <1> QED BY <1>1, <1>2, <1>3, TurnForgotten

LEMMA TurnTick ==
  ASSUME TypeInv, TurnInv, UpdateNodesStatus \/ Tick,
         alone' = alone, alone => OneServed'
  PROVE  TurnInv'
  <1>1. Fewer
    <2> SUFFICES ASSUME NEW i \in Id, rows'[i] # NoRow
                 PROVE  /\ rows[i] # NoRow /\ rows'[i].mac = rows[i].mac
                        /\ NamedRow(rows'[i])
      BY DEF Fewer
    <2>1. /\ rows[i] # NoRow
          /\ \/ rows'[i] = rows[i] \/ rows'[i] = Overdue(rows[i])
             \/ rows'[i] = Aged(rows[i], rows[i].age + 1)
      BY DEF UpdateNodesStatus, Tick, Overdue, Aged
    <2>2. rows[i] \in Row /\ NamedRow(rows[i])
      BY <2>1, TurnParts, TypeParts DEF TurnInv
    <2>3. Named(rows'[i], rows[i]) /\ rows'[i].status = rows[i].status
      BY <2>1, <2>2, RowKept DEF Named
    <2> QED BY <2>1, <2>2, <2>3 DEF Named, NamedRow
  <1>2. \A n \in Machine : mode'[n] = "os" => n \in Known
    BY TurnParts DEF TurnInv, UpdateNodesStatus, Tick
  <1>3. \A v \in Worker : worker'[v] \in {worker[v], Uncounted(worker[v])}
    <2>1. worker' = worker \/ Disturbed({i \in Present : rows[i].age >= Timeout})
      BY DEF UpdateNodesStatus, Tick
    <2> QED BY <2>1, DisturbedForms
  <1> QED BY <1>1, <1>2, <1>3, TurnForgotten

LEMMA TurnOperates ==
  ASSUME TypeInv, TurnInv, NEW i \in Id, Operates(i),
         alone' = alone, alone => OneServed'
  PROVE  TurnInv'
  <1>1. /\ i \in Present /\ rows[i] \in Row /\ NamedRow(rows[i])
        /\ \A j \in Id : j # i => rows'[j] = rows[j]
    BY OperatedForms, TurnParts, TypeParts DEF TurnInv
  <1>2. rows[i].status = "provisioning" => rows[i].known
    BY <1>1 DEF NamedRow
  <1>3. ASSUME rows'[i] # NoRow
        PROVE  /\ Named(rows'[i], rows[i])
               /\ rows'[i].status # "discover" => rows[i].known
    <2>1. CASE Provision(i)
      <3>1. rows[i].known
        BY <2>1 DEF Provision
      <3> QED BY <1>1, <2>1, <3>1, OperatedForms, RowKept
    <2>2. CASE ProvisionEnds(i)
      <3>1. rows[i].status = "provisioning"
        BY <2>2 DEF ProvisionEnds
      <3> QED BY <1>1, <1>2, <2>2, <3>1, OperatedForms, RowKept
    <2>3. CASE ProvisionFails(i)
      <3>1. rows[i].status = "provisioning"
        BY <2>3 DEF ProvisionFails
      <3> QED BY <1>1, <1>2, <2>3, <3>1, OperatedForms, RowKept
    <2>4. CASE ResetToDiscover(i)
      BY <1>1, <2>4, OperatedForms, RowKept
    <2>5. CASE RemoveNode(i)
      BY <1>3, <2>5, OperatedForms
    <2> QED BY <2>1, <2>2, <2>3, <2>4, <2>5 DEF Operates
  <1>4. rows'[i] # NoRow => NamedRow(rows'[i]) /\ rows'[i].mac = rows[i].mac
    BY <1>1, <1>3 DEF Named, NamedRow
  <1>5. Fewer
    BY <1>1, <1>4, TurnParts DEF Fewer, TurnInv, Present
  <1>6. \A n \in Machine : mode'[n] = "os" => n \in Known
    BY TurnParts DEF TurnInv, Operates, Provision, ProvisionEnds, ProvisionFails,
      ResetToDiscover, RemoveNode
  <1>7. \A v \in Worker : worker'[v] \in {worker[v], Uncounted(worker[v])}
    <2>1. worker' = worker \/ Disturbed({i})
      BY DEF Operates, Provision, ProvisionEnds, ProvisionFails, ResetToDiscover,
        RemoveNode
    <2> QED BY <2>1, DisturbedForms
  <1> QED BY <1>5, <1>6, <1>7, TurnForgotten

\* Every step of the instances is one of the specification.
LEMMA InstanceStep ==
  ASSUME MCNext
  PROVE  /\ Next
         /\ alone' = alone
         /\ alone => OneServed'
  <1>1. Next
    BY DEF MCNext, Event, Next
  <1>2. alone => OneServed'
    BY DEF MCNext, OneServed
  <1> QED BY <1>1, <1>2 DEF MCNext

LEMMA TurnStep ==
  ASSUME TypeInv, TurnInv, [MCNext]_mcVars PROVE TurnInv'
  <1>1. CASE UNCHANGED mcVars
    <2>1. /\ rows' = rows /\ worker' = worker /\ mode' = mode /\ alone' = alone
          /\ Fewer
      BY <1>1, FewerRows DEF mcVars, vars, TurnInv
    <2>2. alone => OneServed'
      BY <2>1 DEF TurnInv, InTurn, OneServed
    <2> QED BY <2>1, <2>2, TurnForgotten, TurnParts DEF TurnInv
  <1>2. CASE MCNext
    <2>1. Next /\ alone' = alone /\ (alone => OneServed')
      BY <1>2, InstanceStep
    <2>2. ASSUME NEW m \in Machine, Boots(m) \/ PowerOff(m) \/ LeaseEnds(m)
          PROVE  TurnInv'
      BY <2>1, <2>2, TurnBoots
    <2>3. ASSUME NEW m \in Machine, NEW w \in Worker, AgentRuns(m, w) PROVE TurnInv'
      BY <2>1, <2>3, TurnAgentRuns
    <2>4. ASSUME NEW w \in Worker, AgentGivesUp(w) \/ Serves(w) PROVE TurnInv'
      BY <2>1, <2>4, TurnAgentGivesUp, TurnServes, TurnCreates, TurnUpdates DEF Serves
    <2>5. ASSUME NEW i \in Id, Operates(i) PROVE TurnInv'
      BY <2>1, <2>5, TurnOperates
    <2>6. CASE UpdateNodesStatus \/ Tick
      BY <2>1, <2>6, TurnTick
    <2> QED BY <2>1, <2>2, <2>3, <2>4, <2>5, <2>6 DEF Next
  <1> QED BY <1>1, <1>2

\* The instances start as the specification, or with a machine that is installed.
LEMMA InstanceInit ==
  ASSUME MCInit PROVE TypeInv /\ TurnInv
  <1>1. \A w \in Worker : worker[w] = Idle
    BY DEF MCInit, Init, Installing
  <1>2. /\ \A w \in Worker : worker[w].stage = "idle" /\ Alone(worker[w])
        /\ OneServed
    BY <1>1 DEF Idle, Alone, OneServed
  <1>3. CASE Init
    <2>1. Present = {} /\ \A m \in Machine : mode[m] # "os"
      BY <1>3 DEF Init, Present
    <2>2. Names
      BY <1>2, <2>1 DEF Names
    <2>3. InTurn
      BY <1>2, <2>1 DEF InTurn, Single, ByMac
    <2> QED BY <1>3, <2>2, <2>3, TypeInit DEF TurnInv
  <1>4. CASE Installing
    <2> DEFINE d == [mac |-> OwnMac(m1), ip |-> a]
               r == [Created(d) EXCEPT !.status = "provisioning"]
    <2>1. m1 \in Machine /\ m1 \in Known /\ a \in Lease
      BY InstancesAssumption, MachineAssumption
    <2>2. d \in Report /\ d.mac = OwnMac(m1) /\ d.mac[1] = m1 /\ d.mac[2] = FALSE
      BY <2>1 DEF Report, Mac, OwnMac, Address
    <2>3. Created(d) \in Row
      BY <2>2, CreatedType
    <2>4. r = WithStatus(Created(d), "provisioning")
      BY DEF WithStatus
    <2>5. r \in Row
      BY <2>3, RowExcept DEF Statuses
    <2>6. Named(r, Created(d))
      BY <2>3, <2>4, RowKept
    <2>7. /\ Created(d).mac = d.mac /\ Created(d).known
          /\ Created(d).ip = Phys[m1]
      BY <2>1, <2>2 DEF Created
    <2>8. \A i \in Id : rows[i] = r \/ rows[i] = NoRow
      BY <1>4 DEF Installing
    <2> HIDE DEF r, d
    <2>9. NamedRow(r) /\ r.mac = OwnMac(m1)
      BY <2>1, <2>2, <2>6, <2>7 DEF NamedRow, Named
    <2>10. TypeInv
      <3>1. rows \in [Id -> Row \cup {NoRow}]
        BY <1>4, <2>5, <2>8 DEF Installing
      <3>2. /\ mode \in [Machine -> {"off", "bootstrap", "os"}]
            /\ lease \in [Machine -> Lease \cup {NoAddress}]
        BY <1>4, <2>1 DEF Installing
      <3>3. uid \in [Machine -> Id \cup {NoId}] /\ early \in BOOLEAN
        BY <1>4 DEF Installing
      <3>4. calm \in [Id -> 0 .. 2]
        BY <1>4 DEF Installing
      <3>5. worker \in [Worker -> Request] /\ \A w \in Worker : Whole(worker[w])
        BY <1>4, IdleType DEF Installing
      <3>6. BootstrapHasLease
        BY <1>4 DEF Installing, BootstrapHasLease
      <3> QED BY <3>1, <3>2, <3>3, <3>4, <3>5, <3>6 DEF TypeInv, TypeOK
    <2>11. Names
      BY <1>2, <1>4, <2>1, <2>8, <2>9 DEF Names, Present, Installing
    <2>12. Single
      <3>1. ASSUME NEW m \in Machine, NEW i \in ByMac(SystemMac(m)) PROVE FALSE
        <4>1. SystemMac(m) = OwnMac(m1)
          BY <2>8, <2>9 DEF ByMac, Present
        <4>2. SystemMac(m)[2] = TRUE /\ OwnMac(m1)[2] = FALSE
          BY DEF SystemMac, OwnMac
        <4> QED BY <4>1, <4>2
      <3> QED BY <3>1 DEF Single
    <2> QED BY <1>2, <2>10, <2>11, <2>12 DEF TurnInv, InTurn
  <1> QED BY <1>3, <1>4 DEF MCInit

\* Served one request after the other, a machine never has a row of its own and
\* one its installed system has made of itself, for any number of machines,
\* leases, workers and rows: deleteconfictnode and the lookup by the machine's
\* address keep the two apart.
THEOREM ConflictAlwaysGone == MCSpec => []ConflictGoneInTurn
  <1>1. MCInit => TypeInv /\ TurnInv
    BY InstanceInit
  <1>2. TypeInv /\ [MCNext]_mcVars => TypeInv'
    <2>1. [MCNext]_mcVars => [Next]_vars
      BY InstanceStep DEF mcVars
    <2> QED BY <2>1, TypeStep
  <1>3. TypeInv /\ TurnInv /\ [MCNext]_mcVars => TurnInv'
    BY TurnStep
  <1>4. TurnInv => ConflictGoneInTurn
    BY DEF TurnInv, InTurn, Single, ConflictGoneInTurn
  <1> QED BY <1>1, <1>2, <1>3, <1>4, PTL DEF MCSpec

=============================================================================
