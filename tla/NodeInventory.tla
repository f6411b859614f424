---------------------------- MODULE NodeInventory ----------------------------
(***************************************************************************)
(* The machines, the reports of their agents, and the rows of the nodes    *)
(* table that are found by those reports.                                  *)
(*                                                                         *)
(* A machine that is switched on boots a bootstrap image at an address of  *)
(* the DHCP server, or the system installed on it at the address the table *)
(* of physical machines has for it. Cron runs the agent: it registers the  *)
(* machine (POST) or reports it (PUT), and takes the id of the answer for  *)
(* the identity by which the orchestrator reaches the machine. The handler *)
(* finds the row by address first, since an installed system reports a MAC *)
(* that is not the machine's. The assassin sets rows offline that have not *)
(* been reported for long, and the receivers of the orchestrator's replies *)
(* install, reset and delete nodes meanwhile.                              *)
(***************************************************************************)
EXTENDS Integers, FiniteSets

CONSTANTS
  Machine,    \* the machines
  Known,      \* those listed in the table of physical machines
  Lease,      \* the addresses of the DHCP server
  Phys,       \* per machine: its address in the table of physical machines
  Worker,     \* the workers that serve the agents' requests
  Timeout,    \* KEEPALIVE timeout, in ticks
  MaxRow,     \* bound: rows and the identities that name them at one time
  NoRow, NoReport, NoMachine, NoAddress

ASSUME MachineAssumption ==
  /\ Known \subseteq Machine /\ NoMachine \notin Machine
  /\ \A m, n \in Machine : Phys[m] = Phys[n] => m = n
  /\ \A m \in Machine : Phys[m] \notin Lease \cup {NoAddress}
  /\ NoAddress \notin Lease
ASSUME BoundsAssumption == Timeout \in Nat /\ MaxRow \in Nat

VARIABLES
  rows,    \* the nodes table, as committed, by id
  mode,    \* per machine: "off", or the system it runs
  lease,   \* per machine: the address the DHCP server keeps for it
  uid,     \* per machine: /etc/nailgun_uid, the mcollective identity
  worker,  \* per worker: the request it serves
  calm,    \* history: reports a row has had in a row, see Steady
  early    \* history: a lease ended while a row might name its address

vars == <<rows, mode, lease, uid, worker, calm, early>>

Id == 1 .. MaxRow
NoId == 0

\* A machine's own MAC and the one its installed system reports.
Mac == Machine \X BOOLEAN
OwnMac(m) == <<m, FALSE>>
SystemMac(m) == <<m, TRUE>>

Address == Lease \cup {Phys[m] : m \in Machine}

\* The report's checksum is taken over all of it: the report stands for it.
Report == [mac : Mac, ip : Address]

Statuses == {"discover", "provisioning", "provisioned", "error"}

\* known: node_type is the physical machine's, not -1; age: since the timestamp.
Row == [mac : Mac, ip : Address, power_ip : Address, known : BOOLEAN,
        status : Statuses, online : BOOLEAN, age : 0 .. Timeout + 1,
        agent_checksum : Report]

\* live: the agent still waits for the answer; first: it may yet try the other
\* method; mac: of the row that was found; moved: nochange_powerip; row, seen:
\* what get_by_meta returned; next: the row had been reported before.
Request == [stage : {"idle", "post", "put", "by_mac", "read", "update",
                     "clear", "insert"},
            method : {"post", "put"}, from : Machine \cup {NoMachine},
            data : Report \cup {NoReport}, live : BOOLEAN, first : BOOLEAN,
            mac : Mac \cup {NoMachine}, moved : BOOLEAN,
            row : Id \cup {NoId}, seen : Row \cup {NoRow}, next : BOOLEAN]

Idle == [stage |-> "idle", method |-> "put", from |-> NoMachine,
         data |-> NoReport, live |-> FALSE, first |-> FALSE,
         mac |-> NoMachine, moved |-> FALSE, row |-> NoId, seen |-> NoRow,
         next |-> FALSE]

------------------------------------------------------------------------------
(***************************************************************************)
(* Rows.                                                                   *)
(***************************************************************************)

Present == {i \in Id : rows[i] # NoRow}

ByMac(mac) == {i \in Present : rows[i].mac = mac}
ByIp(ip) == {i \in Present : rows[i].ip = ip}
ByPowerIp(ip) == {i \in Present : rows[i].power_ip = ip}

\* An identity the sequence gives out is new: nothing in the system has it.
Unused == {i \in Id \ Present : /\ \A m \in Machine : uid[m] # i
                                /\ \A w \in Worker : worker[w].row # i}
NewId(i) == i \in Unused /\ \A j \in Unused : i <= j

\* Node.create: the physical machine is looked up by the interfaces, which the
\* installed system does not report.
Created(d) ==
  LET known == d.mac[1] \in Known /\ ~d.mac[2]
  IN [mac |-> d.mac, ip |-> IF known THEN Phys[d.mac[1]] ELSE d.ip,
      power_ip |-> d.ip, known |-> known, status |-> "discover",
      online |-> TRUE, age |-> 0, agent_checksum |-> d]

\* NodeAgentHandler.PUT and update_by_agent: what a report changes of a row r,
\* seen as s. An attribute that equals the one seen is not written.
ReportedStatus(r, s, d) ==
  IF ~d.mac[2] /\ s.status \notin {"discover", "provisioning", "error"}
  THEN "discover" ELSE r.status

Stamped(r, s) ==
  [r EXCEPT !.age = 0, !.online = IF s.online THEN r.online ELSE TRUE]

\* Mutant: the checksum is compared before the row is stamped.
ReportedCached(r, s, d, moved) ==
  IF s.agent_checksum = d THEN r
  ELSE [Stamped(r, s) EXCEPT
          !.status = ReportedStatus(r, s, d),
          !.power_ip = IF moved /\ s.power_ip # d.ip THEN d.ip ELSE r.power_ip,
          !.agent_checksum = d]

Reported(r, s, d, moved) ==
  IF s.agent_checksum = d THEN Stamped(r, s)
  ELSE [Stamped(r, s) EXCEPT
          !.status = ReportedStatus(r, s, d),
          !.power_ip = IF moved /\ s.power_ip # d.ip THEN d.ip ELSE r.power_ip,
          !.agent_checksum = d]

------------------------------------------------------------------------------
(***************************************************************************)
(* The agent.                                                              *)
(***************************************************************************)

\* Mutant: only an installed system knows its address.
DataWithoutIp(m) ==
  IF mode[m] = "os" THEN [mac |-> SystemMac(m), ip |-> Phys[m]]
  ELSE [mac |-> OwnMac(m), ip |-> NoAddress]

Data(m) ==
  IF mode[m] = "os" THEN [mac |-> SystemMac(m), ip |-> Phys[m]]
  ELSE [mac |-> OwnMac(m), ip |-> lease[m]]

Waits(m) == \E w \in Worker : worker[w].from = m /\ worker[w].live

\* A request; first: if it is refused, the other method is tried.
Sent(m, method, d, first) ==
  [stage |-> method, method |-> method, from |-> m, data |-> d, live |-> TRUE,
   first |-> first, mac |-> NoMachine, moved |-> FALSE, row |-> NoId,
   seen |-> NoRow, next |-> FALSE]

\* Cron runs the agent; without an identity it posts, otherwise it puts.
AgentRuns(m, w) ==
  /\ mode[m] # "off"
  /\ ~Waits(m)
  /\ worker[w].stage = "idle"
  /\ worker' = [worker EXCEPT ![w] =
       Sent(m, IF uid[m] = NoId THEN "post" ELSE "put", Data(m), TRUE)]
  /\ UNCHANGED <<rows, mode, lease, uid, calm, early>>

\* receive_timeout; the worker goes on.
AgentGivesUp(w) ==
  /\ worker[w].live
  /\ worker' = [worker EXCEPT ![w].live = FALSE]
  /\ UNCHANGED <<rows, mode, lease, uid, calm, early>>

\* The answer names a row: it becomes the machine's identity.
AnswerId(w, i) ==
  /\ worker' = [worker EXCEPT ![w] = Idle]
  /\ uid' = IF worker[w].live THEN [uid EXCEPT ![worker[w].from] = i] ELSE uid

\* The answer is an error or, when a PUT has created the row, nothing.
AnswerNothing(w) ==
  /\ worker' = [worker EXCEPT ![w] = Idle]
  /\ UNCHANGED uid

\* 403 and 409 to a POST, 400 to a PUT: the agent tries the other method, once.
AnswerRefusal(w, other) ==
  /\ UNCHANGED uid
  /\ worker' = [worker EXCEPT ![w] =
       IF worker[w].live /\ worker[w].first
       THEN Sent(worker[w].from, other, worker[w].data, FALSE) ELSE Idle]

------------------------------------------------------------------------------
(***************************************************************************)
(* The handlers.                                                           *)
(***************************************************************************)

\* NodeCollectionHandler.POST: only a bootstrap system registers a machine, and
\* only one that has no row.
PostValidates(w) ==
  /\ worker[w].stage = "post"
  /\ LET d == worker[w].data
     IN IF d.mac[2] \/ ByMac(d.mac) # {}
        THEN AnswerRefusal(w, "put")
        ELSE /\ worker' = [worker EXCEPT ![w].stage = "clear"]
             /\ UNCHANGED uid
  /\ UNCHANGED <<rows, mode, lease, calm, early>>

\* NodeAgentHandler.PUT: the row with the report's address, or whose machine
\* was found at it.
FindsByAddress(w) ==
  /\ worker[w].stage = "put"
  /\ LET ip == worker[w].data.ip
         found == IF ByIp(ip) # {} THEN ByIp(ip) ELSE ByPowerIp(ip)
     IN IF found = {}
        THEN worker' = [worker EXCEPT ![w].stage = "by_mac"]
        ELSE \E i \in found :
               worker' = [worker EXCEPT ![w].stage = "read",
                                        ![w].mac = rows[i].mac]
  /\ UNCHANGED <<rows, mode, lease, uid, calm, early>>

\* Mutant: a row that is not found is not made.
FindsByMacOnly(w) ==
  /\ worker[w].stage = "by_mac"
  /\ LET mac == worker[w].data.mac
     IN IF ByMac(mac) = {}
        THEN AnswerNothing(w)
        ELSE /\ worker' = [worker EXCEPT ![w].stage = "read", ![w].mac = mac,
                                         ![w].moved = TRUE]
             /\ UNCHANGED uid
  /\ UNCHANGED <<rows, mode, lease, calm, early>>

\* Between the two queries a file is copied to the machine, by scp. Without a
\* row the report makes one, whatever system sent it.
FindsByMac(w) ==
  /\ worker[w].stage = "by_mac"
  /\ LET mac == worker[w].data.mac
     IN worker' = IF ByMac(mac) = {}
                  THEN [worker EXCEPT ![w].stage = "clear"]
                  ELSE [worker EXCEPT ![w].stage = "read", ![w].mac = mac,
                                      ![w].moved = TRUE]
  /\ UNCHANGED <<rows, mode, lease, uid, calm, early>>

\* Mutant: the conflicting rows are looked for at the reported address.
DeletesConflictsAtReport(w) ==
  /\ worker[w].stage = "clear"
  /\ LET conflicts == {i \in ByIp(worker[w].data.ip) : ~rows[i].known}
     IN rows' = [i \in Id |-> IF i \in conflicts THEN NoRow ELSE rows[i]]
  /\ worker' = [worker EXCEPT ![w].stage = "insert"]
  /\ UNCHANGED <<mode, lease, uid, calm, early>>

\* deleteconfictnode, in a transaction of its own.
DeletesConflicts(w) ==
  /\ worker[w].stage = "clear"
  /\ LET ip == Created(worker[w].data).ip
         conflicts == {i \in ByIp(ip) : ~rows[i].known}
     IN rows' = [i \in Id |-> IF i \in conflicts THEN NoRow ELSE rows[i]]
  /\ worker' = [worker EXCEPT ![w].stage = "insert"]
  /\ UNCHANGED <<mode, lease, uid, calm, early>>

\* Node.create. A MAC that has a row by now breaks the constraint: 400. A PUT
\* that creates a row answers nothing.
Creates(w) ==
  /\ worker[w].stage = "insert"
  /\ LET d == worker[w].data
     IN IF ByMac(d.mac) # {}
        THEN /\ IF worker[w].method = "put"
                THEN AnswerRefusal(w, "post") ELSE AnswerNothing(w)
             /\ UNCHANGED <<rows, calm>>
        ELSE \E i \in Id :
               /\ NewId(i)
               /\ rows' = [rows EXCEPT ![i] = Created(d)]
               /\ calm' = [calm EXCEPT ![i] = 0]
               /\ IF worker[w].method = "put"
                  THEN AnswerNothing(w) ELSE AnswerId(w, i)
  /\ UNCHANGED <<mode, lease, early>>

\* validate_update and get_by_meta, by the MAC of the row that was found; it may
\* have been deleted since, and created anew. Deleted before the first of the
\* two the answer is 400, between them 404.
Reads(w) ==
  /\ worker[w].stage = "read"
  /\ IF ByMac(worker[w].mac) = {}
     THEN AnswerRefusal(w, "post") \/ AnswerNothing(w)
     ELSE /\ \E i \in ByMac(worker[w].mac) :
               worker' = [worker EXCEPT ![w].stage = "update", ![w].row = i,
                                        ![w].seen = rows[i],
                                        ![w].next = calm[i] > 0]
          /\ UNCHANGED uid
  /\ UNCHANGED <<rows, mode, lease, calm, early>>

\* From the first flush to the commit the row is locked: one step. A row that
\* is gone answers 500.
Updates(w) ==
  /\ worker[w].stage = "update"
  /\ LET i == worker[w].row
     IN IF rows[i] = NoRow
        THEN AnswerNothing(w) /\ UNCHANGED <<rows, calm>>
        ELSE /\ rows' = [rows EXCEPT ![i] =
                           Reported(@, worker[w].seen, worker[w].data,
                                    worker[w].moved)]
             /\ calm' = [calm EXCEPT ![i] =
                           IF worker[w].next THEN 2 ELSE IF @ = 0 THEN 1 ELSE @]
             /\ AnswerId(w, i)
  /\ UNCHANGED <<mode, lease, early>>

------------------------------------------------------------------------------
(***************************************************************************)
(* The assassin, and time.                                                 *)
(***************************************************************************)

\* Whoever read a row of these before can no longer count on it.
Disturbed(disturbed) ==
  /\ calm' = [i \in Id |-> IF i \in disturbed THEN 0 ELSE calm[i]]
  /\ worker' = [w \in Worker |->
       IF worker[w].row \in disturbed THEN [worker[w] EXCEPT !.next = FALSE]
       ELSE worker[w]]

\* Mutant: only nodes with an environment's system are looked at.
UpdateNodesStatusInstalled ==
  /\ rows' = [i \in Id |->
       IF rows[i] # NoRow /\ rows[i].status = "provisioned"
          /\ rows[i].age > Timeout
       THEN [rows[i] EXCEPT !.online = FALSE] ELSE rows[i]]
  /\ UNCHANGED <<mode, lease, uid, worker, calm, early>>

\* update_nodes_status: one UPDATE.
UpdateNodesStatus ==
  /\ rows' = [i \in Id |->
       IF rows[i] # NoRow /\ rows[i].status # "provisioning"
          /\ rows[i].age > Timeout
       THEN [rows[i] EXCEPT !.online = FALSE] ELSE rows[i]]
  /\ UNCHANGED <<mode, lease, uid, worker, calm, early>>

Tick ==
  /\ rows' = [i \in Id |->
       IF rows[i] # NoRow /\ rows[i].age <= Timeout
       THEN [rows[i] EXCEPT !.age = @ + 1] ELSE rows[i]]
  /\ Disturbed({i \in Present : rows[i].age >= Timeout})
  /\ UNCHANGED <<mode, lease, uid, early>>

------------------------------------------------------------------------------
(***************************************************************************)
(* The managers and receivers, on one node.                                *)
(***************************************************************************)

SetRow(i, r) == rows' = [rows EXCEPT ![i] = r]

\* execute: the nodes to provision are online and, being of a type, known.
Provision(i) ==
  /\ i \in Present
  /\ rows[i].known /\ rows[i].online
  /\ rows[i].status \in {"discover", "error"}
  /\ SetRow(i, [rows[i] EXCEPT !.status = "provisioning"])
  /\ UNCHANGED <<mode, lease, uid, worker, calm, early>>

\* Installing takes longer than a request takes from its query to its commit:
\* none of the bootstrap system's has the row in hand any more.
Settled(i) ==
  \A w \in Worker :
    worker[w].stage = "update" /\ worker[w].row = i => worker[w].data.mac[2]

\* Mutant: the node is still looked for where its bootstrap system was.
ProvisionEndsInPlace(i) ==
  /\ i \in Present
  /\ rows[i].status = "provisioning"
  /\ mode[rows[i].mac[1]] = "os"
  /\ Settled(i)
  /\ SetRow(i, [rows[i] EXCEPT !.status = "provisioned"])
  /\ UNCHANGED <<mode, lease, uid, worker, calm, early>>

\* provision_resp: the system runs, at the node's own address.
ProvisionEnds(i) ==
  /\ i \in Present
  /\ rows[i].status = "provisioning"
  /\ mode[rows[i].mac[1]] = "os"
  /\ Settled(i)
  /\ SetRow(i, [rows[i] EXCEPT !.status = "provisioned",
                               !.power_ip = rows[i].ip])
  /\ UNCHANGED <<mode, lease, uid, worker, calm, early>>

ProvisionFails(i) ==
  /\ i \in Present
  /\ rows[i].status = "provisioning"
  /\ SetRow(i, [rows[i] EXCEPT !.status = "error"])
  /\ UNCHANGED <<mode, lease, uid, worker, calm, early>>

\* reset_to_discover, for a stop or a reset.
ResetToDiscover(i) ==
  /\ i \in Present
  /\ rows[i].status # "discover"
  /\ SetRow(i, [rows[i] EXCEPT !.status = "discover", !.online = FALSE])
  /\ Disturbed({i})
  /\ UNCHANGED <<mode, lease, uid, early>>

\* remove_nodes_resp.
RemoveNode(i) ==
  /\ i \in Present
  /\ SetRow(i, NoRow)
  /\ Disturbed({i})
  /\ UNCHANGED <<mode, lease, uid, early>>

------------------------------------------------------------------------------
(***************************************************************************)
(* The machines and the DHCP server.                                       *)
(***************************************************************************)

\* What is to boot: the disk once the node is to be installed, the bootstrap
\* image otherwise; a failed installation is left as it is.
Wanted(m) ==
  LET has(statuses) == \E i \in ByMac(OwnMac(m)) : rows[i].status \in statuses
  IN IF has({"provisioning", "provisioned"}) THEN "os"
     ELSE IF has({"error"}) /\ mode[m] # "off" THEN mode[m]
     ELSE "bootstrap"

\* The agent dies with its machine.
Abandoned(m) ==
  [w \in Worker |-> IF worker[w].from = m THEN [worker[w] EXCEPT !.live = FALSE]
                    ELSE worker[w]]

\* A bootstrap system has no disk, a new one no identity yet.
Boots(m) ==
  /\ Wanted(m) # mode[m]
  /\ mode' = [mode EXCEPT ![m] = Wanted(m)]
  /\ uid' = [uid EXCEPT ![m] =
       IF mode[m] = "off" /\ Wanted(m) = "os" THEN @ ELSE NoId]
  /\ IF Wanted(m) = "bootstrap" /\ lease[m] = NoAddress
     THEN \E a \in Lease : /\ \A n \in Machine : lease[n] # a
                           /\ lease' = [lease EXCEPT ![m] = a]
     ELSE UNCHANGED lease
  /\ worker' = Abandoned(m)
  /\ UNCHANGED <<rows, calm, early>>

PowerOff(m) ==
  /\ mode[m] # "off"
  /\ mode' = [mode EXCEPT ![m] = "off"]
  /\ uid' = [uid EXCEPT ![m] = IF mode[m] = "bootstrap" THEN NoId ELSE @]
  /\ worker' = Abandoned(m)
  /\ UNCHANGED <<rows, lease, calm, early>>

\* Nobody asks for the lease any more, and it has outlasted the requests that
\* were sent from its address.
LeaseEnds(m) ==
  /\ mode[m] # "bootstrap"
  /\ lease[m] # NoAddress
  /\ \A w \in Worker : worker[w].stage # "idle" => worker[w].data.ip # lease[m]
  /\ lease' = [lease EXCEPT ![m] = NoAddress]
  /\ early' = (early \/ \E i \in ByMac(OwnMac(m)) :
                          rows[i].status # "provisioned")
  /\ UNCHANGED <<rows, mode, uid, worker, calm>>

------------------------------------------------------------------------------
Init ==
  /\ rows = [i \in Id |-> NoRow]
  /\ mode = [m \in Machine |-> "off"]
  /\ lease = [m \in Machine |-> NoAddress]
  /\ uid = [m \in Machine |-> NoId]
  /\ worker = [w \in Worker |-> Idle]
  /\ calm = [i \in Id |-> 0]
  /\ early = FALSE

Serves(w) ==
  \/ PostValidates(w) \/ FindsByAddress(w) \/ FindsByMac(w)
  \/ DeletesConflicts(w) \/ Creates(w) \/ Reads(w) \/ Updates(w)

Operates(i) ==
  \/ Provision(i) \/ ProvisionEnds(i) \/ ProvisionFails(i)
  \/ ResetToDiscover(i) \/ RemoveNode(i)

Next ==
  \/ \E m \in Machine :
       \/ Boots(m) \/ PowerOff(m) \/ LeaseEnds(m)
       \/ \E w \in Worker : AgentRuns(m, w)
  \/ \E w \in Worker : AgentGivesUp(w) \/ Serves(w)
  \/ \E i \in Id : Operates(i)
  \/ UpdateNodesStatus
  \/ Tick

\* Cron runs every agent again and again, workers serve what they have taken,
\* the assassin's loop does not end.
Fairness ==
  /\ \A m \in Machine : SF_vars(\E w \in Worker : AgentRuns(m, w))
  /\ \A w \in Worker : WF_vars(Serves(w))
  /\ WF_vars(UpdateNodesStatus)
  /\ WF_vars(Tick)

Spec == Init /\ [][Next]_vars /\ Fairness

------------------------------------------------------------------------------
(***************************************************************************)
(* Properties.                                                             *)
(***************************************************************************)

TypeOK ==
  /\ rows \in [Id -> Row \cup {NoRow}]
  /\ mode \in [Machine -> {"off", "bootstrap", "os"}]
  /\ lease \in [Machine -> Lease \cup {NoAddress}]
  /\ uid \in [Machine -> Id \cup {NoId}]
  /\ worker \in [Worker -> Request]
  /\ calm \in [Id -> 0 .. 2]
  /\ early \in BOOLEAN

\* A row that has been reported twice in a row, and was neither overdue nor
\* reset since, is online, whenever the assassin and other requests came in
\* between. (One report does not do: NodeAgentHandler.PUT may have seen the row
\* online that the assassin sets offline before the flush.)
SteadyIsOnline == \A i \in Present : calm[i] = 2 => rows[i].online

\* The identity a machine's agent has taken from an answer is never the id of
\* another machine's row, though rows are found by addresses that are given to
\* one machine after the other (get_by_ip, get_by_powerip), as long as no
\* lease ends for a machine that is not installed.
IdentityIsOwn ==
  ~early => \A m \in Machine, i \in Present : uid[m] = i => rows[i].mac[1] = m

\* A machine that stays in the bootstrap system gets a row of its own that is
\* online (NodeAgentHandler, nailgun-agent).
MachineIsFound ==
  \A m \in Machine :
    mode[m] = "bootstrap" ~>
      \/ mode[m] # "bootstrap" \/ early
      \/ \E i \in ByMac(OwnMac(m)) : rows[i].online

\* A machine that stays switched off is set offline (update_nodes_status), but
\* for a node that is being provisioned.
SilentGoesOffline ==
  \A m \in Machine :
    mode[m] = "off" ~>
      \/ mode[m] # "off" \/ early
      \/ \A i \in ByMac(OwnMac(m)) :
           ~rows[i].online \/ rows[i].status = "provisioning"
==============================================================================
