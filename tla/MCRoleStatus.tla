---------------------------- MODULE MCRoleStatus -----------------------------
(***************************************************************************)
(* Instances of RoleStatus for TLC, with two roles that share a node: one  *)
(* tab, and several of them on an EBS environment.                         *)
(***************************************************************************)
EXTENDS RoleStatus, TLC

CONSTANTS n1, n2, ra, rb, t1

ASSUME TabAssumption == t1 \in Tab

MCNodesOf == ra :> {n1, n2} @@ rb :> {n2}

VARIABLES
  uncast,   \* history: a task was made of which nothing was cast
  partial   \* history: some of several messages of one task failed

mcVars == <<vars, uncast, partial>>

\* The worker died, a serializer raised, or there was nothing to do: a start of
\* all roles is made for EBS only.
NothingCast ==
  \E w \in Tab : tab[w].job # NoJobId /\ tab'[w].job = NoJobId /\ orders' = orders

Parts(k) == {p \in Part : job[k].sub[p] # "none"}

PartFails ==
  \E o \in orders \ orders' :
    /\ \E p, q \in Parts(o.job) : p # q
    /\ ~ Succeeds(queue'[Len(queue')])

Alone == \E w \in Tab : \A v \in Tab \ {w} : tab[v].pc = "closed"

MCInit ==
  /\ \/ InitOf({t1}, MaxPresses, MaxFaults)
     \/ InitOf(Tab, MaxPresses - 1, 0) /\ type = Ebs /\ row[ra] = 1
        /\ cookie.role = ra
  /\ uncast = FALSE
  /\ partial = FALSE

MCNext ==
  /\ Next
  /\ uncast' = (uncast \/ NothingCast)
  /\ partial' = (partial \/ PartFails)

MCSpec == MCInit /\ [][MCNext]_mcVars /\ Fairness

\* The rows can be trusted in a single tab, whatever fails: a start that fails
\* leaves a role as stopped as it was, a stop that fails leaves it started
\* (rollback_role_status).
StatusIsTrueInTurn == Alone /\ ~ uncast /\ ~ partial => StatusIsTrue

\* From a single tab ONEST is started for the first time until that succeeds,
\* and never again (ClusterStartRoleHandler).
FirstStartInTurn == Alone => FirstStartIsFirst

\* The environment can be operated on again when all is answered (start_stop_resp
\* and Task.update end the task and set the status of the environment).
QuietInTurn == Alone /\ ~ uncast => QuietAtRest

==============================================================================
