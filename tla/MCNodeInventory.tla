--------------------------- MODULE MCNodeInventory ---------------------------
(***************************************************************************)
(* Instances of NodeInventory for TLC: two machines and one worker, two    *)
(* workers and one machine; from the start, and from where the first       *)
(* machine runs the system that is being installed on it.                  *)
(***************************************************************************)
EXTENDS NodeInventory, TLC

CONSTANTS m1, m2, p1, p2, a
CONSTANT MaxEvents   \* bound: machines switched, nodes operated on, timeouts

ASSUME InstancesAssumption == m1 \in Known /\ a \in Lease

VARIABLES
  alone,  \* one worker serves all requests
  left    \* what is left of MaxEvents

mcVars == <<vars, alone, left>>

MCPhys == m1 :> p1 @@ m2 :> p2

\* The first machine was found at a, and has just booted what is installed.
Installing ==
  /\ rows = [i \in Id |->
       IF i = 1 THEN [Created([mac |-> OwnMac(m1), ip |-> a]) EXCEPT
                        !.status = "provisioning"]
       ELSE NoRow]
  /\ mode = [m \in Machine |-> IF m = m1 THEN "os" ELSE "off"]
  /\ lease = [m \in Machine |-> IF m = m1 THEN a ELSE NoAddress]
  /\ uid = [m \in Machine |-> NoId]
  /\ worker = [w \in Worker |-> Idle]
  /\ calm = [i \in Id |-> 0]
  /\ early = FALSE

MCInit ==
  \/ Init /\ alone \in BOOLEAN /\ left = MaxEvents
  \/ Installing /\ alone = TRUE /\ left = MaxEvents
  \/ Installing /\ alone = FALSE /\ left = MaxEvents - 1

Event ==
  \/ \E m \in Machine : Boots(m) \/ PowerOff(m) \/ LeaseEnds(m)
  \/ \E w \in Worker : AgentGivesUp(w)
  \/ \E i \in Id : Operates(i)

MCNext ==
  /\ \/ left > 0 /\ Event /\ left' = left - 1
     \/ /\ \/ \E m \in Machine, w \in Worker : AgentRuns(m, w)
           \/ \E w \in Worker : Serves(w)
           \/ UpdateNodesStatus
           \/ Tick
        /\ left' = left
  /\ alone' = alone
  /\ IF alone
     THEN \E w \in Worker : \A v \in Worker \ {w} : worker'[v].stage = "idle"
     ELSE mode'[m2] = "off"

MCSpec == MCInit /\ [][MCNext]_mcVars /\ Fairness

\* Served one request after the other, the row an installed system made of
\* itself after its node was deleted is gone when its machine is found anew
\* (deleteconfictnode).
ConflictGoneInTurn ==
  alone => \A m \in Machine :
             ByMac(OwnMac(m)) = {} \/ ByMac(SystemMac(m)) = {}

==============================================================================
