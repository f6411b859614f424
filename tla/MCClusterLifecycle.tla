------------------------- MODULE MCClusterLifecycle --------------------------
(***************************************************************************)
(* Instances of ClusterLifecycle for TLC: one worker on all the nodes,     *)
(* with faults; one worker on a single node with one request more; all the *)
(* workers on a single node. The same again for updates and deployments of *)
(* selected nodes, with those requests they share rows with; and deletions *)
(* of a cluster that has a task, two of which may overlap.                 *)
(***************************************************************************)
EXTENDS ClusterLifecycle, TLC

\* The instances share out all the kinds of requests but those made elsewhere;
\* some serve one request less than the bound.
ASSUME KindsAllowed == RequestKinds \ {"elsewhere"} \subseteq Requests
ASSUME RequestAllowed == MaxRequests > 0

\* Nodes and workers are told apart by nothing but their identity.
Symmetry == Permutations(Node) \cup Permutations(Worker)

Selecting == {"provision_nodes", "deploy_nodes", "release", "update"}

Usual == Requests \ Selecting

Updating == {"deploy_nodes", "release", "update", "stop"}

Deleting == {"provision_nodes", "delete"}

Mixed == Selecting \cup {"apply", "stop", "unassign"}

MCInit ==
  \/ \E w \in Worker : InitOf(Node, {w}, Usual, MaxRequests - 1, MaxFaults)
  \/ \E w \in Worker, n \in Node : InitOf({n}, {w}, Usual, MaxRequests, 0)
  \/ \E n \in Node : InitOf({n}, Worker, Usual, MaxRequests - 1, 0)
  \/ \E w \in Worker : InitOf(Node, {w}, Selecting \cup {"stop"}, MaxRequests - 1, 0)
  \/ \E w \in Worker, n \in Node : InitOf({n}, {w}, Updating, MaxRequests, 0)
  \/ \E w \in Worker, n \in Node : InitOf({n}, {w}, Mixed, MaxRequests - 1, MaxFaults)
  \/ \E n \in Node : InitOf({n}, Worker, Selecting \cup {"stop"}, MaxRequests - 1, 0)
  \/ \E n \in Node : InitOf({n}, Worker, Deleting, MaxRequests, 0)

MCSpec == MCInit /\ [][Next]_vars

\* The requests are served one after the other, by one worker.
Alone == \E w \in Worker : \A v \in Worker \ {w} : req[v] = Off

\* One worker never has two deployments run on an environment
\* (DeploymentAlreadyStarted in _remove_obsolete_tasks).
OneDeploymentInTurn == Alone => OneDeployment

\* One worker never leaves a stop or a reset that is older than the deployment
\* (_remove_obsolete_tasks).
ObsoleteGoneInTurn == Alone => ObsoleteGone

(***************************************************************************)
(* For liveness: two of the usual requests, two of the others, three stops *)
(* and deployments of selected nodes.                                      *)
(***************************************************************************)
MCLiveInit ==
  \/ InitOf(Node, Worker, Usual, MaxRequests - 1, MaxFaults)
  \/ InitOf(Node, Worker, Mixed, MaxRequests - 1, MaxFaults)
  \/ InitOf(Node, Worker, {"deploy_nodes", "stop"}, MaxRequests, MaxFaults)

MCFairSpec == MCLiveInit /\ [][Next]_vars /\ Fairness

==============================================================================
