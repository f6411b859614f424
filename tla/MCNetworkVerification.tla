----------------------- MODULE MCNetworkVerification ------------------------
(***************************************************************************)
(* Instances of NetworkVerification for TLC: all the workers, and one of   *)
(* them alone with one request more.                                       *)
(***************************************************************************)
EXTENDS NetworkVerification, TLC

ASSUME RequestAllowed == MaxRequests > 0   \* all the workers serve one less

VARIABLE alone   \* the requests are served one at a time, by one worker

mcVars == <<vars, alone>>

\* Workers are told apart by nothing but their identity.
Symmetry == Permutations(Worker)

MCInit ==
  \/ alone = FALSE /\ InitOf(MaxRequests - 1)
  \/ alone = TRUE /\ InitOf(MaxRequests)

MCNext ==
  /\ Next
  /\ alone' = alone
  /\ alone => \E w \in Worker : \A v \in Worker \ {w} : req'[v] = Idle

MCSpec == MCInit /\ [][MCNext]_mcVars /\ Fairness

\* Requests that are served one at a time never have two verifications run
\* (CantRemoveOldVerificationTask), whatever came of the earlier ones.
OneVerificationInTurn == alone => OneVerification

==============================================================================
