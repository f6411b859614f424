---------------------------- MODULE MCLockOrder -----------------------------
(***************************************************************************)
(* Instances of LockOrder for TLC.                                         *)
(***************************************************************************)
EXTENDS LockOrder, TLC

\* Threads of the web server are told apart by nothing but their identity.
Symmetry == Permutations(Thread \ {Consumer})

==============================================================================
