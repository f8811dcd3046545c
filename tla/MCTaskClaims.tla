----------------------------- MODULE MCTaskClaims ------------------------------
(***************************************************************************)
(* Instances of TaskClaims for TLC.  Each configuration picks what the     *)
(* commands and the repairs may run and what may go wrong.                 *)
(***************************************************************************)
EXTENDS ClaimInvariant, TLC

CONSTANTS p1, p2, o1, o2, t1, t2

EveryOp  == AllOps
ClaimOps == {"start", "release", "cancel"}

NoRepair    == {}
EveryRepair == AllRepairs

EveryFault  == AllFaults

OneLease    == {1}
TwoLeases   == {1, 2}

\* Processes are interchangeable, and so are agents and texts.
Symmetry == Permutations(Procs) \union Permutations(Owners) \union Permutations(Texts)

================================================================================
