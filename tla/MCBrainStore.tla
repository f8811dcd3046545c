----------------------------- MODULE MCBrainStore ------------------------------
(***************************************************************************)
(* Instances of BrainStore for TLC.  Each configuration picks the origins  *)
(* of the records, what the janitors run and what may go wrong.            *)
(***************************************************************************)
EXTENDS BrainInvariant, TLC

CONSTANTS r1, r2, a1, a2, j1, j2

AnyFault     == AllFaults

FreshOnly    == {"fresh"}

AnyJob       == AllJobs

\* The processes of one kind, and the records, are interchangeable.
Symmetry == Permutations(Records) \union Permutations(Authors)
            \union Permutations(Janitors)

================================================================================
