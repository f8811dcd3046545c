------------------------------ MODULE MCSeqAlloc -------------------------------
(***************************************************************************)
(* Instances of SeqAlloc for TLC.                                          *)
(***************************************************************************)
EXTENDS SeqAlloc, TLC

CONSTANTS p1, p2, p3

EveryFault == AllFaults

Symmetry == Permutations(Procs)

================================================================================
