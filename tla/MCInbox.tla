------------------------------- MODULE MCInbox ---------------------------------
(***************************************************************************)
(* Instances of Inbox for TLC.                                             *)
(***************************************************************************)
EXTENDS Inbox, TLC

CONSTANTS p1, p2, p3, r1, r2, direct, broadcast

EveryJob   == AllJobs
EveryFault == AllFaults

\* Processes are interchangeable, and so are readers.
Symmetry == Permutations(Procs) \union Permutations(Readers)

================================================================================
