------------------------------ MODULE MCCodeIndex ------------------------------
(***************************************************************************)
(* Instances of CodeIndex for TLC.                                         *)
(***************************************************************************)
EXTENDS IndexInvariant, TLC

CONSTANTS p1, p2, a, b, gomod

\* Commit 1; its child 2, without the file a; and 3, of another line of history,
\* which has no module.
TheTree ==
    << [f \in Files |-> 1],
       [f \in Files |-> IF f = a THEN Absent ELSE 1],
       [f \in Files |-> IF f = gomod THEN Absent ELSE 1] >>

TheAncestors == << {1}, {1, 2}, {3} >>

EveryJob   == AllJobs
EveryFault == AllFaults

================================================================================
