------------------------------ MODULE MCTaskGates ------------------------------
(* Instances of TaskGates for TLC. *)
EXTENDS TaskGates

CONSTANTS worker, reviewer, a, b

\* p1 is an implementer's tab, p2 a reviewer's.
TwoRuntimes == {"p1", "p2"}
Agents      == [p \in TwoRuntimes |-> IF p = "p1" THEN a ELSE b]
Unenforced  == {"p2"}
RoleOf      == [p \in TwoRuntimes |-> IF p = "p1" THEN worker ELSE reviewer]
================================================================================
