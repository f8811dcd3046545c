--------------------------- MODULE MCBrainSnapshot -----------------------------
(***************************************************************************)
(* Instances of BrainSnapshot for TLC.                                     *)
(***************************************************************************)
EXTENDS BrainSnapshot

CONSTANTS p1, p2, k1, k2

TwoKinds   == <<k1, k2>>
EveryJob   == AllJobs
EveryFault == AllFaults

\* What runs by itself in a session, and the creates it runs beside.
SessionJobs == {"create", "export", "reconcile"}
StoreFault  == {"store"}

================================================================================
