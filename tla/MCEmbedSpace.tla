----------------------------- MODULE MCEmbedSpace ------------------------------
(***************************************************************************)
(* Instances of EmbedSpace for TLC.                                        *)
(***************************************************************************)
EXTENDS EmbedSpace

CONSTANTS p1, p2, r1, nomic, mini, qwen

\* Two models of one length, which only their names tell apart, and a longer one.
TheDim == [m \in Models |-> IF m = qwen THEN 2 ELSE 1]

\* One model may be chosen with GG_EMBED_MODEL.
SomeOverride == {NoModel, mini}

EveryOp    == AllOps
EveryFault == AllFaults

================================================================================
