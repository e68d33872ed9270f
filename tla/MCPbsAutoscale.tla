--------------------------- MODULE MCPbsAutoscale ---------------------------
(* Small instances of PbsAutoscale and its refinement for TLC. *)
EXTENDS AutoscaleLease

CONSTANT n1

OneNode  == {n1}
NoNodes  == {}
=============================================================================
