------------------------- MODULE MCPolicyIntegrity -------------------------
(***************************************************************************)
(* Instances of PolicyIntegrity for TLC.                                   *)
(***************************************************************************)
EXTENDS PolicyIntegrity, TLC

CONSTANTS p1, c1
=============================================================================
