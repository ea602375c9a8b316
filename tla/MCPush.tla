------------------------------- MODULE MCPush -------------------------------
(* Instance of Push for TLC. *)
EXTENDS Push
=============================================================================
