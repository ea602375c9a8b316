----------------------------- MODULE MCOutbound -----------------------------
(* Instances of Outbound for TLC: their cfg files give the callers. *)
EXTENDS Outbound
=============================================================================
