----------------------------- MODULE MCLateJoiner -----------------------------
(***************************************************************************)
(* A two-member group that boots: the registrar mines alone until it       *)
(* discovers the other member.                                             *)
(***************************************************************************)
EXTENDS MCChainNode, Registration

=============================================================================
