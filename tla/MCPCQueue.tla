----------------------------- MODULE MCPCQueue -----------------------------
(* Instances of LockedQueue for TLC. *)
EXTENDS LockedQueue
=============================================================================
