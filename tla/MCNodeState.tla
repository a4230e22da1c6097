---------------------------- MODULE MCNodeState ----------------------------
(* An instance of the node's world state for TLC. *)
EXTENDS NodeState
============================================================================
