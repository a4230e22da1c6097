----------------------------- MODULE MCProvider -----------------------------
(* The provider for TLC: two clients, a local configuration, a fork whose  *)
(* creation may fail and one whose creation always fails.                  *)
EXTENDS Provider
=============================================================================
