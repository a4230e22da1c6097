----------------------------- MODULE MCFixtures -----------------------------
(* An instance of the fixtures for TLC. *)
EXTENDS Fixtures, TLC

CONSTANTS f1, f2

FixtureSymmetry == Permutations({f1, f2})
============================================================================
