--------------------------- MODULE MCCompilation ---------------------------
(* An instance of the compile task for TLC: a source file of the project   *)
(* and two libraries, one of which imports the other.                      *)
EXTENDS Compilation
CONSTANTS a, b, d, x, v1, v2, c1, c2

\* a is of the project.  Its first version imports b, which imports d; its
\* second version imports d only, so that b leaves the graph and comes back.
MCImportsOf(f, c) ==
  CASE f = a -> IF c = v1 THEN {b} ELSE {d}
    [] f = b -> {d}
    [] f = d -> {}
\* The second version of d has no contract.
MCContractsOf(f, c) == IF f = d /\ c = v2 THEN {} ELSE {x}
\* One config for all files, or another one for the libraries.
MCSettings == {[f \in Files |-> c1], [f \in Files |-> IF f = a THEN c1 ELSE c2]}
\* The project starts with all of its files, b in its first version; users
\* change and delete them later.
MCProjects == {s \in [Files -> Contents] : s[b] = v1}
\* In the first, d gets the config of the others from an override.
MCOverridden(s) == IF s[d] = c1 THEN {d} ELSE {}
============================================================================
