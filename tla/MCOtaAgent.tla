----------------------------- MODULE MCOtaAgent -----------------------------
(***************************************************************************)
(* Instances of OtaAgent for TLC: the versions of the packages.            *)
(***************************************************************************)
EXTENDS OtaAgent, TLC

\* The requests carry the versions 1, 2, ...; the newest package of the server is the
\* last one, and --apply takes the first one, whatever runs.
Versions == [c \in Commands |-> CASE c = "r1" -> 1 [] c = "r2" -> 2
                                  [] c = "pull-latest" -> 2 [] OTHER -> 1]

\* Those who start ota-agent differ in nothing.
Callers == Permutations(Procs)
=============================================================================
