----------------------------- MODULE MCInstall -----------------------------
(* Two invocations at a time, two releases to come, two days. *)
EXTENDS Install, TLC

CONSTANTS p1, p2

MCProcs == {p1, p2}
Symmetry == Permutations(MCProcs)
============================================================================
