------------------------------ MODULE MCAskpass ------------------------------
(* Invocations are interchangeable. *)
EXTENDS Askpass, TLC

Interchangeable == Permutations(Proc)
=============================================================================
