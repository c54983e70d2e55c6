----------------------------- MODULE MCSafeWrite -----------------------------
(* Calls are interchangeable, and so are the contents. *)
EXTENDS SafeWrite, TLC

Interchangeable == Permutations(Writer) \cup Permutations(Content)
=============================================================================
