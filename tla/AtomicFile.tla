------------------------------ MODULE AtomicFile ------------------------------
(***************************************************************************)
(* What the header of src/util/safe-write.ts promises to its callers: one  *)
(* file that readers see either before or after a write, never in between, *)
(* also across a crash of the machine.                                     *)
(***************************************************************************)
CONSTANTS Content,  \* what callers write
          Absent    \* there is no file

VARIABLES value,    \* what a reader of the file gets
          stored    \* what is left of it after a power loss

fileVars == <<value, stored>>

Init == /\ value \in Content \cup {Absent}
        /\ stored = value

Write   == value' \in Content /\ UNCHANGED stored

\* The operating system writes back at a time of its choosing.
Persist == stored' = value /\ UNCHANGED value

PowerLoss == value' = stored /\ UNCHANGED stored

Next == Write \/ Persist \/ PowerLoss

Spec == Init /\ [][Next]_fileVars
=============================================================================
