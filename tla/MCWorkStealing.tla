--------------------------- MODULE MCWorkStealing ---------------------------
(* Instances of WorkStealing for TLC. *)
EXTENDS WorkStealing, TLC

\* The workers are interchangeable; the master is not.
Symmetry == Permutations(Thread \ {Master})
=============================================================================
