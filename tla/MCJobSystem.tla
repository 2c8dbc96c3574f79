---------------------------- MODULE MCJobSystem ----------------------------
(* JobSystem for TLC: the workers are interchangeable. *)
EXTENDS JobSystem, TLC

WorkerSymmetry == Permutations(Workers)
=============================================================================
