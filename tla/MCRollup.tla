------------------------------ MODULE MCRollup ------------------------------
(* Small instances of Rollup for TLC. *)
EXTENDS Rollup, TLC

WorkerSymmetry == Permutations(Workers)
=============================================================================
