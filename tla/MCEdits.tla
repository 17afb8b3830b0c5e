------------------------------ MODULE MCEdits ------------------------------
(* Small instances of ExperimentEdits. *)
EXTENDS ExperimentEdits, TLC

Symmetry == Permutations(Sessions)
=============================================================================
