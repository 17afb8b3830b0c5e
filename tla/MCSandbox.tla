----------------------------- MODULE MCSandbox -----------------------------
(* Small instances of Sandbox. *)
EXTENDS Sandbox, TLC

Symmetry == Permutations(Calls)
=============================================================================
