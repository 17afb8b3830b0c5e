------------------------------ MODULE MCOrder ------------------------------
(* Small instances of CatalogueOrder. *)
EXTENDS CatalogueOrder

Symmetry == Permutations(Sessions) \cup Permutations(Items)
=============================================================================
