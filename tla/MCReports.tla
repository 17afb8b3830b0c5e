----------------------------- MODULE MCReports -----------------------------
(* Small instances of ReportPipeline. *)
EXTENDS ReportPipeline

Symmetry == Permutations(ExpIds) \cup Permutations(Sessions)
=============================================================================
