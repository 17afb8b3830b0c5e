---------------------------- MODULE MCTemplates ----------------------------
(* Small instances of TemplateRequests. *)
EXTENDS TemplateRequests, TLC

\* Contents differ in their names, so that edits can collide.
MCNameOf == [c \in Contents |-> c]

Symmetry == Permutations(Sessions) \cup Permutations(TemplateIds)
               \cup Permutations(ExpIds) \cup Permutations(Contents)
=============================================================================
