------------------------- MODULE MCNestedStatements -------------------------
(* NestedStatements for TLC.  The rows are interchangeable. *)
EXTENDS NestedStatements

Symmetry == Permutations(Rows)
=============================================================================
