--------------------------- MODULE MCFileFreshen ---------------------------
(* Instances of FileFreshen for TLC. *)
EXTENDS FileFreshen, TLC

Symmetry == Permutations(Calls)
=============================================================================
