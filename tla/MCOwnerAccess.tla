--------------------------- MODULE MCOwnerAccess ---------------------------
(* Instances of OwnerAccess for TLC. *)
EXTENDS OwnerAccess, TLC

Alike == Permutations(Forms)
=============================================================================
