-------------------------- MODULE MCUploadLifecycle --------------------------
(* Instances of UploadLifecycle for TLC. *)
EXTENDS UploadLifecycle, TLC

\* Interchangeable actors; a call of complete() is also the name of its key.
Symmetry == Permutations(Files)
=============================================================================
