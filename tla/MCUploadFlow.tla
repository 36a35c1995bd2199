---------------------------- MODULE MCUploadFlow ----------------------------
(* Instances of UploadFlow for TLC. *)
EXTENDS UploadFlow, TLC

Symmetry == Permutations(Completers) \cup Permutations(Finalizers) \cup Permutations(Workers)
=============================================================================
