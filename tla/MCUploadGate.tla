---------------------------- MODULE MCUploadGate ----------------------------
(* UploadGate on a small instance for TLC. *)
EXTENDS UploadGate, TLC

UploadSymmetry == Permutations(Uploads) \cup Permutations(Folders)
=============================================================================
