----------------------------- MODULE MCPairing -----------------------------
(* Pairing on a small instance for TLC. *)
EXTENDS Pairing, TLC

ClickSymmetry == Permutations(Clicks)
=============================================================================
