-------------------------- MODULE MCTransferHistory --------------------------
(* TransferHistory on a small instance for TLC: sends are numbers, the odd    *)
(* ones send one file and the even ones another.                              *)
EXTENDS TransferHistory

OneTwo == {"one", "two"}
MCNameOf == [s \in Sends |-> IF s % 2 = 1 THEN "one" ELSE "two"]
=============================================================================
