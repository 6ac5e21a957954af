------------------------- MODULE MCTransferProgress -------------------------
(* TransferProgress on a small instance for TLC: transfers are numbers, the   *)
(* odd ones share a name and the even ones have one to themselves.            *)
EXTENDS TransferProgress

OneTwo == {"one", "two"}
MCNameOf == [t \in Transfers |-> IF t % 2 = 1 THEN "one" ELSE "two"]
=============================================================================
