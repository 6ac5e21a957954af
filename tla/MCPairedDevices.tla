--------------------------- MODULE MCPairedDevices ---------------------------
(* PairedDevices on a small instance for TLC: sessions are numbers, the odd   *)
(* ones of one phone, the even ones of another.                               *)
EXTENDS PairedDevices

AB == {"a", "b"}
MCPhoneOf == [s \in Sessions |-> IF s % 2 = 1 THEN "a" ELSE "b"]
=============================================================================
