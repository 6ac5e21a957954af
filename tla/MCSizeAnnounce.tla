--------------------------- MODULE MCSizeAnnounce ---------------------------
(* SizeAnnounce on a small instance for TLC.  Two transfers send "one", one   *)
(* "two"; the file " one" is recorded under "one" and looked up under " one", *)
(* "dir/one" is recorded as a whole and looked up under "one".                *)
EXTENDS SizeAnnounce

AllNames == {"one", "two", " one", "dir/one"}
MCNameOf == [f \in Transfers |->
    CASE f = 2 -> "two" [] f = 4 -> " one" [] f = 6 -> "dir/one" [] OTHER -> "one"]
MCTrimmed == [n \in Names |-> IF n = " one" THEN "one" ELSE n]
MCBase == [n \in Names |-> IF n = "dir/one" THEN "one" ELSE n]
=============================================================================
