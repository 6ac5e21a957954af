----------------------------- MODULE MCScpSink ------------------------------
(* ScpSink on a small instance for TLC: every session of at most MaxRecords   *)
(* records, and of at most MaxDeep files and directories, in which            *)
(* directories end as they begin, and every session at all of at most MaxWild *)
(* files and directories, some of them on another drive.                      *)
EXTENDS ScpSink, SequencesExt

CONSTANTS MaxRecords, MaxDeep, MaxWild

\* "a " and "a" are one name on disk: sanitize_component trims.
MCNames == {"a", "a ", "d", "..", "D:a"}
MCClean == [n \in MCNames |-> CASE n \in {"a", "a ", "D:a"} -> "a" [] n = "d" -> "d" [] OTHER -> "bad"]
MCDrive == "D:a" :> "D:"
MCBad == "bad"
MCRoot == <<"share">>

Rows(kind, names, sizes) == [kind : {kind}, name : names, size : sizes]
MCRecords ==
    Rows("C", {"a"}, {0, 2}) \cup Rows("C", {"a ", ".."}, {1}) \cup Rows("B", {"a"}, {1})
    \cup Rows("D", {"a", "d"}, {0}) \cup UNION {Rows(k, {"a"}, {0}) : k \in {"E", "T", "W"}}

Count(s, kind, n) == Cardinality({i \in 1..n : s[i].kind = kind})
Balanced(s) ==
    /\ Count(s, "D", Len(s)) = Count(s, "E", Len(s))
    /\ \A n \in 1..Len(s) : Count(s, "D", n) >= Count(s, "E", n)

DeepRecords == Rows("C", {"a"}, {1}) \cup Rows("D", {"a", "d"}, {0}) \cup Rows("E", {"a"}, {0})
WildRecords == Rows("C", {"a", "D:a"}, {1}) \cup Rows("D", {"a", "D:a"}, {0}) \cup Rows("E", {"a"}, {0})
MCSessions ==
    {s \in BoundedSeq(MCRecords, MaxRecords) \cup BoundedSeq(DeepRecords, MaxDeep) : Balanced(s)}
    \cup BoundedSeq(WildRecords, MaxWild)

\* Nothing, or a file of an earlier session, in the shared folder.
MCDisks == {<<>>, (<<"share", "a">> :> <<0, 1>>)}
=============================================================================
