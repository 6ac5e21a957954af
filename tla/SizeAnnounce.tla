---------------------------- MODULE SizeAnnounce ----------------------------
(* How an incoming transfer learns its size: `tumbleweed transfer` in         *)
(* SshHandler::exec_request, the first half of SftpSession::open (both in     *)
(* src/tools/ssh_server.rs), and announce_size on the sending side            *)
(* (src/tools/ssh_send.rs).                                                   *)
(*                                                                            *)
(* One connection, whose pending_sizes the exec handler's reader tasks and    *)
(* the SFTP session share.  Requests arrive in the order they were sent; the  *)
(* reader task of an announcement runs whenever the runtime schedules it.     *)
(* A size is told apart only by the transfer it was announced for.  Left out  *)
(* are clients that announce nothing, and names of blanks only: they record   *)
(* nothing and find no size, as when the announcement cannot be read.         *)
EXTENDS Naturals

CONSTANTS Transfers,   \* files sent over the connection
          Names,
          NameOf,      \* [Transfers -> Names]
          Trimmed,     \* [Names -> Names]: a name without the blanks around it
          Base,        \* [Names -> Names]: its part behind the last / or \
          Unknown      \* total 0: no size is known

ASSUME AnnounceConstants ==
    /\ NameOf \in [Transfers -> Names]
    /\ Trimmed \in [Names -> Names] /\ Base \in [Names -> Names]
    /\ \A n \in Names : Trimmed[n] = Base[n] => Trimmed[n] = n
    /\ Unknown \notin Transfers

VARIABLES
    sender,   \* [Transfers -> control state of the sender]
    acked,    \* transfers whose exec request was answered
    reader,   \* [Transfers -> state of the reader task of its announcement]
    sizes,    \* pending_sizes: [Names -> the transfer whose size it holds]
    total,    \* [Transfers -> the size `open` found]
    late      \* history variable: transfers whose open gave up its poll while
              \* their announcement was still being read

vars == <<sender, acked, reader, sizes, total, late>>

\* exec_request records the size of f under its name trimmed as a whole; open
\* looks for it under the last part of the path, as it is.
Recorded(f) == Trimmed[NameOf[f]]
LookedUp(f) == Base[NameOf[f]]

Straight(f) == Recorded(f) = LookedUp(f)

\* Types; a size is kept under the key it was recorded with, and taken for it.
TypeOK ==
    /\ sender \in [Transfers -> {"idle", "announced", "polling", "opened"}]
    /\ acked \subseteq Transfers
    /\ reader \in [Transfers -> {"none", "reading", "recorded", "failed"}]
    /\ sizes \in [Names -> Transfers \cup {Unknown}]
    /\ total \in [Transfers -> Transfers \cup {Unknown}]
    /\ late \subseteq Transfers
    /\ \A n \in Names : sizes[n] # Unknown => Recorded(sizes[n]) = n
    /\ \A f \in Transfers : total[f] # Unknown => Recorded(total[f]) = LookedUp(f)

Init ==
    /\ sender = [f \in Transfers |-> "idle"]
    /\ acked = {}
    /\ reader = [f \in Transfers |-> "none"]
    /\ sizes = [n \in Names |-> Unknown]
    /\ total = [f \in Transfers |-> Unknown]
    /\ late = {}
------------------------------------------------------------------------------
\* The sender writes the exec request, the size and the name.  It sends a file
\* again only when its last transfer is through.
Announce(f) ==
    /\ sender[f] = "idle"
    /\ \A g \in Transfers : NameOf[g] = NameOf[f] => sender[g] \in {"idle", "opened"}
    /\ sender' = [sender EXCEPT ![f] = "announced"]
    /\ UNCHANGED <<acked, reader, sizes, total, late>>

\* exec_request answers before it spawns the task that reads the announcement.
ExecRequest(f) ==
    /\ sender[f] = "announced"
    /\ f \notin acked
    /\ acked' = acked \cup {f}
    /\ reader' = [reader EXCEPT ![f] = "reading"]
    /\ UNCHANGED <<sender, sizes, total, late>>

RecordSize(f) ==
    /\ reader[f] = "reading"
    /\ sizes' = [sizes EXCEPT ![Recorded(f)] = f]
    /\ reader' = [reader EXCEPT ![f] = "recorded"]
    /\ UNCHANGED <<sender, acked, total, late>>

\* The announcement cannot be read: no size, no name, or 30 s have passed.
ReadFails(f) ==
    /\ reader[f] = "reading"
    /\ reader' = [reader EXCEPT ![f] = "failed"]
    /\ UNCHANGED <<sender, acked, sizes, total, late>>

\* Mutation: a size stays in the map when an open has taken it.
TakeCopies(f) ==
    /\ total' = [total EXCEPT ![f] = sizes[LookedUp(f)]]
    /\ UNCHANGED sizes

\* `remove` on pending_sizes.
Take(f) ==
    /\ total' = [total EXCEPT ![f] = sizes[LookedUp(f)]]
    /\ sizes' = [sizes EXCEPT ![LookedUp(f)] = Unknown]

\* Mutation: one look at the map, no poll.
OpenOnce(f) ==
    /\ sender[f] = "announced"
    /\ f \in acked
    /\ sender' = [sender EXCEPT ![f] = "opened"]
    /\ Take(f)
    /\ UNCHANGED <<acked, reader, late>>

\* The sender has seen the answer to its exec request, or waited 15 s after
\* sending it, and opens the file; the open looks once, then begins to poll.
Open(f) ==
    /\ sender[f] = "announced"
    /\ f \in acked
    /\ IF sizes[LookedUp(f)] # Unknown
       THEN sender' = [sender EXCEPT ![f] = "opened"] /\ Take(f)
       ELSE sender' = [sender EXCEPT ![f] = "polling"] /\ UNCHANGED <<sizes, total>>
    /\ UNCHANGED <<acked, reader, late>>

PollFinds(f) ==
    /\ sender[f] = "polling"
    /\ sizes[LookedUp(f)] # Unknown
    /\ sender' = [sender EXCEPT ![f] = "opened"]
    /\ Take(f)
    /\ UNCHANGED <<acked, reader, late>>

\* 500 ms have passed.
PollEnds(f) ==
    /\ sender[f] = "polling"
    /\ sizes[LookedUp(f)] = Unknown
    /\ sender' = [sender EXCEPT ![f] = "opened"]
    /\ late' = IF reader[f] = "reading" THEN late \cup {f} ELSE late
    /\ UNCHANGED <<acked, reader, sizes, total>>

Next ==
    \E f \in Transfers :
        \/ Announce(f) \/ ExecRequest(f) \/ RecordSize(f) \/ ReadFails(f)
        \/ Open(f) \/ PollFinds(f) \/ PollEnds(f)

Spec == Init /\ [][Next]_vars
------------------------------------------------------------------------------
\* The two keys of every transfer that records or looks up under n are the
\* same, and none of them gave up before its announcement was recorded.
Undisturbed(n) ==
    \A g \in Transfers : n \in {Recorded(g), LookedUp(g)} =>
        (Straight(g) \/ sender[g] = "idle") /\ g \notin late

\* What is left of "so the size is always in place" (ssh_server.rs:477-478): an
\* open ends its search with the size announced for this very transfer, and
\* with none if the announcement could not be read.  Two kinds of transfer leave
\* a size behind for a later open of another file, and are excepted: one whose
\* open gave up before its announcement was recorded, and one whose name has a
\* blank at an end or a separator in it, for exec_request trims the whole name
\* while open splits it and does not trim.
OpenFindsItsSize ==
    \A f \in Transfers :
        sender[f] = "opened" /\ Undisturbed(LookedUp(f)) =>
            total[f] = IF reader[f] = "failed" THEN Unknown ELSE f

\* A size announced once is given to one transfer only, also when opens give
\* up before their size is there.
NoSizeTwice ==
    \A f, g \in Transfers : total[f] = total[g] /\ total[f] # Unknown => f = g
=============================================================================
