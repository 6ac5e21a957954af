------------------------------ MODULE ScpSink -------------------------------
(* Receiving over scp: `scp_receive` with `sanitize_component`, started by    *)
(* the `scp` branch of exec_request (src/tools/ssh_server.rs), against the    *)
(* peer's scp in source mode (external).                                      *)
(*                                                                            *)
(* The peer sends a session: a sequence of records, each one line, where a    *)
(* file is followed by its bytes and one terminator.  It waits for an         *)
(* acknowledgement before its first line and after every line and             *)
(* terminator.  When it cannot read a file to its end, it fills up the bytes  *)
(* and puts an error line in the place of the terminator.                     *)
(* The stream is the sequence of these tokens, kept as two                    *)
(* positions (record, token of the record): how far the peer has written and  *)
(* how far the sink has read.  A line is one token: the end of the stream     *)
(* ends the loop cleanly in the middle of a line as well as before it.  The   *)
(* peer writes no empty line, none of more than 8192 bytes and no size that   *)
(* is not a number: how the sink takes these is left out, and so are names    *)
(* that are a drive and nothing else, or that Windows gives a meaning of its  *)
(* own (streams, devices).                                                    *)
(* Contents are counted: <<record, how many of its bytes>>.                   *)
EXTENDS Naturals, Sequences, FiniteSets

CONSTANTS Root,      \* share_root(): the names on its path
          Names,     \* names of files and folders the peers send
          Clean,     \* sanitize_component: [Names -> name on disk, or Bad]
          Bad,
          Drive,     \* names that begin with a drive, as in "D:x": [those -> drive]
          Sessions,  \* what the peers may send
          Disks      \* what may be in the shared folder: [paths -> contents]

\* A file, a file the peer fails to read to its end, the begin and the end of
\* a directory, time stamps, and an error of the peer on a line of its own.
Record == [kind : {"C", "B", "D", "E", "T", "W"}, name : Names, size : Nat]

ASSUME ScpConstants ==
    /\ Sessions \subseteq Seq(Record)
    /\ Root \in Seq({Root[k] : k \in DOMAIN Root})
    /\ \A d \in DOMAIN Drive :
          Drive[d] \notin {Root[k] : k \in DOMAIN Root} \cup {Clean[n] : n \in Names}

VARIABLES
    session,    \* the records of this session
    peer,       \* "sending", "finished", or "gone": it or its connection
    at, off,    \* the peer: the next token it writes
    mode,       \* the peer: "write", or "wait" for an acknowledgement
    confirmed,  \* the peer: how many records were acknowledged to their end
    acks,       \* acknowledgements on their way to the peer
    pc,         \* the place in scp_receive
    item, byte, \* the sink: the next token it reads
    left,       \* `remaining`
    cur,        \* `current`
    partial,    \* the file being written, also after an error
    disk,       \* the shared folder: [paths that exist -> folder or contents]
    taken       \* auxiliary: how many records have taken effect

source == <<session, peer, at, off, mode, confirmed>>
sink == <<pc, item, byte, left, cur, partial, disk, taken>>
vars == <<source, acks, sink>>

Dir == <<0, 0>>
IsDir(path) == path \in DOMAIN disk /\ disk[path] = Dir
IsPlainFile(path) == path \in DOMAIN disk /\ disk[path] # Dir

\* sanitize_component lets a drive through, and `join` gives a path that has
\* one of its own the place of what was there.
Join(folder, name) ==
    IF name \in DOMAIN Drive THEN <<Drive[name], Clean[name]>>
    ELSE Append(folder, Clean[name])

\* `parent` leads out of the shared folder, and stays where a drive begins.
Parent(path) ==
    IF path = <<>> \/ path \in {<<Drive[d]>> : d \in DOMAIN Drive} THEN path
    ELSE SubSeq(path, 1, Len(path) - 1)

Put(path, what) ==
    disk' = [p \in DOMAIN disk \cup {path} |-> IF p = path THEN what ELSE disk[p]]

\* Token 0 of a record is its line, then come the bytes of a file and its
\* terminator.  The error line of a "B" is the terminator's byte and one token
\* for the rest of the line.
IsContents(i, b) == b \in 1..session[i].size
AtEnd(i, b) ==
    \/ session[i].kind = "C" /\ b = session[i].size + 1
    \/ session[i].kind = "B" /\ b = session[i].size + 2
    \/ session[i].kind \notin {"C", "B"} /\ b = 0

PeerAdvances ==
    /\ at' = IF AtEnd(at, off) THEN at + 1 ELSE at
    /\ off' = IF AtEnd(at, off) THEN 0 ELSE off + 1
SinkAdvances ==
    /\ item' = IF AtEnd(item, byte) THEN item + 1 ELSE item
    /\ byte' = IF AtEnd(item, byte) THEN 0 ELSE byte + 1

Running == pc \notin {"ended", "failed"}
Arrived == <<item, byte>> # <<at, off>>
Rec == session[item]
Dest == Join(cur, Rec.name)

Init ==
    /\ session \in Sessions
    /\ disk \in Disks
    /\ peer = "sending" /\ at = 1 /\ off = 0 /\ mode = "wait"
    /\ confirmed = 0
    /\ acks = 0
    /\ pc = "ready" /\ item = 1 /\ byte = 0 /\ left = 0
    /\ cur = Root
    /\ partial = {}
    /\ taken = 0
------------------------------------------------------------------------------
(* The peer *)

\* Its own error line ("W") is the one it expects no answer to.
PeerWrites ==
    /\ peer = "sending" /\ Running
    /\ mode = "write"
    /\ at <= Len(session)
    /\ PeerAdvances
    /\ mode' = IF session[at].kind # "W" /\ (off = 0 \/ AtEnd(at, off))
               THEN "wait" ELSE "write"
    /\ UNCHANGED <<session, peer, confirmed, acks, sink>>

PeerReadsAck ==
    /\ peer = "sending"
    /\ mode = "wait"
    /\ acks > 0
    /\ mode' = "write"
    /\ acks' = acks - 1
    /\ confirmed' = IF off = 0 /\ at > 1 THEN confirmed + 1 ELSE confirmed
    /\ UNCHANGED <<session, peer, at, off, sink>>

PeerFinishes ==
    /\ peer = "sending"
    /\ mode = "write"
    /\ at > Len(session)
    /\ peer' = "finished"
    /\ UNCHANGED <<session, at, off, mode, confirmed, acks, sink>>

\* The sink has dropped the stream.
PeerGivesUp ==
    /\ peer = "sending" /\ ~Running
    /\ mode = "wait" => acks = 0
    /\ peer' = "gone"
    /\ UNCHANGED <<session, at, off, mode, confirmed, acks, sink>>

\* The peer ends, or the connection does (after an hour of silence at the
\* latest, `inactivity_timeout`): what is on its way may still arrive or not.
PeerLost ==
    /\ peer = "sending"
    /\ peer' = "gone"
    /\ UNCHANGED <<session, at, off, mode, confirmed, acks, sink>>
------------------------------------------------------------------------------
(* scp_receive *)

Fail ==
    /\ pc' = "failed"
    /\ UNCHANGED <<source, acks, left, cur, partial, disk, taken>>

\* write_all of one zero: the initial one, after a header, after the rest.
Ack ==
    /\ pc \in {"ready", "header", "ack"}
    /\ acks' = acks + 1
    /\ pc' = IF pc = "header" THEN "create" ELSE "line"
    /\ UNCHANGED <<source, item, byte, left, cur, partial, disk, taken>>

ReadLine(kind) ==
    /\ pc = "line"
    /\ Arrived
    /\ byte = 0
    /\ Rec.kind = kind
    /\ SinkAdvances

ReadFile ==
    /\ ReadLine("C") \/ ReadLine("B")
    /\ Clean[Rec.name] # Bad
    /\ left' = Rec.size
    /\ pc' = "header"
    /\ UNCHANGED <<source, acks, cur, partial, disk, taken>>

\* create_dir_all: nothing to do where the folder exists, an error where a file
\* has its name.
EnterDir ==
    /\ ReadLine("D")
    /\ Clean[Rec.name] # Bad
    /\ ~IsPlainFile(Dest)
    /\ cur' = Dest
    /\ Put(Dest, Dir)
    /\ taken' = taken + 1
    /\ pc' = "ack"
    /\ UNCHANGED <<source, acks, left, partial>>

\* Mutation: the end of a folder leads back to the shared folder.
LeaveDirToRoot ==
    /\ ReadLine("E")
    /\ cur' = Root
    /\ taken' = taken + 1
    /\ pc' = "ack"
    /\ UNCHANGED <<source, acks, left, partial, disk>>

\* Mutation: the end of a folder is not acknowledged.
LeaveDirSilently ==
    /\ ReadLine("E")
    /\ cur' = Parent(cur)
    /\ taken' = taken + 1
    /\ pc' = "line"
    /\ UNCHANGED <<source, acks, left, partial, disk>>

LeaveDir ==
    /\ ReadLine("E")
    /\ cur' = Parent(cur)
    /\ taken' = taken + 1
    /\ pc' = "ack"
    /\ UNCHANGED <<source, acks, left, partial, disk>>

\* Mutation: time stamps are not acknowledged.
ReadTimesSilently ==
    /\ ReadLine("T")
    /\ taken' = taken + 1
    /\ pc' = "line"
    /\ UNCHANGED <<source, acks, left, cur, partial, disk>>

ReadTimes ==
    /\ ReadLine("T")
    /\ taken' = taken + 1
    /\ pc' = "ack"
    /\ UNCHANGED <<source, acks, left, cur, partial, disk>>

\* A name that is refused, a folder that cannot be made (also for want of room
\* or rights, where the folder does not exist), an error line.
LineRefused ==
    /\ \/ (ReadLine("C") \/ ReadLine("B")) /\ Clean[Rec.name] = Bad
       \/ ReadLine("D") /\ ~(Clean[Rec.name] # Bad /\ IsDir(Dest))
       \/ ReadLine("W")
    /\ Fail

\* Any byte that begins no record, like the rest of an error line.
UnexpectedByte ==
    /\ pc = "line"
    /\ Arrived
    /\ byte # 0
    /\ SinkAdvances
    /\ Fail

\* Mutation: the bytes after the header are not read.
CreateEmptyFile ==
    /\ pc = "create"
    /\ ~IsDir(Dest)
    /\ Put(Dest, <<item, 0>>)
    /\ partial' = {Dest}
    /\ pc' = "flush"
    /\ UNCHANGED <<source, acks, item, byte, left, cur, taken>>

\* File::create truncates what has the name; a folder has it: an error.
CreateFile ==
    /\ pc = "create"
    /\ ~IsDir(Dest)
    /\ Put(Dest, <<item, 0>>)
    /\ partial' = {Dest}
    /\ pc' = IF left > 0 THEN "payload" ELSE "flush"
    /\ UNCHANGED <<source, acks, item, byte, left, cur, taken>>

\* What is read is written, a byte of the file or whatever comes instead.
ReadPayload ==
    /\ pc = "payload"
    /\ Arrived
    /\ Put(Dest, <<item, IF IsContents(item, byte) THEN disk[Dest][2] + 1 ELSE 0>>)
    /\ SinkAdvances
    /\ left' = left - 1
    /\ pc' = IF left = 1 THEN "flush" ELSE "payload"
    /\ UNCHANGED <<source, acks, cur, partial, taken>>

\* Mutation: the byte after the contents is left in the stream.
FlushAndAnswer ==
    /\ pc = "flush"
    /\ partial' = {}
    /\ taken' = taken + 1
    /\ pc' = "ack"
    /\ UNCHANGED <<source, acks, item, byte, left, cur, disk>>

FlushFile ==
    /\ pc = "flush"
    /\ partial' = {}
    /\ taken' = taken + 1
    /\ pc' = "trailer"
    /\ UNCHANGED <<source, acks, item, byte, left, cur, disk>>

ReadTrailer ==
    /\ pc = "trailer"
    /\ Arrived
    /\ SinkAdvances
    /\ pc' = "ack"
    /\ UNCHANGED <<source, acks, left, cur, partial, disk, taken>>

DiskFails ==
    /\ pc \in {"create", "payload", "flush"}
    /\ Fail
    /\ UNCHANGED <<item, byte>>

\* The end of the stream: clean where a line is due, an error in a file.
EndOfStream ==
    /\ \/ peer = "finished" /\ ~Arrived
       \/ peer = "gone"
    /\ pc \in {"line", "payload", "trailer"}
    /\ pc' = IF pc = "line" THEN "ended" ELSE "failed"
    /\ UNCHANGED <<source, acks, item, byte, left, cur, partial, disk, taken>>

\* A write on a stream that is gone.
AckFails ==
    /\ peer = "gone"
    /\ pc \in {"ready", "header", "ack"}
    /\ Fail
    /\ UNCHANGED <<item, byte>>

PeerStep == PeerWrites \/ PeerReadsAck \/ PeerFinishes \/ PeerGivesUp
SinkStep ==
    \/ Ack \/ ReadFile \/ EnterDir \/ LeaveDir \/ ReadTimes \/ LineRefused
    \/ UnexpectedByte \/ CreateFile \/ ReadPayload \/ FlushFile \/ ReadTrailer
    \/ DiskFails \/ EndOfStream \/ AckFails

Next == PeerStep \/ PeerLost \/ SinkStep

Spec == Init /\ [][Next]_vars

\* The task of the sink is scheduled, and so is the peer as long as it is there.
FairSpec == Spec /\ WF_vars(SinkStep) /\ WF_vars(PeerStep)
------------------------------------------------------------------------------
(* The sink stays in step with the peer. *)

IsFile == item <= Len(session) /\ Rec.kind \in {"C", "B"}
AfterText == item <= Len(session) /\ Rec.kind = "B" /\ byte = Rec.size + 2

TypeOK ==
    /\ session \in Seq(Record)
    /\ peer \in {"sending", "finished", "gone"}
    /\ at \in 1..(Len(session) + 1) /\ off \in Nat
    /\ off > 0 => at <= Len(session)
    /\ mode \in {"write", "wait"}
    /\ acks \in {0, 1}
    /\ pc \in {"ready", "line", "header", "create", "payload", "flush",
               "trailer", "ack", "ended", "failed"}
    /\ item \in 1..(Len(session) + 1) /\ byte \in Nat
    /\ left \in Nat
    /\ taken \in 0..Len(session)
    /\ confirmed \in 0..taken

\* What the sink is about to read is what comes next in the stream.
Framing ==
    /\ pc = "ready" => item = 1 /\ byte = 0
    /\ pc \in {"line", "ack"} => byte = 0 \/ AfterText
    /\ pc \in {"header", "create"} => IsFile /\ byte = 1 /\ left = Rec.size
    /\ pc = "payload" => IsFile /\ left \in 1..Rec.size /\ byte + left = Rec.size + 1
    /\ pc \in {"flush", "trailer"} => IsFile /\ byte = Rec.size + 1 /\ left = 0

\* Whose turn it is: peer and sink never wait for each other, and there is one
\* acknowledgement at most on its way.
Turns ==
    /\ pc = "ready" => at = 1 /\ off = 0 /\ mode = "wait" /\ acks = 0
    /\ pc = "line" /\ byte = 0 =>
          \/ at = item /\ off = 0 /\ (mode = "wait" <=> acks = 1)
          \/ at = item /\ off = 1 /\ IsFile /\ mode = "wait" /\ acks = 0
          \/ at = item + 1 /\ off = 0 /\ Rec.kind \in {"D", "E", "T"} /\ mode = "wait" /\ acks = 0
          \/ at > item /\ Rec.kind = "W" /\ acks = 0
    /\ pc = "line" /\ byte # 0 =>
          \/ at = item /\ off = byte /\ mode = "write" /\ acks = 1
          \/ at = item + 1 /\ off = 0 /\ (mode = "wait" <=> acks = 1)
          \/ at > item /\ acks = 0
    /\ pc = "header" => at = item /\ off = 1 /\ mode = "wait" /\ acks = 0
    /\ pc \in {"create", "payload", "flush", "trailer"} =>
          \/ at = item /\ off = 1 /\ byte = 1 /\ mode = "wait" /\ acks = 1
          \/ at = item /\ off \in byte..(Rec.size + 1) /\ mode = "write" /\ acks = 0
          \/ at = item /\ off = Rec.size + 2 /\ Rec.kind = "B" /\ mode = "write" /\ acks = 0
          \/ at = item + 1 /\ off = 0 /\ mode = "wait" /\ acks = 0
    /\ pc = "ack" /\ byte = 0 => at = item /\ at > 1 /\ off = 0 /\ mode = "wait" /\ acks = 0
    /\ pc = "ack" /\ byte # 0 =>
          \/ at = item /\ off = byte /\ mode = "write" /\ acks = 0
          \/ at = item + 1 /\ off = 0 /\ mode = "wait" /\ acks = 0

\* Only what took effect is acknowledged to its end.
Counts ==
    /\ Running =>
          taken = IF pc = "trailer" \/ (pc \in {"line", "ack"} /\ byte # 0)
                  THEN item ELSE item - 1
    /\ pc \in {"trailer", "ack"} => confirmed < taken
    /\ acks > 0 /\ off # 1 /\ ~(at = 1 /\ off = 0) => confirmed < taken

\* What is on the disk of the file being received.
Writing ==
    /\ pc \in {"header", "create", "payload", "flush"} => Clean[Rec.name] # Bad
    /\ IF pc \in {"payload", "flush"}
       THEN partial = {Dest} /\ Dest \in DOMAIN disk /\ disk[Dest] = <<item, Rec.size - left>>
       ELSE Running => partial = {}

\* "Implements the OpenSSH sink protocol: ack each header/data block"
\* (ssh_server.rs:898-899), with one exception: the sink reads every token of
\* the stream for what it is, but takes the error byte in the place of a
\* terminator for the terminator, since it never looks at its value
\* (ssh_server.rs:966), acknowledges it and has the file for received; the text
\* of the error it then reads as a control line, which ends the session
\* (AfterText).  It acknowledges what the peer waits for and nothing else, and
\* writes each file's own bytes.
InStep == TypeOK /\ Framing /\ Turns /\ Counts /\ Writing

\* As long as both are there, one of them has something to do: neither waits
\* for bytes or for an acknowledgement the other will not send.
NoStandstill ==
    peer = "sending" /\ pc \in {"line", "payload", "trailer"} =>
        mode = "write" \/ acks > 0 \/ Arrived
------------------------------------------------------------------------------
(* What receiving promises *)

\* The directory records around record i: begun before it and not ended, since
\* up to i no more directories ended than began after them.
Among(kind, i, j) == {k \in i..j : session[k].kind = kind}
Around(i) ==
    {j \in Among("D", 1, i - 1) :
        \A k \in j..(i - 1) :
            Cardinality(Among("E", j, k)) < Cardinality(Among("D", j, k))}

\* The folder those records name: a path, outermost first.
Place(i) ==
    Root \o [d \in 1..Cardinality(Around(i)) |->
        LET j == CHOOSE k \in Around(i) :
                    Cardinality({h \in Around(i) : h <= k}) = d
        IN  Clean[session[j].name]]

\* No record before i has led out of the shared folder: neither a directory
\* with a drive in its name nor the end of more directories than were begun.
StaysInside(i) ==
    \A n \in 1..(i - 1) :
        /\ session[n].kind = "D" => session[n].name \notin DOMAIN Drive
        /\ Cardinality(Among("E", 1, n)) <= Cardinality(Among("D", 1, n))

\* What is left of "writing files into `root`" (ssh_server.rs:898-899): a file
\* the session is through with lies where its name and the directory records
\* around it say, with all its bytes, unless a later record writes over it, as
\* long as no record has led out of the shared folder: the code follows those
\* that do.
LandsInPlace ==
    StaysInside(item) => \A i \in 1..taken :
        session[i].kind = "C" =>
            LET path == Join(Place(i), session[i].name)
            IN  \/ path \in DOMAIN disk /\ disk[path] = <<i, session[i].size>>
                \/ \E k \in (i + 1)..Len(session) :
                       /\ session[k].kind \in {"C", "B"} /\ k <= item
                       /\ Join(Place(k), session[k].name) = path

Copy == INSTANCE TreeCopy WITH
    disk <- [p \in DOMAIN disk \ partial |-> disk[p]]

\* Records take effect one by one and in order, each at once but for the file
\* being written, and the peer is told of none that has not.  Nobody else is
\* asked ("Incoming files are only written after you confirm and pick a
\* destination", README.md:132-133, is not so for scp).
ImplementsCopy == Copy!Spec

\* The sink and its peer both come to an end, whatever is lost.
BothEnd == <>(~Running /\ peer # "sending")
=============================================================================
