------------------------------- MODULE DnsWalk -------------------------------
(* How a received packet is read (src/tools/mdns.rs): `advertise` hands it to *)
(* record_peer_packet, which reads all answers of it                          *)
(* (parse_discovery_response), and to response_for_query, which answers its   *)
(* first question; that answer is read by the next device.  Packets are       *)
(* sequences of bytes, of any content: the names in them are walked step by   *)
(* step, since they may point to one another.                                 *)
EXTENDS DnsPackets, FiniteSetsExt

CONSTANTS Device,   \* [host, instance, service, kind, version, port, addrs]: who answers
          Arrivals  \* what may arrive: [bytes, kind, answers]

\* A packet as this program makes it of `answers`, a beginning of one, or other
\* bytes.
Wholeness == {"whole", "part", "other"}

ASSUME DnsConstants == \A a \in Arrivals : a.bytes \in Seq(Byte) /\ a.kind \in Wholeness

Ascii == 0..127
Normal == 120   \* the time to live of an answer

\* Names as device_hostname and sanitize_label make them: a label is not empty and
\* is read back as one (it has 74 characters at most).  What advertise is called
\* with is short.
IsName(name) ==
    name \in Seq(Seq(Ascii)) /\ \A i \in 1..Len(name) : Len(name[i]) \in 1..191

ASSUME DeviceConstants ==
    /\ IsName(Device.host) /\ IsName(Device.instance) /\ IsName(Device.service)
    /\ Len(EncodeName(Device.instance)) \in Words /\ 6 + Len(EncodeName(Device.host)) \in Words
    /\ Device.kind \in Seq(Ascii) /\ Device.version \in Seq(Ascii)
    /\ Len(Device.kind) + Len(Device.version) <= 33
    /\ Device.port \in Words
    /\ Device.addrs \in Seq([1..4 -> Byte]) /\ 3 + Len(Device.addrs) \in Words

\* What is not other bytes is a query, which has no answers, an announcement or
\* goodbye of this program, or a beginning of one.
ASSUME ArrivalsAsBuilt ==
    \A a \in Arrivals : a.kind # "other" =>
        IF a.answers = <<>>
        THEN a.kind = "whole" /\ (Len(a.bytes) >= 8 => a.bytes[7] = 0 /\ a.bytes[8] = 0)
        ELSE LET sent == BuildResponse(U16(0), <<>>, a.answers)
             IN  /\ a.answers[1].ttl \in Words
                 /\ a.answers = ServiceAnswers(Device, a.answers[1].ttl)
                 /\ a.bytes = SubSeq(sent, 1, Len(a.bytes)) /\ Len(a.bytes) <= Len(sent)
                 /\ a.kind = "whole" => a.bytes = sent

VARIABLES
    pkt,      \* the bytes received
    made,     \* auxiliary: the arrival they are
    pc,       \* the place in the code
    left,     \* questions or answers still to be read
    pos,      \* the position of the walk over them
    \* read_name:
    start,    \* where the name begins
    at,       \* its position
    visited,  \* the positions it was at
    labels,   \* its labels, joined
    consumed, \* bytes the name takes where it begins; 0: not known yet
    res,      \* what parse_discovery_response has collected
    reply     \* what response_for_query returns

walk == <<start, at, visited, labels, consumed>>
packetVars == <<pkt, made, pc, left, pos, walk, res, reply>>

\* Positions count from zero.
Size == Len(pkt)
B(i) == pkt[i + 1]
Word(i) == 256 * B(i) + B(i + 1)
Slice(i, j) == SubSeq(pkt, i + 1, j)

Nothing ==
    [owners |-> <<>>, instances |-> <<>>, ips |-> <<>>, txt |-> [k \in {} |-> <<>>],
     goodbye |-> FALSE]

NoReply == [bytes |-> <<>>, answers |-> <<>>, unicast |-> FALSE]

IsPointer(b) == b >= 192

\* String::from_utf8_lossy: bytes beyond ASCII are one foreign character each.
Foreign == 65533
Text(bytes) == [i \in 1..Len(bytes) |-> IF bytes[i] < 128 THEN bytes[i] ELSE Foreign]

\* eq_ignore_ascii_case
Lower(c) == IF c \in 65..90 THEN c + 32 ELSE c
SameName(s, t) ==
    /\ Len(s) = Len(t)
    /\ \A i \in 1..Len(s) : Lower(s[i]) = Lower(t[i])

PacketInit ==
    /\ made \in Arrivals
    /\ pkt = made.bytes
    /\ pc = "received"
    /\ left = 0 /\ pos = 0
    /\ start = 0 /\ at = 0 /\ visited = {} /\ labels = <<>> /\ consumed = 0
    /\ res = Nothing
    /\ reply = NoReply
------------------------------------------------------------------------------
(* read_name, one label or pointer a step, and what its callers do next. *)

BeginName(from) ==
    /\ start' = from /\ at' = from
    /\ visited' = {} /\ labels' = <<>> /\ consumed' = 0

ForgetName ==
    /\ start' = 0 /\ at' = 0
    /\ visited' = {} /\ labels' = <<>> /\ consumed' = 0

InName == pc \in {"owner", "instance", "question"}

\* Mutation: positions may be visited again.
FreshOrNot == at < Size

Fresh == at < Size /\ at \notin visited

FollowPointer ==
    /\ InName /\ Fresh
    /\ IsPointer(B(at))
    /\ at + 1 < Size
    /\ visited' = visited \cup {at}
    /\ at' = 256 * (B(at) - 192) + B(at + 1)
    /\ consumed' = IF consumed = 0 THEN at + 2 - start ELSE consumed
    /\ UNCHANGED <<pkt, made, pc, left, pos, start, labels, res, reply>>

ReadLabel ==
    /\ InName /\ Fresh
    /\ B(at) \in 1..191
    /\ at + 1 + B(at) <= Size
    /\ visited' = visited \cup {at}
    /\ labels' = (IF labels = <<>> THEN <<>> ELSE Append(labels, Dot))
                  \o Text(Slice(at + 1, at + 1 + B(at)))
    /\ at' = at + 1 + B(at)
    /\ UNCHANGED <<pkt, made, pc, left, pos, start, consumed, res, reply>>

\* Mutation: where the last label was read counts, not where the name began.
ConsumedToRoot == at + 1 - start

\* The root label ends the name: it was `Consumed` bytes long where it began.
AtRoot == InName /\ Fresh /\ B(at) = 0
Consumed == IF consumed = 0 THEN at + 1 - start ELSE consumed

OwnerRead ==
    /\ pc = "owner" /\ AtRoot
    /\ res' = [res EXCEPT !.owners = Append(@, labels)]
    /\ pos' = pos + Consumed
    /\ pc' = "record"
    /\ ForgetName
    /\ UNCHANGED <<pkt, made, left, reply>>

InstanceRead ==
    /\ pc = "instance" /\ AtRoot
    /\ res' = [res EXCEPT !.instances = Append(@, labels)]
    /\ pc' = "answers"
    /\ ForgetName
    /\ UNCHANGED <<pkt, made, left, pos, reply>>

\* None: past the end, in a circle, or a label or pointer cut off.  The owner's
\* ends the packet, an instance is passed over, no question is not answered.
NameFails ==
    /\ InName
    /\ Fresh => \/ IsPointer(B(at)) /\ at + 1 >= Size
                \/ B(at) \in 1..191 /\ at + 1 + B(at) > Size
    /\ pc' = CASE pc = "owner" -> "respond"
               [] pc = "instance" -> "answers"
               [] pc = "question" -> "done"
    /\ ForgetName
    /\ UNCHANGED <<pkt, made, left, pos, res, reply>>
------------------------------------------------------------------------------
(* parse_discovery_response *)

BeginParse ==
    /\ pc = "received"
    /\ pc' = IF Size < 12 THEN "respond" ELSE "questions"
    /\ pos' = 12
    /\ left' = IF Size < 12 THEN 0 ELSE Word(4)
    /\ UNCHANGED <<pkt, made, walk, res, reply>>

\* skip_name, a label a step: it does not follow pointers.
BeginSkip ==
    /\ pc = "questions" /\ left > 0
    /\ left' = left - 1
    /\ BeginName(pos)
    /\ pc' = "skip"
    /\ UNCHANGED <<pkt, made, pos, res, reply>>

SkipLabel ==
    /\ pc = "skip"
    /\ at < Size /\ B(at) \in 1..191
    /\ at' = at + 1 + B(at)
    /\ UNCHANGED <<pkt, made, pc, left, pos, start, visited, labels, consumed, res, reply>>

\* Mutation: a pointer is taken for one byte.
BehindByte == at + 1

\* Where the name ends: behind a pointer, which may be cut off, or the root label.
Behind == IF IsPointer(B(at)) THEN at + 2 ELSE at + 1

SkipEnds ==
    /\ pc = "skip"
    /\ at < Size /\ B(at) \notin 1..191
    /\ Behind + 4 <= Size
    /\ pos' = Behind + 4
    /\ pc' = "questions"
    /\ ForgetName
    /\ UNCHANGED <<pkt, made, left, res, reply>>

\* The name, or the type and class behind it, cut off: nothing is read at all.
SkipFails ==
    /\ pc = "skip"
    /\ at < Size => B(at) \notin 1..191 /\ Behind + 4 > Size
    /\ pc' = "respond"
    /\ ForgetName
    /\ UNCHANGED <<pkt, made, left, pos, res, reply>>

BeginAnswers ==
    /\ pc = "questions" /\ left = 0
    /\ left' = Word(6)
    /\ pc' = "answers"
    /\ UNCHANGED <<pkt, made, pos, walk, res, reply>>

BeginAnswer ==
    /\ pc = "answers" /\ left > 0
    /\ left' = left - 1
    /\ BeginName(pos)
    /\ pc' = "owner"
    /\ UNCHANGED <<pkt, made, pos, res, reply>>

EndAnswers ==
    /\ pc = "answers" /\ left = 0
    /\ pc' = "respond"
    /\ UNCHANGED <<pkt, made, left, pos, walk, res, reply>>

\* str::trim
White == (9..13) \cup {32}
Trim(s) ==
    LET inner == {i \in 1..Len(s) : s[i] \notin White}
    IN  IF inner = {} THEN <<>> ELSE SubSeq(s, Min(inner), Max(inner))

\* The next entry of TXT data, "key=value": a later one with the same key counts.
IsEquals(c) == c = Equals
WithEntry(txt, entry) ==
    LET split == SelectInSeq(entry, IsEquals)
        key == Trim(SubSeq(entry, 1, split - 1))
        value == Trim(SubSeq(entry, split + 1, Len(entry)))
    IN  IF split = 0 THEN txt
        ELSE [k \in DOMAIN txt \cup {key} |-> IF k = key THEN value ELSE txt[k]]

ReadEntry ==
    /\ pc = "entries"
    /\ at < pos /\ B(at) # 0 /\ at + 1 + B(at) <= pos
    /\ at' = at + 1 + B(at)
    /\ res' = [res EXCEPT !.txt = WithEntry(@, Text(Slice(at + 1, at + 1 + B(at))))]
    /\ UNCHANGED <<pkt, made, pc, left, pos, start, visited, labels, consumed, reply>>

\* Up to the end of the data, an empty entry, or one cut off.
EndEntries ==
    /\ pc = "entries"
    /\ at < pos => B(at) = 0 \/ at + 1 + B(at) > pos
    /\ pc' = "answers"
    /\ ForgetName
    /\ UNCHANGED <<pkt, made, left, pos, res, reply>>

\* The fixed part of a record, and its data.
ReadRecord ==
    /\ pc = "record"
    /\ pos + 10 <= Size
    /\ LET rtype == Word(pos)
           data == pos + 10
           next == data + Word(pos + 8)
           bye == res.goodbye \/ \A i \in 4..7 : B(pos + i) = 0
       IN  \/ /\ next > Size
              /\ res' = [res EXCEPT !.goodbye = bye]
              /\ pc' = "respond"
              /\ UNCHANGED <<pos, walk>>
           \/ /\ next <= Size
              /\ pos' = next
              /\ res' = [res EXCEPT
                    !.goodbye = bye,
                    !.ips = IF rtype = TypeA /\ next = data + 4
                            THEN Append(@, Slice(data, next)) ELSE @]
              /\ pc' = CASE rtype = TypePTR -> "instance"
                         [] rtype = TypeTXT -> "entries"
                         [] OTHER -> "answers"
              /\ IF rtype \in {TypePTR, TypeTXT} THEN BeginName(data) ELSE UNCHANGED walk
    /\ UNCHANGED <<pkt, made, left, reply>>

RecordCutOff ==
    /\ pc = "record"
    /\ pos + 10 > Size
    /\ pc' = "respond"
    /\ UNCHANGED <<pkt, made, left, pos, walk, res, reply>>
------------------------------------------------------------------------------
(* response_for_query *)

\* A response is not answered, nor is what is too short.
BeginRespond ==
    /\ pc = "respond"
    /\ left' = 0 /\ pos' = 0
    /\ IF Size < 12 \/ B(2) >= 128
       THEN pc' = "done" /\ UNCHANGED walk
       ELSE pc' = "question" /\ BeginName(12)
    /\ UNCHANGED <<pkt, made, res, reply>>

AnswersTo(qname, qtype) ==
    CASE SameName(qname, Dotted(Device.host)) /\ qtype \in {TypeA, TypeAny} ->
            HostAnswers(Device, Normal)
      [] SameName(qname, Dotted(Device.service)) /\ qtype \in {TypePTR, TypeAny} ->
            ServiceAnswers(Device, Normal)
      [] SameName(qname, Dotted(Device.instance)) /\ qtype \in {TypeSRV, TypeAny} ->
            <<SrvAnswer(Device, Normal), TxtAnswer(Device, Normal)>>
      [] OTHER -> <<>>

\* Only the first question, echoed verbatim.
QuestionRead ==
    /\ pc = "question" /\ AtRoot
    /\ LET q == 12 + Consumed
           answers == IF q + 4 > Size THEN <<>> ELSE AnswersTo(labels, Word(q))
       IN  reply' = IF answers = <<>> THEN NoReply
                    ELSE [bytes |-> BuildResponse(Slice(0, 2), Slice(12, q + 4), answers),
                          answers |-> answers,
                          unicast |-> B(q + 2) >= 128]
    /\ pc' = "done"
    /\ ForgetName
    /\ UNCHANGED <<pkt, made, left, pos, res>>

\* The answer arrives, at a device that runs this program too.  (A Vec<u8> holds
\* nothing but bytes.)
ReplyArrives ==
    /\ pc = "done"
    /\ reply # NoReply
    /\ reply.bytes \in Seq(Byte)
    /\ pkt' = reply.bytes
    /\ made' = [bytes |-> reply.bytes, kind |-> "whole", answers |-> reply.answers]
    /\ reply' = NoReply
    /\ res' = Nothing
    /\ pc' = "received"
    /\ UNCHANGED <<left, pos, walk>>

NameStep == FollowPointer \/ ReadLabel \/ OwnerRead \/ InstanceRead \/ QuestionRead \/ NameFails
PacketNext ==
    \/ NameStep \/ BeginParse \/ BeginSkip \/ SkipLabel \/ SkipEnds \/ SkipFails
    \/ BeginAnswers \/ BeginAnswer \/ EndAnswers
    \/ ReadRecord \/ RecordCutOff \/ ReadEntry \/ EndEntries \/ BeginRespond \/ ReplyArrives

PacketSpec == PacketInit /\ [][PacketNext]_packetVars

\* The thread that advertises is scheduled.
FairPacketSpec == PacketSpec /\ WF_packetVars(PacketNext)
------------------------------------------------------------------------------
(* What reading promises *)

Walking == pc \in {"questions", "skip", "answers", "owner", "record", "instance", "entries"}

\* However the bytes lie, the walk stays inside the packet: over the answers it
\* moves forward from the header to the end and no further, through a name it is
\* at no position twice, and the name takes no more bytes than there are.
Inside ==
    /\ Walking => pos \in 12..Size
    /\ pc = "skip" => at \in Nat /\ at >= 12
    /\ pc = "owner" => start = pos
    /\ pc = "entries" => at \in 12..pos
    /\ InName => /\ at \in Nat
                 /\ start \in 12..Size
                 /\ IF consumed = 0 THEN at \in start..Size ELSE consumed \in 1..(Size - start)
                 /\ visited \subseteq 0..(Size - 1)
    /\ ~InName => visited = {}

\* What is read of answers, in the order they are in.  The length before the first
\* entry of TXT data cuts that entry short of its value, and the reader off from
\* the others.
OfType(answers, rtype) ==
    FlattenSeq([i \in 1..Len(answers) |->
                   IF answers[i].rtype = rtype THEN <<answers[i]>> ELSE <<>>])
Result(answers) ==
    LET ptrs == OfType(answers, TypePTR)
        as == OfType(answers, TypeA)
        texts == IF OfType(answers, TypeTXT) = <<>> THEN {} ELSE {Txtvers}
    IN  [owners |-> [i \in 1..Len(answers) |-> Dotted(answers[i].name)],
         instances |-> [i \in 1..Len(ptrs) |-> Dotted(Device.instance)],
         ips |-> [i \in 1..Len(as) |-> as[i].rdata],
         txt |-> [k \in texts |-> <<>>],
         goodbye |-> \E i \in 1..Len(answers) : answers[i].ttl = 0]

\* An announcement, a goodbye and the answer to any query at all, whatever the
\* bytes of its question, read as what they were built from, but for the TXT data.
\* Of a part of an announcement no record is read that is not whole, but for the
\* owner and the goodbye of the one that is cut off.
ReadsBack ==
    pc = "respond" =>
        /\ made.kind = "whole" => res = Result(made.answers)
        /\ made.kind = "part" =>
              \E k \in 0..Len(made.answers), more \in {0, 1} :
                  LET read == Result(SubSeq(made.answers, 1, k))
                      seen == Result(SubSeq(made.answers, 1, k + more))
                  IN  /\ k + more <= Len(made.answers)
                      /\ res.owners \in {read.owners, seen.owners}
                      /\ res.goodbye \in {read.goodbye, seen.goodbye}
                      /\ res = [read EXCEPT !.owners = res.owners,
                                            !.goodbye = res.goodbye]

\* The kind and the version, which TXT data are sent for, are read from them.
TypeAndVersionRead ==
    pc = "respond" /\ made.kind = "whole" /\ OfType(made.answers, TypeTXT) # <<>> =>
        {<<TypeKey, Device.kind>>, <<VersionKey, Device.version>>}
            \subseteq {<<k, res.txt[k]>> : k \in DOMAIN res.txt}

\* The advertiser is through with every packet, circles of names included, and
\* goes on to the next.
WalkEnds == <>(pc = "done" /\ reply = NoReply)
=============================================================================
