----------------------------- MODULE DnsPackets -----------------------------
(* The packets src/tools/mdns.rs builds, byte by byte: queries, answers to    *)
(* them, announcements and goodbyes.  A name is a sequence of labels, a label *)
(* and any other text a sequence of characters.                               *)
EXTENDS Naturals, Sequences, SequencesExt

Byte == 0..255
Dot == 46

\* u16::to_be_bytes, and u32 for values below 2^16.
Words == {n \in Nat : n <= 65535}
U16(n) == <<n \div 256, n % 256>>
U32(n) == <<0, 0>> \o U16(n)

\* encode_name: a label of more than 63 bytes is not refused.
EncodeName(name) ==
    FlattenSeq([i \in 1..Len(name) |-> <<Len(name[i]) % 256>> \o name[i]]) \o <<0>>

\* What the reader of a name is left with: its labels joined by dots.
Dotted(name) == IF name = <<>> THEN <<>>
                ELSE Tail(FlattenSeq([i \in 1..Len(name) |-> <<Dot>> \o name[i]]))

TypeA == 1
TypePTR == 12
TypeTXT == 16
TypeSRV == 33
TypeAny == 255

\* build_query: one question, QU bit set.
BuildQuery(name, qtype) ==
    U16(0) \o U16(0) \o U16(1) \o U16(0) \o U16(0) \o U16(0)
        \o EncodeName(name) \o U16(qtype) \o U16(32769)

Answer(name, rtype, class, ttl, rdata) ==
    [name |-> name, rtype |-> rtype, class |-> class, ttl |-> ttl, rdata |-> rdata]

EncodeAnswer(a) ==
    EncodeName(a.name) \o U16(a.rtype) \o U16(a.class) \o U32(a.ttl)
        \o U16(Len(a.rdata)) \o a.rdata

\* build_response: the question, if any, is echoed as it came.
BuildResponse(id, question, answers) ==
    id \o U16(33792) \o U16(IF question = <<>> THEN 0 ELSE 1) \o U16(Len(answers))
        \o U16(0) \o U16(0) \o question
        \o FlattenSeq([i \in 1..Len(answers) |-> EncodeAnswer(answers[i])])

\* encode_txt: cut to what one length byte can say.
EncodeTxt(text) ==
    LET n == IF Len(text) < 255 THEN Len(text) ELSE 255
    IN  <<n>> \o SubSeq(text, 1, n)

\* txt_record.  Its first entry is written by hand: with the length of eight
\* characters before nine.
Equals == 61
Txtvers == <<116, 120, 116, 118, 101, 114, 115>>
TypeKey == <<116, 121, 112, 101>>
VersionKey == <<118, 101, 114, 115, 105, 111, 110>>
TxtRecord(kind, version) ==
    <<8>> \o Txtvers \o <<Equals, 49>>
        \o EncodeTxt(TypeKey \o <<Equals>> \o kind)
        \o EncodeTxt(VersionKey \o <<Equals>> \o version)

\* A device that advertises itself: its host name, the two names derived from
\* it (service_instance, service_type), its kind, version, port and addresses.
PtrAnswer(d, ttl) == Answer(d.service, TypePTR, 1, ttl, EncodeName(d.instance))
SrvAnswer(d, ttl) ==
    Answer(d.instance, TypeSRV, 1, ttl, U16(0) \o U16(0) \o U16(d.port) \o EncodeName(d.host))
TxtAnswer(d, ttl) == Answer(d.instance, TypeTXT, 1, ttl, TxtRecord(d.kind, d.version))
HostAnswers(d, ttl) ==
    [i \in 1..Len(d.addrs) |-> Answer(d.host, TypeA, 32769, ttl, d.addrs[i])]

ServiceAnswers(d, ttl) ==
    <<PtrAnswer(d, ttl), SrvAnswer(d, ttl), TxtAnswer(d, ttl)>> \o HostAnswers(d, ttl)

\* build_announcement: of normal life time, or of none: a goodbye.
BuildAnnouncement(d, ttl) == BuildResponse(U16(0), <<>>, ServiceAnswers(d, ttl))
=============================================================================
