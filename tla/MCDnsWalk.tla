----------------------------- MODULE MCDnsWalk ------------------------------
(* DnsWalk on a small instance for TLC: a device with short names and two     *)
(* addresses.  What arrives: its queries, announcement and goodbye, whole,    *)
(* cut off anywhere, and with any one byte overwritten; questions whose names *)
(* are compressed; and all short packets over a few telling bytes.            *)
EXTENDS DnsWalk

CONSTANT MaxBody   \* bytes of the short packets after their header

\* h.l, h._t.l, _s._t.l, of kind p and version 1
MCDevice ==
    [host |-> <<<<104>>, <<108>>>>,
     instance |-> <<<<104>>, <<95, 116>>, <<108>>>>,
     service |-> <<<<95, 115>>, <<95, 116>>, <<108>>>>,
     kind |-> <<112>>, version |-> <<49>>, port |-> 22,
     addrs |-> <<<<10, 0, 0, 1>>, <<10, 0, 0, 2>>>>]

Whole(bytes, answers) == [bytes |-> bytes, kind |-> "whole", answers |-> answers]
Other(bytes) == [bytes |-> bytes, kind |-> "other", answers |-> <<>>]

Asked == {MCDevice.host, MCDevice.service, MCDevice.instance, <<<<72>>, <<76>>>>, <<<<120>>>>}
Queries == {BuildQuery(n, t) : n \in Asked, t \in {TypeA, TypePTR, TypeSRV, TypeAny}}
Said(ttl) == Whole(BuildAnnouncement(MCDevice, ttl), ServiceAnswers(MCDevice, ttl))
Parts(a) ==
    {[bytes |-> SubSeq(a.bytes, 1, n), kind |-> "part", answers |-> a.answers] :
        n \in 0..(Len(a.bytes) - 1)}

Telling == {0, 1, 12, 13, 14, 63, 191, 192, 255}
Garbled(bytes) == {Other([bytes EXCEPT ![i] = b]) : i \in 1..Len(bytes), b \in Telling}

\* A header, a question whose name is or ends in a pointer to what follows it.
Header(flags, questions, answers) ==
    U16(7) \o U16(flags) \o U16(questions) \o U16(answers) \o U16(0) \o U16(0)
Compressed(t) ==
    {Other(Header(0, 2, 0) \o <<192, 18>> \o U16(t) \o U16(1)
                             \o EncodeName(n) \o U16(t) \o U16(1)) :
        n \in Asked}
    \cup {Other(Header(0, 2, 0) \o <<1, 104, 192, 20>> \o U16(t) \o U16(1) \o <<1, 108, 0>>)}

Short ==
    {Other(Header(flags, questions, answers) \o body) :
        flags \in {0, 33792}, questions \in {0, 1}, answers \in {0, 1},
        body \in BoundedSeq({0, 1, 12, 13, 192}, MaxBody)}

MCArrivals ==
    {Whole(q, <<>>) : q \in Queries} \cup {Said(120), Said(0)}
        \cup Parts(Said(120)) \cup Parts(Said(0))
    \cup Garbled(Said(120).bytes) \cup Garbled(BuildQuery(MCDevice.host, TypeA))
    \cup Garbled(BuildQuery(MCDevice.service, TypeAny))
    \cup Compressed(TypeA) \cup Compressed(TypeAny) \cup Short
=============================================================================
