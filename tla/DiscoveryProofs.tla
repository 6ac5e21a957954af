--------------------------- MODULE DiscoveryProofs ---------------------------
(* Proofs about the two modules of src/tools/mdns.rs: PeerDiscovery, for any  *)
(* peers and bounds, with any packets, uses of the toggle and restarts, and   *)
(* DnsWalk, for packets of any bytes and any length.                          *)
EXTENDS PeerDiscovery, DnsWalk, FiniteSetTheorems, SequenceTheorems,
        WellFoundedInduction, TLAPS
------------------------------------------------------------------------------
(* The toggle, the advertiser and the cache                                   *)

\* The loop remembers what the LAN has heard, or that it cannot know.
Remembers ==
    /\ adv \in {"receive", "announce"} => wasEnabled
    /\ adv = "top" /\ heard = "here" => wasEnabled \/ unsaid

\* Turned off, one packet at most is still on its way into the cache.
NoneBeforeLast ==
    ~enabled /\ ui # "clear" =>
        /\ \E p \in Peers \cup {Self} : DOMAIN age \subseteq {p}
        /\ adv = "receive" => DOMAIN age = {}

\* The file says what the toggle says, or will when it is written.
SaidInFile ==
    /\ ui = "idle" => enabled = Loaded
    /\ ui = "write" => enabled = (text # "off")

DiscoveryInv == TypeOK /\ Remembers /\ NoneBeforeLast /\ SaidInFile

\* The actions of a step, one by one.
LEMMA StepCases ==
    ASSUME [Next]_vars
    PROVE  \/ FirstAnnounce \/ EnterLoop \/ LoopDisabled \/ LoopEnabled
           \/ Receive \/ ReceiveTimeout \/ Announce
           \/ Discover \/ Snapshot \/ Tick
           \/ \E p \in Peers : PeerAnnounces(p) \/ PeerSaysGoodbye(p) \/ PeerVanishes(p)
           \/ Query \/ TurnOn \/ TurnOff \/ SaveOther
           \/ ClearPeers \/ SaveToggle \/ WriteSettings \/ Restart
           \/ UNCHANGED vars
BY DEF Next, Advertise, Refresh, Network, UI

\* A packet lists its sender at most, as just heard of, unless it is this device.
LEMMA RecordedTyped ==
    ASSUME TypeOK, NEW packet \in Packets
    PROVE  /\ DOMAIN Recorded(packet) \subseteq Peers
           /\ DOMAIN Recorded(packet) \subseteq DOMAIN age \cup {packet.from}
           /\ \A q \in DOMAIN Recorded(packet) : Recorded(packet)[q] \in 0..Ttl
<1> DEFINE listed == [p \in DOMAIN age \cup ({packet.from} \ {Self}) |->
                         IF p = packet.from THEN 0 ELSE age[p]]
<1>0. /\ packet.kind \in {"announce", "goodbye", "query"}
      /\ packet.from \in Peers \cup {Self}
  BY DEF Packets, Kinds
<1>1. CASE packet.kind = "query"
  BY <1>1 DEF Recorded, TypeOK
<1>2. CASE packet.kind = "goodbye"
  BY <1>2 DEF Recorded, Restrict, TypeOK
<1>3. CASE packet.kind = "announce"
  <2>1. Recorded(packet) = Pruned(listed)
    BY <1>3 DEF Recorded
  <2>2. /\ DOMAIN listed \subseteq Peers
        /\ DOMAIN listed \subseteq DOMAIN age \cup {packet.from}
    BY <1>0 DEF TypeOK
  <2>3. ASSUME NEW q \in DOMAIN listed
        PROVE  listed[q] \in 0..Ttl
    BY <1>0, DiscoveryConstants DEF TypeOK
  <2> HIDE DEF listed
  <2> QED BY <2>1, <2>2, <2>3 DEF Pruned, Restrict
<1> QED BY <1>0, <1>1, <1>2, <1>3

\* The cache lists other devices only, none for longer than PEER_TTL.
LEMMA TypeNext ==
    ASSUME TypeOK, [Next]_vars
    PROVE  TypeOK'
<1> USE DiscoveryConstants DEF settings, radio, TypeOK
<1>1. CASE FirstAnnounce
  <2>1. [kind |-> "announce", from |-> Self] \in Packets
    BY DEF Packets, Kinds
  <2>2. buffer \in Seq(Packets)
    OBVIOUS
  <2>3. Append(buffer, [kind |-> "announce", from |-> Self]) \in Seq(Packets)
    BY ONLY <2>1, <2>2
  <2> QED BY <1>1, <2>3 DEF FirstAnnounce, SayHere
<1>2. CASE EnterLoop
  BY <1>2 DEF EnterLoop
<1>3. CASE LoopDisabled
  BY <1>3 DEF LoopDisabled
<1>4. CASE LoopEnabled
  BY <1>4 DEF LoopEnabled
<1>5. CASE Receive
  <2>1. buffer \in Seq(Packets) /\ buffer # <<>>
    BY <1>5 DEF Receive
  <2>2. Head(buffer) \in Packets /\ Tail(buffer) \in Seq(Packets)
    BY ONLY <2>1
  <2>3. /\ DOMAIN age' \subseteq Peers
        /\ \A q \in DOMAIN age' : age'[q] \in 0..Ttl
    BY <1>5, <2>2, RecordedTyped DEF Receive
  <2> QED BY <1>5, <2>2, <2>3 DEF Receive
<1>6. CASE ReceiveTimeout
  BY <1>6 DEF ReceiveTimeout
<1>7. CASE Announce
  <2>1. [kind |-> "announce", from |-> Self] \in Packets
    BY DEF Packets, Kinds
  <2>2. buffer \in Seq(Packets)
    OBVIOUS
  <2>3. Append(buffer, [kind |-> "announce", from |-> Self]) \in Seq(Packets)
    BY ONLY <2>1, <2>2
  <2> QED BY <1>7, <2>3 DEF Announce, SayHere
<1>8. CASE Discover
  BY <1>8 DEF Discover
<1>9. CASE Snapshot
  BY <1>9 DEF Snapshot
<1>10. CASE Tick
  BY <1>10 DEF Tick
<1>11. ASSUME NEW p \in Peers, PeerAnnounces(p)
      PROVE  TypeOK'
  <2>1. [kind |-> "announce", from |-> p] \in Packets
    BY DEF Packets, Kinds
  <2>2. buffer \in Seq(Packets)
    OBVIOUS
  <2>3. Append(buffer, [kind |-> "announce", from |-> p]) \in Seq(Packets)
    BY ONLY <2>1, <2>2
  <2> QED BY <1>11, <2>3 DEF PeerAnnounces, Deliver
<1>12. ASSUME NEW p \in Peers, PeerSaysGoodbye(p)
      PROVE  TypeOK'
  <2>1. [kind |-> "goodbye", from |-> p] \in Packets
    BY DEF Packets, Kinds
  <2>2. buffer \in Seq(Packets)
    OBVIOUS
  <2>3. Append(buffer, [kind |-> "goodbye", from |-> p]) \in Seq(Packets)
    BY ONLY <2>1, <2>2
  <2> QED BY <1>12, <2>3 DEF PeerSaysGoodbye, Deliver
<1>13. ASSUME NEW p \in Peers, PeerVanishes(p)
      PROVE  TypeOK'
  BY <1>13 DEF PeerVanishes
<1>14. CASE Query
  <2>1. [kind |-> "query", from |-> Self] \in Packets
    BY DEF Packets, Kinds
  <2>2. buffer \in Seq(Packets)
    OBVIOUS
  <2>3. Append(buffer, [kind |-> "query", from |-> Self]) \in Seq(Packets)
    BY ONLY <2>1, <2>2
  <2> QED BY <1>14, <2>3 DEF Query, Deliver
<1>15. CASE TurnOn
  BY <1>15 DEF TurnOn
<1>16. CASE TurnOff
  BY <1>16 DEF TurnOff
<1>17. CASE SaveOther
  BY <1>17 DEF SaveOther, Saves, Lines
<1>18. CASE ClearPeers
  BY <1>18 DEF ClearPeers
<1>19. CASE SaveToggle
  BY <1>19 DEF SaveToggle, Saves, Lines
<1>20. CASE WriteSettings
  BY <1>20 DEF WriteSettings, Lines
<1>21. CASE Restart
  <2>1. age' = [p \in {} |-> 0] /\ buffer' = <<>> /\ enabled' = Loaded
    BY <1>21 DEF Restart
  <2>2. DOMAIN age' = {} /\ buffer' \in Seq(Packets) /\ enabled' \in BOOLEAN
    BY ONLY <2>1 DEF Loaded
  <2> QED BY <1>21, <2>2 DEF Restart, Lines
<1>22. CASE UNCHANGED vars
  BY <1>22 DEF vars
<1> QED BY <1>1, <1>2, <1>3, <1>4, <1>5, <1>6, <1>7, <1>8, <1>9, <1>10, <1>11, <1>12,
           <1>13, <1>14, <1>15, <1>16, <1>17, <1>18, <1>19, <1>20, <1>21, <1>22, StepCases

\* The goodbye is sent when it was owed, and not forgotten before.
LEMMA RemembersNext ==
    ASSUME TypeOK, Remembers, [Next]_vars
    PROVE  Remembers'
<1> USE DiscoveryConstants DEF settings, radio, TypeOK, Remembers
<1>1. CASE FirstAnnounce
  BY <1>1 DEF FirstAnnounce, SayHere
<1>2. CASE EnterLoop
  BY <1>2 DEF EnterLoop
<1>3. CASE LoopDisabled
  BY <1>3 DEF LoopDisabled
<1>4. CASE LoopEnabled
  BY <1>4 DEF LoopEnabled
<1>5. CASE Receive
  BY <1>5 DEF Receive
<1>6. CASE ReceiveTimeout
  BY <1>6 DEF ReceiveTimeout
<1>7. CASE Announce
  BY <1>7 DEF Announce, SayHere
<1>8. CASE Discover
  BY <1>8 DEF Discover
<1>9. CASE Snapshot
  BY <1>9 DEF Snapshot
<1>10. CASE Tick
  BY <1>10 DEF Tick
<1>11. ASSUME NEW p \in Peers, PeerAnnounces(p)
      PROVE  Remembers'
  BY <1>11 DEF PeerAnnounces, Deliver
<1>12. ASSUME NEW p \in Peers, PeerSaysGoodbye(p)
      PROVE  Remembers'
  BY <1>12 DEF PeerSaysGoodbye, Deliver
<1>13. ASSUME NEW p \in Peers, PeerVanishes(p)
      PROVE  Remembers'
  BY <1>13 DEF PeerVanishes
<1>14. CASE Query
  BY <1>14 DEF Query, Deliver
<1>15. CASE TurnOn
  BY <1>15 DEF TurnOn
<1>16. CASE TurnOff
  BY <1>16 DEF TurnOff
<1>17. CASE SaveOther
  BY <1>17 DEF SaveOther, Saves
<1>18. CASE ClearPeers
  BY <1>18 DEF ClearPeers
<1>19. CASE SaveToggle
  BY <1>19 DEF SaveToggle, Saves
<1>20. CASE WriteSettings
  BY <1>20 DEF WriteSettings
<1>21. CASE Restart
  BY <1>21 DEF Restart
<1>22. CASE UNCHANGED vars
  BY <1>22 DEF vars
<1> QED BY <1>1, <1>2, <1>3, <1>4, <1>5, <1>6, <1>7, <1>8, <1>9, <1>10, <1>11, <1>12,
           <1>13, <1>14, <1>15, <1>16, <1>17, <1>18, <1>19, <1>20, <1>21, <1>22, StepCases

\* Only a loop that found the toggle on receives a packet.
LEMMA NoneBeforeLastNext ==
    ASSUME TypeOK, NoneBeforeLast, [Next]_vars
    PROVE  NoneBeforeLast'
<1> USE DiscoveryConstants DEF settings, radio, TypeOK, NoneBeforeLast
<1>1. CASE FirstAnnounce
  BY <1>1 DEF FirstAnnounce, SayHere
<1>2. CASE EnterLoop
  BY <1>2 DEF EnterLoop
<1>3. CASE LoopDisabled
  BY <1>3 DEF LoopDisabled
<1>4. CASE LoopEnabled
  BY <1>4 DEF LoopEnabled
<1>5. CASE Receive
  <2>1. buffer \in Seq(Packets) /\ buffer # <<>>
    BY <1>5 DEF Receive
  <2>2. Head(buffer) \in Packets /\ Tail(buffer) \in Seq(Packets)
    BY ONLY <2>1
  <2>3. DOMAIN age' \subseteq DOMAIN age \cup {Head(buffer).from} /\ Head(buffer).from \in Peers \cup {Self}
    BY <1>5, <2>2, RecordedTyped DEF Receive, Packets
  <2> QED BY <1>5, <2>3 DEF Receive
<1>6. CASE ReceiveTimeout
  BY <1>6 DEF ReceiveTimeout
<1>7. CASE Announce
  BY <1>7 DEF Announce, SayHere
<1>8. CASE Discover
  BY <1>8 DEF Discover
<1>9. CASE Snapshot
  BY <1>9 DEF Snapshot
<1>10. CASE Tick
  BY <1>10 DEF Tick
<1>11. ASSUME NEW p \in Peers, PeerAnnounces(p)
      PROVE  NoneBeforeLast'
  BY <1>11 DEF PeerAnnounces, Deliver
<1>12. ASSUME NEW p \in Peers, PeerSaysGoodbye(p)
      PROVE  NoneBeforeLast'
  BY <1>12 DEF PeerSaysGoodbye, Deliver
<1>13. ASSUME NEW p \in Peers, PeerVanishes(p)
      PROVE  NoneBeforeLast'
  BY <1>13 DEF PeerVanishes
<1>14. CASE Query
  BY <1>14 DEF Query, Deliver
<1>15. CASE TurnOn
  BY <1>15 DEF TurnOn
<1>16. CASE TurnOff
  BY <1>16 DEF TurnOff
<1>17. CASE SaveOther
  BY <1>17 DEF SaveOther, Saves
<1>18. CASE ClearPeers
  BY <1>18 DEF ClearPeers
<1>19. CASE SaveToggle
  BY <1>19 DEF SaveToggle, Saves
<1>20. CASE WriteSettings
  BY <1>20 DEF WriteSettings
<1>21. CASE Restart
  BY <1>21 DEF Restart
<1>22. CASE UNCHANGED vars
  BY <1>22 DEF vars
<1> QED BY <1>1, <1>2, <1>3, <1>4, <1>5, <1>6, <1>7, <1>8, <1>9, <1>10, <1>11, <1>12,
           <1>13, <1>14, <1>15, <1>16, <1>17, <1>18, <1>19, <1>20, <1>21, <1>22, StepCases

\* What is written is what the toggle says.
LEMMA SaidInFileNext ==
    ASSUME TypeOK, SaidInFile, [Next]_vars
    PROVE  SaidInFile'
<1> USE DiscoveryConstants DEF settings, radio, TypeOK, Lines, Loaded, SaidInFile
<1>1. CASE FirstAnnounce
  BY <1>1 DEF FirstAnnounce, SayHere
<1>2. CASE EnterLoop
  BY <1>2 DEF EnterLoop
<1>3. CASE LoopDisabled
  BY <1>3 DEF LoopDisabled
<1>4. CASE LoopEnabled
  BY <1>4 DEF LoopEnabled
<1>5. CASE Receive
  BY <1>5 DEF Receive
<1>6. CASE ReceiveTimeout
  BY <1>6 DEF ReceiveTimeout
<1>7. CASE Announce
  BY <1>7 DEF Announce, SayHere
<1>8. CASE Discover
  BY <1>8 DEF Discover
<1>9. CASE Snapshot
  BY <1>9 DEF Snapshot
<1>10. CASE Tick
  BY <1>10 DEF Tick
<1>11. ASSUME NEW p \in Peers, PeerAnnounces(p)
      PROVE  SaidInFile'
  BY <1>11 DEF PeerAnnounces, Deliver
<1>12. ASSUME NEW p \in Peers, PeerSaysGoodbye(p)
      PROVE  SaidInFile'
  BY <1>12 DEF PeerSaysGoodbye, Deliver
<1>13. ASSUME NEW p \in Peers, PeerVanishes(p)
      PROVE  SaidInFile'
  BY <1>13 DEF PeerVanishes
<1>14. CASE Query
  BY <1>14 DEF Query, Deliver
<1>15. CASE TurnOn
  BY <1>15 DEF TurnOn
<1>16. CASE TurnOff
  BY <1>16 DEF TurnOff
<1>17. CASE SaveOther
  BY <1>17 DEF SaveOther, Saves
<1>18. CASE ClearPeers
  BY <1>18 DEF ClearPeers
<1>19. CASE SaveToggle
  BY <1>19 DEF SaveToggle, Saves
<1>20. CASE WriteSettings
  BY <1>20 DEF WriteSettings
<1>21. CASE Restart
  BY <1>21 DEF Restart
<1>22. CASE UNCHANGED vars
  BY <1>22 DEF vars
<1> QED BY <1>1, <1>2, <1>3, <1>4, <1>5, <1>6, <1>7, <1>8, <1>9, <1>10, <1>11, <1>12,
           <1>13, <1>14, <1>15, <1>16, <1>17, <1>18, <1>19, <1>20, <1>21, <1>22, StepCases

LEMMA DiscoveryInvariant == Spec => []DiscoveryInv
<1>1. Init => DiscoveryInv
  <2> SUFFICES ASSUME Init
               PROVE  DiscoveryInv
    OBVIOUS
  <2> USE DiscoveryConstants DEF Init
  <2>1. TypeOK
    <3>1. age = [p \in {} |-> 0] /\ buffer = <<>> /\ enabled = Loaded
      OBVIOUS
    <3>2. DOMAIN age = {} /\ buffer \in Seq(Packets) /\ enabled \in BOOLEAN
      BY ONLY <3>1 DEF Loaded
    <3> QED BY <3>2 DEF TypeOK, Lines
  <2>2. Remembers /\ NoneBeforeLast /\ SaidInFile
    BY DEF Remembers, NoneBeforeLast, SaidInFile
  <2> QED BY <2>1, <2>2 DEF DiscoveryInv
<1>2. DiscoveryInv /\ [Next]_vars => DiscoveryInv'
  BY TypeNext, RemembersNext, NoneBeforeLastNext, SaidInFileNext DEF DiscoveryInv
<1> QED BY <1>1, <1>2, PTL DEF Spec

\* For any peers and packets: the cache never lists this device, nor a peer not
\* heard of for longer than PEER_TTL when it is next pruned (record_peer_packet).
THEOREM TypeInvariant == Spec => []TypeOK
<1>1. DiscoveryInv => TypeOK
  BY DEF DiscoveryInv
<1> QED BY <1>1, DiscoveryInvariant, PTL

\* For any peers and packets: turned off, the goodbye is owed until it is sent,
\* in every sequence of toggles and restarts (advertise).
THEOREM GoodbyeInvariant == Spec => []GoodbyeOwed
<1>1. DiscoveryInv => GoodbyeOwed
  BY DEF DiscoveryInv, Remembers, GoodbyeOwed
<1> QED BY <1>1, DiscoveryInvariant, PTL

\* For any peers and packets: once it is turned off and cleared, one record at
\* most comes late (set_mdns_enabled against the advertiser loop).
THEOREM LateRecordInvariant == Spec => []LateRecordAtMostOne
<1>1. DiscoveryInv => LateRecordAtMostOne
  <2> SUFFICES ASSUME DiscoveryInv, ~enabled, ui # "clear"
               PROVE  Cardinality(DOMAIN age) <= 1
    BY DEF LateRecordAtMostOne
  <2>1. PICK p \in Peers \cup {Self} : DOMAIN age \subseteq {p}
    BY DEF DiscoveryInv, NoneBeforeLast
  <2>2. IsFiniteSet({p}) /\ Cardinality({p}) = 1
    BY FS_Singleton
  <2>3. Cardinality(DOMAIN age) <= Cardinality({p})
    BY <2>1, <2>2, FS_Subset
  <2> QED BY <2>2, <2>3
<1> QED BY <1>1, DiscoveryInvariant, PTL

\* For any peers: a restart leaves the toggle alone unless the app ended in the
\* midst of a change or a save (settings_store::set, main).
THEOREM ToggleIsKept == Spec => ToggleKept
<1>1. DiscoveryInv /\ [Next]_vars => [Restart => enabled' = enabled \/ ui # "idle"]_vars
  BY DEF DiscoveryInv, SaidInFile, Restart
<1> QED BY <1>1, DiscoveryInvariant, PTL DEF Spec, ToggleKept
------------------------------------------------------------------------------
(* The walk through a packet                                                  *)

\* What is read of a packet are bytes.
LEMMA ByteRead ==
    ASSUME pkt \in Seq(Byte), NEW i \in Nat, i < Size
    PROVE  B(i) \in Byte /\ Size \in Nat
<1>1. Size \in Nat /\ i + 1 \in 1..Size
  BY LenProperties DEF Size
<1> QED
  BY <1>1, ElementOfSeq DEF B, Size

\* A word made of two bytes is a number.
LEMMA TwoBytes ==
    ASSUME NEW x \in Nat, NEW y \in Nat
    PROVE  256 * x + y \in Nat
<1>1. 256 * x \in Nat
  OBVIOUS
<1> QED
  BY <1>1

\* The walk stays inside the packet in every step: one step of the proof per
\* action, or per actions that go on to the same place.
WalkInv == pkt \in Seq(Byte) /\ Inside

LEMMA WalkInvNext == WalkInv /\ [PacketNext]_packetVars => WalkInv'
<1> SUFFICES ASSUME pkt \in Seq(Byte), Inside, [PacketNext]_packetVars PROVE WalkInv'
  BY DEF WalkInv
<1>0. Size \in Nat
  BY LenProperties DEF Size
<1>1. \A i \in Nat : i < Size => B(i) \in 0..255
  BY ByteRead DEF Byte
<1>2. (InName => visited \subseteq 0..(Size - 1)) /\ (~InName => visited = {})
  BY DEF Inside
<1>n. ASSUME InName, Fresh
      PROVE  /\ at \in 0..(Size - 1) /\ B(at) \in 0..255 /\ start \in 12..Size
             /\ IF consumed = 0 THEN at \in start..(Size - 1) ELSE consumed \in 1..(Size - start)
  <2>1. at \in Nat /\ at < Size /\ start \in 12..Size
        /\ IF consumed = 0 THEN at \in start..Size ELSE consumed \in 1..(Size - start)
    BY <1>n DEF Inside, Fresh
  <2>2. B(at) \in 0..255
    BY ONLY <2>1, <1>1
  <2> QED
    BY ONLY <2>1, <2>2, <1>0
<1>3. CASE FollowPointer
  <2>1. /\ InName /\ Fresh /\ IsPointer(B(at)) /\ at + 1 < Size
        /\ UNCHANGED <<pkt, pc, pos, start>> /\ visited' = visited \cup {at}
        /\ at' = 256 * (B(at) - 192) + B(at + 1)
        /\ consumed' = (IF consumed = 0 THEN at + 2 - start ELSE consumed)
    BY <1>3 DEF FollowPointer
  <2>2. B(at) \in 192..255 /\ B(at + 1) \in 0..255
    <3>1. at \in Nat /\ at + 1 \in Nat /\ B(at) \in 0..255 /\ B(at) >= 192
      BY ONLY <2>1, <1>n, <1>0 DEF IsPointer
    <3>2. B(at + 1) \in 0..255
      BY ONLY <2>1, <3>1, <1>1
    <3> QED
      BY ONLY <3>1, <3>2
  <2>3. at' \in Nat
    <3>1. B(at) - 192 \in Nat /\ B(at + 1) \in Nat
      BY ONLY <2>2
    <3> QED
      BY ONLY <2>1, <3>1, TwoBytes
  <2>4. consumed' # 0 /\ consumed' \in 1..(Size - start)
    <3>1. CASE consumed = 0
      BY ONLY <2>1, <1>n, <1>0, <3>1
    <3>2. CASE consumed # 0
      BY ONLY <2>1, <1>n, <1>0, <3>2
    <3> QED
      BY ONLY <3>1, <3>2
  <2>5. visited' \subseteq 0..(Size - 1)
    BY ONLY <2>1, <1>n, <1>2
  <2>6. /\ Size' = Size /\ InName' /\ (Walking' <=> Walking)
    BY ONLY <2>1 DEF Size, InName, Walking
  <2> QED
    BY <2>1, <2>3, <2>4, <2>5, <2>6, <1>n DEF WalkInv, Inside, InName
<1>4. CASE ReadLabel
  <2>1. /\ InName /\ Fresh /\ B(at) \in 1..191 /\ at + 1 + B(at) <= Size
        /\ UNCHANGED <<pkt, pc, pos, start, consumed>> /\ visited' = visited \cup {at}
        /\ at' = at + 1 + B(at)
    BY <1>4 DEF ReadLabel
  <2>2. /\ at' \in Nat
        /\ IF consumed = 0 THEN at' \in start..Size ELSE consumed \in 1..(Size - start)
    BY ONLY <2>1, <1>n, <1>0
  <2>3. visited' \subseteq 0..(Size - 1)
    BY ONLY <2>1, <1>n, <1>2
  <2>4. /\ Size' = Size /\ InName' /\ (Walking' <=> Walking)
    BY ONLY <2>1 DEF Size, InName, Walking
  <2> QED
    BY <2>1, <2>2, <2>3, <2>4, <1>n DEF WalkInv, Inside, InName
\* Where no name is being walked, the position over the answers is what counts.
<1>f. ASSUME pkt' = pkt, ForgetName,
             pc' \in {"questions", "answers", "record", "respond", "done"},
             pc' \in {"questions", "answers", "record"} => pos' \in 12..Size
      PROVE  WalkInv'
  <2>1. Size' = Size /\ ~InName' /\ (Walking' <=> pc' \in {"questions", "answers", "record"})
    BY ONLY <1>f DEF Size, InName, Walking
  <2> QED
    BY <1>f, <2>1 DEF WalkInv, Inside, ForgetName
<1>5. CASE OwnerRead
  <2>1. pc = "owner" /\ AtRoot /\ pos' = pos + Consumed /\ pc' = "record" /\ ForgetName /\ pkt' = pkt
    BY <1>5 DEF OwnerRead
  <2>2. InName /\ Fresh /\ start = pos
    BY <2>1 DEF AtRoot, Inside
  <2>3. Consumed \in 1..(Size - start)
    BY ONLY <2>2, <1>n, <1>0 DEF Consumed
  <2>4. pos' \in 12..Size
    BY ONLY <2>1, <2>2, <2>3, <1>n, <1>0
  <2> QED
    BY <2>1, <2>4, <1>f
<1>6. CASE InstanceRead \/ QuestionRead
  BY <1>6, <1>f DEF InstanceRead, QuestionRead, Inside, Walking
<1>7. CASE NameFails
  BY <1>7, <1>f DEF NameFails, InName, Inside, Walking
<1>b. ASSUME pkt' = pkt, NEW p \in 12..Size, BeginName(p), pos' \in 12..Size,
             pc' \in {"owner", "instance", "entries", "skip"}, pc' = "owner" => p = pos',
             pc' = "entries" => p <= pos'
      PROVE  WalkInv'
  <2>1. Size' = Size
    BY <1>b DEF Size
  <2> QED
    BY <1>b, <2>1, <1>0 DEF WalkInv, Inside, BeginName
<1>8. CASE BeginParse
  <2>1. /\ pkt' = pkt /\ pos' = 12 /\ UNCHANGED walk /\ Size' = Size /\ pc = "received"
        /\ pc' = (IF Size < 12 THEN "respond" ELSE "questions")
    BY <1>8 DEF BeginParse, Size
  <2> QED
    BY <2>1, <1>0 DEF WalkInv, Inside, walk, Walking, InName
<1>9. CASE BeginSkip \/ BeginAnswer
  <2>1. /\ BeginName(pos) /\ pos' = pos /\ pc \in {"questions", "answers"} /\ pkt' = pkt
        /\ pc' \in {"skip", "owner"}
    BY <1>9 DEF BeginSkip, BeginAnswer
  <2>2. pos \in 12..Size
    BY <2>1 DEF Inside, Walking
  <2> QED
    BY <2>1, <2>2, <1>b
<1>10. CASE SkipLabel
  <2>1. /\ pc = "skip" /\ at < Size /\ B(at) \in 1..191 /\ at' = at + 1 + B(at) /\ Size' = Size
        /\ UNCHANGED <<pkt, pc, pos, start, visited, consumed>>
    BY <1>10 DEF SkipLabel, Size
  <2>2. at \in Nat /\ at >= 12 /\ pos \in 12..Size
    BY <2>1 DEF Inside, Walking
  <2>3. at' \in Nat /\ at' >= 12
    BY ONLY <2>1, <2>2
  <2> QED
    BY <2>1, <2>2, <2>3, <1>2 DEF WalkInv, Inside, InName
<1>11. CASE SkipEnds
  <2>1. /\ pc = "skip" /\ at < Size /\ Behind + 4 <= Size /\ pos' = Behind + 4 /\ pc' = "questions"
        /\ ForgetName /\ pkt' = pkt
    BY <1>11 DEF SkipEnds
  <2>2. at \in Nat /\ at >= 12
    BY <2>1 DEF Inside, Walking
  <2>3. pos' \in 12..Size
    BY ONLY <2>1, <2>2, <1>0 DEF Behind
  <2> QED
    BY <2>1, <2>3, <1>f
<1>12. CASE SkipFails
  BY <1>12, <1>f DEF SkipFails
<1>13. CASE BeginAnswers \/ EndAnswers \/ RecordCutOff
  <2>1. /\ UNCHANGED <<pkt, pos, walk>> /\ pc \in {"questions", "answers", "record"}
        /\ Size' = Size
        /\ pc' \in {"answers", "respond"}
    BY <1>13 DEF BeginAnswers, EndAnswers, RecordCutOff, Size
  <2>2. pos \in 12..Size
    BY <2>1 DEF Inside, Walking
  <2> QED
    BY <2>1, <2>2, <1>2 DEF WalkInv, Inside, InName, walk, Walking
<1>14. CASE ReadRecord
  <2> DEFINE data == pos + 10
             next == data + Word(pos + 8)
  <2>1. pc = "record" /\ pos + 10 <= Size /\ pkt' = pkt /\ pos \in 12..Size
    BY <1>14 DEF ReadRecord, Inside, Walking
  <2>2. Word(pos + 8) \in Nat
    <3>0. pos + 8 \in Nat /\ pos + 8 < Size /\ pos + 8 + 1 \in Nat /\ pos + 8 + 1 < Size
      BY ONLY <2>1, <1>0
    <3>1. B(pos + 8) \in 0..255 /\ B(pos + 8 + 1) \in 0..255
      BY ONLY <3>0, <1>1
    <3>2. B(pos + 8) \in Nat /\ B(pos + 8 + 1) \in Nat
      BY ONLY <3>1
    <3> QED
      BY ONLY <3>2, TwoBytes DEF Word
  <2>3. data \in 12..Size /\ next \in Nat /\ data <= next
    BY ONLY <2>1, <2>2, <1>0
  <2>4. CASE UNCHANGED <<pos, walk>> /\ pc' = "respond"
    BY <2>1, <2>4, <1>2 DEF WalkInv, Inside, InName, walk, Walking, Size
  <2>5. CASE /\ next <= Size /\ pos' = next /\ pc' \in {"instance", "entries"} /\ BeginName(data)
    BY <2>1, <2>3, <2>5, <1>b
  <2>6. CASE /\ next <= Size /\ pos' = next /\ pc' = "answers" /\ UNCHANGED walk
    <3>1. pos' \in 12..Size /\ Size' = Size
      BY <2>1, <2>3, <2>6 DEF Size
    <3> QED
      BY <2>1, <3>1, <2>6, <1>2 DEF WalkInv, Inside, InName, walk, Walking
  <2> QED
    BY <1>14, <2>4, <2>5, <2>6 DEF ReadRecord, TypePTR, TypeTXT
<1>15. CASE ReadEntry
  <2>1. /\ pc = "entries" /\ at < pos /\ B(at) # 0 /\ at + 1 + B(at) <= pos
        /\ at' = at + 1 + B(at) /\ Size' = Size
        /\ UNCHANGED <<pkt, pc, pos, start, visited, consumed>>
    BY <1>15 DEF ReadEntry, Size
  <2>2. at \in 12..pos /\ pos \in 12..Size
    BY <2>1 DEF Inside, Walking
  <2>3. at' \in 12..pos
    BY ONLY <2>1, <2>2, <1>0, <1>1
  <2> QED
    BY <2>1, <2>2, <2>3, <1>2 DEF WalkInv, Inside, InName
<1>16. CASE EndEntries
  BY <1>16, <1>f DEF EndEntries, Inside, Walking
<1>17. CASE BeginRespond
  <2>1. /\ pkt' = pkt /\ Size' = Size /\ pc = "respond"
        /\ \/ pc' = "done" /\ UNCHANGED walk
           \/ Size >= 12 /\ pc' = "question" /\ BeginName(12)
    BY <1>17, <1>0 DEF BeginRespond, Size
  <2> QED
    BY <2>1, <1>2, <1>0 DEF WalkInv, Inside, InName, walk, Walking, BeginName
<1>18. CASE ReplyArrives
  <2>1. pkt' \in Seq(Byte) /\ pc = "done" /\ pc' = "received" /\ UNCHANGED walk
    BY <1>18 DEF ReplyArrives
  <2> QED
    BY <2>1 DEF WalkInv, Inside, InName, walk, Walking
<1>19. CASE UNCHANGED packetVars
  BY <1>19 DEF packetVars, walk, WalkInv, Inside, InName, Walking, Size
<1> QED
  BY <1>3, <1>4, <1>5, <1>6, <1>7, <1>8, <1>9, <1>10, <1>11, <1>12, <1>13, <1>14, <1>15,
     <1>16, <1>17, <1>18, <1>19 DEF PacketNext, NameStep

\* Reading a packet of any bytes stays inside it (parse_discovery_response and
\* response_for_query with skip_name and read_name, mdns.rs:214-271, 416-501,
\* 892-985).
THEOREM InsideInvariant == PacketSpec => []Inside
<1>1. PacketInit => WalkInv
  BY DnsConstants DEF PacketInit, WalkInv, Inside, InName, Walking
<1>2. WalkInv => Inside
  BY DEF WalkInv
<1> QED
  BY <1>1, <1>2, WalkInvNext, PTL DEF PacketSpec
------------------------------------------------------------------------------
(* Sequences, one behind the other                                            *)

Below == {p \in Nat \X Nat : p[1] < p[2]}

\* Induction over the natural numbers for a set instead of a predicate: its
\* complement would have a least element.
LEMMA Induction ==
    ASSUME NEW T \in SUBSET Nat, 0 \in T, \A n \in T : n + 1 \in T
    PROVE  T = Nat
<1>1. IsWellFoundedOn(Below, Nat)
  BY NatLessThanWellFounded DEF Below, OpToRel
<1>2. SUFFICES ASSUME Nat \ T # {} PROVE FALSE
  OBVIOUS
<1>3. PICK m \in Nat \ T : \A y \in Nat \ T : <<y, m>> \notin Below
  <2>1. Nat \ T \subseteq Nat
    OBVIOUS
  <2> QED
    BY <1>1, <1>2, <2>1, WFMin
<1>4. m # 0 /\ m - 1 \in Nat
  OBVIOUS
<1>5. m - 1 \notin T
  BY <1>4
<1>6. <<m - 1, m>> \in Below
  BY <1>4 DEF Below
<1> QED
  BY <1>3, <1>4, <1>5, <1>6

\* The recursive function FlattenSeq is made of, for the first n of f.
Flattens(f, n, g) == g = [i \in 1..n |-> IF i = 1 THEN f[i] ELSE g[i - 1] \o f[i]]

\* The function FlattenSeq is made of gives the first of f, then each with what is before
\* it.
LEMMA FlattensValue ==
    ASSUME NEW f, NEW n \in Nat, NEW g, Flattens(f, n, g), NEW i \in 1..n
    PROVE  g[i] = IF i = 1 THEN f[i] ELSE g[i - 1] \o f[i]
<1> DEFINE h == [j \in 1..n |-> IF j = 1 THEN f[j] ELSE g[j - 1] \o f[j]]
<1>1. g = h
  BY DEF Flattens
<1>2. h[i] = IF i = 1 THEN f[i] ELSE g[i - 1] \o f[i]
  OBVIOUS
<1> HIDE DEF h
<1> QED
  BY <1>1, <1>2

\* There is such a function, however many there are.
LEMMA FlattensExists ==
    ASSUME NEW f, NEW n \in Nat
    PROVE  \E g : Flattens(f, n, g)
<1> DEFINE T == {m \in Nat : \E g : Flattens(f, m, g)}
<1>1. 0 \in T
  <2>1. Flattens(f, 0, [i \in {} |-> i])
    BY DEF Flattens
  <2> QED
    BY <2>1
<1>2. ASSUME NEW m \in T PROVE m + 1 \in T
  <2>1. PICK g : Flattens(f, m, g)
    OBVIOUS
  <2>0. m \in Nat
    OBVIOUS
  <2> DEFINE h == [i \in 1..(m + 1) |-> IF i <= m THEN g[i]
                                        ELSE IF i = 1 THEN f[i] ELSE g[i - 1] \o f[i]]
  <2>2. \A i \in 1..m : h[i] = g[i] /\ g[i] = IF i = 1 THEN f[i] ELSE g[i - 1] \o f[i]
    BY <2>0, <2>1, FlattensValue
  <2>5. h[m + 1] = IF m + 1 = 1 THEN f[m + 1] ELSE g[m] \o f[m + 1]
    BY <2>0
  <2>3. \A i \in 1..(m + 1) : h[i] = IF i = 1 THEN f[i] ELSE h[i - 1] \o f[i]
    <3> HIDE DEF h
    <3>1. ASSUME NEW i \in 1..m PROVE h[i] = IF i = 1 THEN f[i] ELSE h[i - 1] \o f[i]
      BY <2>0, <2>2
    <3>2. h[m + 1] = IF m + 1 = 1 THEN f[m + 1] ELSE h[m] \o f[m + 1]
      BY <2>0, <2>2, <2>5
    <3> QED
      BY <2>0, <3>1, <3>2
  <2>4. Flattens(f, m + 1, h)
    BY <2>3 DEF Flattens
  <2> QED
    BY <2>4
<1> QED
  BY <1>1, <1>2, Induction

\* Two such functions agree as far as both go.
LEMMA FlattensUnique ==
    ASSUME NEW f, NEW m \in Nat, NEW n \in Nat, m <= n, NEW g, NEW h,
           Flattens(f, m, g), Flattens(f, n, h)
    PROVE  \A i \in 1..m : g[i] = h[i]
<1> DEFINE T == {i \in Nat : i \in 1..m => g[i] = h[i]}
<1>1. \A i \in 1..m : /\ g[i] = IF i = 1 THEN f[i] ELSE g[i - 1] \o f[i]
                      /\ h[i] = IF i = 1 THEN f[i] ELSE h[i - 1] \o f[i]
  BY FlattensValue
<1>2. 0 \in T /\ \A i \in T : i + 1 \in T
  BY <1>1
<1>3. T = Nat
  BY <1>2, Induction
<1> QED
  BY <1>3

\* The first n of the sequences f, one behind the other.
Joined(f, n) == FlattenSeq([i \in 1..n |-> f[i]])

\* None of them give nothing.
LEMMA JoinedZero == ASSUME NEW f PROVE Joined(f, 0) = <<>>
BY DEF Joined, FlattenSeq

\* Joined is the last value of such a function.
LEMMA JoinedFlattens ==
    ASSUME NEW f, NEW n \in Nat \ {0}
    PROVE  \E g : Flattens(f, n, g) /\ Joined(f, n) = g[n]
<1> DEFINE s == [i \in 1..n |-> f[i]]
           g == CHOOSE h : Flattens(s, n, h)
<1>1. Len(s) = n
  OBVIOUS
<1>2. Joined(f, n) = g[n]
  <2>1. FlattenSeq(s) = (CHOOSE h : h = [i \in 1..Len(s) |-> IF i = 1 THEN s[i] ELSE h[i - 1] \o s[i]])[Len(s)]
    BY <1>1 DEF FlattenSeq
  <2> QED
    BY <1>1, <2>1 DEF Joined, Flattens
<1>3. Flattens(s, n, g)
  BY FlattensExists
<1>4. Flattens(f, n, g)
  <2> HIDE DEF g
  <2>1. [i \in 1..n |-> IF i = 1 THEN f[i] ELSE g[i - 1] \o f[i]]
           = [i \in 1..n |-> IF i = 1 THEN s[i] ELSE g[i - 1] \o s[i]]
    OBVIOUS
  <2> HIDE DEF s
  <2> QED
    BY <1>3, <2>1, Zenon DEF Flattens
<1> QED
  BY <1>2, <1>4

\* With one more, it lies behind those before it.
LEMMA JoinedStep ==
    ASSUME NEW f, NEW n \in Nat
    PROVE  Joined(f, n + 1) = IF n = 0 THEN f[1] ELSE Joined(f, n) \o f[n + 1]
<1>1. PICK h : Flattens(f, n + 1, h) /\ Joined(f, n + 1) = h[n + 1]
  BY JoinedFlattens
<1>2. h[n + 1] = IF n = 0 THEN f[1] ELSE h[n] \o f[n + 1]
  BY <1>1, FlattensValue
<1>3. ASSUME n # 0 PROVE h[n] = Joined(f, n)
  <2>1. PICK g : Flattens(f, n, g) /\ Joined(f, n) = g[n]
    BY <1>3, JoinedFlattens
  <2> QED
    BY <1>1, <1>3, <2>1, FlattensUnique
<1> QED
  BY <1>1, <1>2, <1>3

\* What is joined of sequences over S is one.
LEMMA JoinedType ==
    ASSUME NEW S, NEW N \in Nat, NEW f \in [1..N -> Seq(S)], NEW n \in Nat, n <= N
    PROVE  Joined(f, n) \in Seq(S)
<1> DEFINE T == {i \in Nat : i <= N => Joined(f, i) \in Seq(S)}
<1>1. 0 \in T
  BY JoinedZero, EmptySeq
<1>2. ASSUME NEW i \in T PROVE i + 1 \in T
  <2>1. i \in Nat
    OBVIOUS
  <2>2. SUFFICES ASSUME i + 1 <= N PROVE Joined(f, i + 1) \in Seq(S)
    OBVIOUS
  <2>3. f[i + 1] \in Seq(S) /\ Joined(f, i) \in Seq(S)
    BY <2>1, <2>2
  <2>4. f[1] \in Seq(S)
    BY <2>1, <2>2
  <2> QED
    BY <2>1, <2>3, <2>4, JoinedStep, ConcatProperties
<1>3. T = Nat
  BY <1>1, <1>2, Induction
<1> QED
  BY <1>3

\* t lies in s, behind the first k elements.
Placed(s, k, t) ==
    /\ k \in Nat /\ Len(s) \in Nat /\ Len(t) \in Nat
    /\ k + Len(t) <= Len(s)
    /\ \A i \in 1..Len(t) : s[k + i] = t[i]

\* A piece of a piece is a piece.
LEMMA PlacedWithin ==
    ASSUME NEW s, NEW k, NEW t, NEW l, NEW u, Placed(s, k, t), Placed(t, l, u)
    PROVE  Placed(s, k + l, u)
<1>1. /\ k \in Nat /\ Len(s) \in Nat /\ Len(t) \in Nat /\ l \in Nat /\ Len(u) \in Nat
      /\ k + Len(t) <= Len(s) /\ l + Len(u) <= Len(t)
  BY DEF Placed
<1>2. ASSUME NEW i \in 1..Len(u) PROVE s[(k + l) + i] = u[i]
  <2>1. l + i \in 1..Len(t) /\ (k + l) + i = k + (l + i)
    BY <1>1
  <2>2. s[k + (l + i)] = t[l + i] /\ t[l + i] = u[i]
    BY <2>1 DEF Placed
  <2> QED
    BY <2>1, <2>2
<1> QED
  BY <1>1, <1>2 DEF Placed

\* A sequence lies in itself, and nothing in any.
LEMMA PlacedFirst ==
    ASSUME NEW S, NEW s \in Seq(S)
    PROVE  Placed(s, 0, s) /\ Placed(s, 0, <<>>)
<1>1. Len(s) \in Nat
  BY LenProperties
<1> QED
  BY <1>1 DEF Placed

\* Where the two parts of a concatenation lie.
LEMMA ConcatPlaced ==
    ASSUME NEW S, NEW a \in Seq(S), NEW b \in Seq(S)
    PROVE  /\ a \o b \in Seq(S) /\ Len(a) \in Nat /\ Len(b) \in Nat
           /\ Len(a \o b) = Len(a) + Len(b)
           /\ Placed(a \o b, 0, a) /\ Placed(a \o b, Len(a), b)
<1>1. /\ a \o b \in Seq(S)
      /\ Len(a) \in Nat /\ Len(b) \in Nat /\ Len(a \o b) = Len(a) + Len(b)
      /\ \A i \in 1 .. Len(a) + Len(b) : (a \o b)[i] = IF i <= Len(a) THEN a[i] ELSE b[i - Len(a)]
  BY ConcatProperties, LenProperties
<1>2. /\ \A i \in 1..Len(a) : (a \o b)[i] = a[i]
      /\ \A i \in 1..Len(b) : (a \o b)[Len(a) + i] = b[i]
  BY <1>1
<1> QED
  BY <1>1, <1>2 DEF Placed

\* What is joined of more is no shorter.
LEMMA JoinedGrows ==
    ASSUME NEW S, NEW N \in Nat, NEW f \in [1..N -> Seq(S)], NEW n \in Nat, n < N
    PROVE  /\ Joined(f, n + 1) = Joined(f, n) \o f[n + 1]
           /\ Joined(f, n) \in Seq(S) /\ f[n + 1] \in Seq(S)
<1>1. Joined(f, n) \in Seq(S) /\ f[n + 1] \in Seq(S)
  <2>1. n <= N /\ n + 1 \in 1..N
    OBVIOUS
  <2> QED
    BY <2>1, JoinedType
<1>2. Joined(f, n + 1) = Joined(f, n) \o f[n + 1]
  <2>1. CASE n = 0
    <3>1. Joined(f, 1) = f[1] /\ Joined(f, 0) = <<>>
      BY <2>1, JoinedZero, JoinedStep
    <3>2. <<>> \o f[1] = f[1]
      BY <1>1, <2>1, ConcatEmptySeq
    <3> QED
      BY <2>1, <3>1, <3>2
  <2>2. CASE n # 0
    BY <2>2, JoinedStep
  <2> QED
    BY <2>1, <2>2
<1> QED
  BY <1>1, <1>2

\* What is joined of the first m begins what is joined of n.
LEMMA JoinedPrefix ==
    ASSUME NEW S, NEW N \in Nat, NEW f \in [1..N -> Seq(S)], NEW n \in Nat, NEW m \in Nat,
           n <= m, m <= N
    PROVE  Placed(Joined(f, m), 0, Joined(f, n))
<1> DEFINE T == {k \in Nat : n <= k /\ k <= N => Placed(Joined(f, k), 0, Joined(f, n))}
<1>1. \A k \in Nat : k = n => Placed(Joined(f, k), 0, Joined(f, n))
  <2>1. Joined(f, n) \in Seq(S)
    BY JoinedType
  <2> QED
    BY <2>1, PlacedFirst
<1>2. 0 \in T
  BY <1>1
<1>3. ASSUME NEW k \in T PROVE k + 1 \in T
  <2>1. k \in Nat
    OBVIOUS
  <2>2. SUFFICES ASSUME n <= k + 1, k + 1 <= N PROVE Placed(Joined(f, k + 1), 0, Joined(f, n))
    BY <2>1
  <2>3. CASE k + 1 = n
    BY <2>1, <2>3, <1>1
  <2>4. CASE n <= k
    <3>1. k < N /\ Placed(Joined(f, k), 0, Joined(f, n))
      BY <2>1, <2>2, <2>4
    <3>2. /\ Joined(f, k + 1) = Joined(f, k) \o f[k + 1]
          /\ Joined(f, k) \in Seq(S) /\ f[k + 1] \in Seq(S)
      BY <2>1, <3>1, JoinedGrows
    <3>3. Placed(Joined(f, k + 1), 0, Joined(f, k))
      BY <3>2, ConcatPlaced
    <3>4. Placed(Joined(f, k + 1), 0 + 0, Joined(f, n))
      BY <3>1, <3>3, PlacedWithin
    <3> QED
      BY <3>4
  <2> QED
    BY <2>1, <2>2, <2>3, <2>4
<1>4. T = Nat
  <2> HIDE DEF T
  <2>1. T \in SUBSET Nat
    BY DEF T
  <2> QED
    BY <1>2, <1>3, <2>1, Induction
<1>5. m \in T
  BY <1>4
<1> QED
  BY <1>5

\* Where the next piece lies in all of them.
LEMMA JoinedPiece ==
    ASSUME NEW S, NEW N \in Nat, NEW f \in [1..N -> Seq(S)], NEW n \in Nat, n < N
    PROVE  /\ Placed(Joined(f, N), Len(Joined(f, n)), f[n + 1])
           /\ Len(Joined(f, n + 1)) = Len(Joined(f, n)) + Len(f[n + 1])
<1>1. /\ Joined(f, n + 1) = Joined(f, n) \o f[n + 1]
      /\ Joined(f, n) \in Seq(S) /\ f[n + 1] \in Seq(S)
  BY JoinedGrows
<1>2. /\ Placed(Joined(f, n + 1), Len(Joined(f, n)), f[n + 1])
      /\ Len(Joined(f, n + 1)) = Len(Joined(f, n)) + Len(f[n + 1])
      /\ Len(Joined(f, n)) \in Nat
  BY <1>1, ConcatPlaced
<1>3. n + 1 \in Nat /\ n + 1 <= N /\ N <= N
  OBVIOUS
<1>4. Placed(Joined(f, N), 0, Joined(f, n + 1))
  BY <1>3, JoinedPrefix
<1>5. Placed(Joined(f, N), 0 + Len(Joined(f, n)), f[n + 1])
  BY <1>2, <1>4, PlacedWithin
<1> QED
  BY <1>2, <1>5

------------------------------------------------------------------------------
(* Names                                                                      *)

NamePieces(name) == [i \in 1..Len(name) |-> <<Len(name[i]) % 256>> \o name[i]]
DotPieces(name) == [i \in 1..Len(name) |-> <<Dot>> \o name[i]]

\* Bytes of the first n labels of a name.
LabelBytes(name, n) == Len(Joined(NamePieces(name), n))

\* A sequence of one element.
LEMMA OneElement ==
    ASSUME NEW x \in Nat
    PROVE  <<x>> \in Seq(Nat) /\ Len(<<x>>) = 1 /\ <<x>>[1] = x
OBVIOUS

\* What fits a byte is not cut to one.
LEMMA SmallByte == ASSUME NEW n \in Nat, n < 256 PROVE n % 256 = n
OBVIOUS

\* Bytes and characters are numbers.
LEMMA NatSeq ==
    ASSUME NEW S \in SUBSET Nat, NEW s \in Seq(S)
    PROVE  s \in Seq(Nat)
BY SeqMonotonic

\* The labels of a name, with their length bytes and with their dots.
LEMMA NameTyped ==
    ASSUME NEW name, IsName(name)
    PROVE  /\ Len(name) \in Nat
           /\ \A i \in 1..Len(name) : /\ name[i] \in Seq(Ascii) /\ name[i] \in Seq(Nat)
                                      /\ Len(name[i]) \in 1..191 /\ Len(name[i]) % 256 = Len(name[i])
           /\ NamePieces(name) \in [1..Len(name) -> Seq(Nat)]
           /\ DotPieces(name) \in [1..Len(name) -> Seq(Nat)]
<1>1. name \in Seq(Seq(Ascii)) /\ Len(name) \in Nat
  BY LenProperties DEF IsName
<1>2. ASSUME NEW i \in 1..Len(name)
      PROVE  /\ name[i] \in Seq(Ascii) /\ name[i] \in Seq(Nat)
             /\ Len(name[i]) \in 1..191 /\ Len(name[i]) % 256 = Len(name[i])
             /\ NamePieces(name)[i] \in Seq(Nat) /\ DotPieces(name)[i] \in Seq(Nat)
  <2>1. name[i] \in Seq(Ascii) /\ Len(name[i]) \in 1..191
    BY <1>1, ElementOfSeq DEF IsName
  <2>2. name[i] \in Seq(Nat)
    <3>1. Ascii \in SUBSET Nat
      BY DEF Ascii
    <3> QED
      BY <2>1, <3>1, NatSeq
  <2>6. Len(name[i]) \in Nat /\ Len(name[i]) < 256
    <3>1. \A k \in 1..191 : k \in Nat /\ k < 256
      OBVIOUS
    <3> QED
      BY ONLY <2>1, <3>1
  <2>3. Len(name[i]) % 256 = Len(name[i])
    BY ONLY <2>6, SmallByte
  <2>7. Dot \in Nat
    BY DEF Dot
  <2>4. <<Len(name[i]) % 256>> \in Seq(Nat) /\ <<Dot>> \in Seq(Nat)
    BY <2>6, <2>3, <2>7, OneElement
  <2>5. <<Len(name[i]) % 256>> \o name[i] \in Seq(Nat) /\ <<Dot>> \o name[i] \in Seq(Nat)
    BY <2>2, <2>4, ConcatProperties
  <2> QED
    BY <2>1, <2>2, <2>3, <2>5 DEF NamePieces, DotPieces
<1> QED
  BY <1>1, <1>2 DEF NamePieces, DotPieces

\* encode_name writes the labels and the root label.
LEMMA NameEncoded ==
    ASSUME NEW name, IsName(name)
    PROVE  /\ EncodeName(name) \in Seq(Nat)
           /\ Len(EncodeName(name)) = LabelBytes(name, Len(name)) + 1
           /\ LabelBytes(name, Len(name)) \in Nat
           /\ Placed(EncodeName(name), 0, Joined(NamePieces(name), Len(name)))
           /\ Placed(EncodeName(name), LabelBytes(name, Len(name)), <<0>>)
<1>1. EncodeName(name) = Joined(NamePieces(name), Len(name)) \o <<0>>
  <2>1. NamePieces(name) = [i \in 1..Len(name) |-> NamePieces(name)[i]]
    BY DEF NamePieces
  <2> QED
    BY <2>1 DEF EncodeName, Joined, NamePieces
<1>2. Joined(NamePieces(name), Len(name)) \in Seq(Nat)
  <2>1. Len(name) \in Nat /\ NamePieces(name) \in [1..Len(name) -> Seq(Nat)]
    BY NameTyped
  <2>2. Len(name) <= Len(name)
    BY ONLY <2>1
  <2> QED
    BY ONLY <2>1, <2>2, JoinedType
<1>3. <<0>> \in Seq(Nat) /\ Len(<<0>>) = 1
  BY OneElement
<1> QED
  BY <1>1, <1>2, <1>3, ConcatPlaced DEF LabelBytes

\* Label n + 1 of a name that lies in s from p on.
LEMMA NameLabel ==
    ASSUME NEW name, IsName(name), NEW s, NEW p, Placed(s, p, EncodeName(name)),
           NEW n \in Nat, n < Len(name)
    PROVE  /\ LabelBytes(name, n) \in Nat /\ p \in Nat
           /\ s[p + LabelBytes(name, n) + 1] = Len(name[n + 1])
           /\ Placed(s, p + LabelBytes(name, n) + 1, name[n + 1])
           /\ LabelBytes(name, n + 1) = LabelBytes(name, n) + 1 + Len(name[n + 1])
           /\ LabelBytes(name, n + 1) < Len(EncodeName(name))
<1> DEFINE f == NamePieces(name)
           k == LabelBytes(name, n)
           label == name[n + 1]
<1>1. /\ Len(name) \in Nat /\ f \in [1..Len(name) -> Seq(Nat)] /\ n + 1 \in 1..Len(name)
      /\ label \in Seq(Nat) /\ Len(label) \in 1..191
      /\ f[n + 1] = <<Len(label)>> \o label
  <2>1. Len(name) \in Nat /\ f \in [1..Len(name) -> Seq(Nat)]
    BY NameTyped
  <2>2. n + 1 \in 1..Len(name)
    BY <2>1
  <2>3. label \in Seq(Nat) /\ Len(label) \in 1..191 /\ Len(label) % 256 = Len(label)
    BY <2>2, NameTyped
  <2>4. f[n + 1] = <<Len(label) % 256>> \o label
    BY <2>2 DEF NamePieces
  <2> QED
    BY <2>1, <2>2, <2>3, <2>4
<1>2. /\ <<Len(label)>> \in Seq(Nat) /\ Len(<<Len(label)>>) = 1 /\ <<Len(label)>>[1] = Len(label)
  BY <1>1, OneElement
<1> HIDE DEF f, k, label
<1>3. /\ Len(f[n + 1]) = 1 + Len(label)
      /\ Placed(f[n + 1], 0, <<Len(label)>>) /\ Placed(f[n + 1], 1, label)
  BY <1>1, <1>2, ConcatPlaced
<1>4. /\ Placed(Joined(f, Len(name)), k, f[n + 1])
      /\ LabelBytes(name, n + 1) = k + Len(f[n + 1])
  BY <1>1, JoinedPiece DEF LabelBytes, f, k
<1>5. Placed(s, p + 0, Joined(f, Len(name)))
  BY NameEncoded, PlacedWithin DEF f
<1>6. p \in Nat /\ k \in Nat
  BY <1>4 DEF Placed
<1>7. Placed(s, p + k, f[n + 1])
  <2>1. Placed(s, p + 0 + k, f[n + 1])
    BY <1>4, <1>5, PlacedWithin
  <2> QED
    BY <2>1, <1>6
<1>8. Placed(s, p + k + 0, <<Len(label)>>) /\ Placed(s, p + k + 1, label)
  BY <1>3, <1>7, PlacedWithin
<1>9. s[p + k + 1] = Len(label)
  <2>1. s[p + k + 0 + 1] = <<Len(label)>>[1]
    BY <1>2, <1>8 DEF Placed
  <2> QED
    BY <2>1, <1>2, <1>6
<1>10. LabelBytes(name, n + 1) < Len(EncodeName(name))
  <2>1. k + Len(f[n + 1]) <= LabelBytes(name, Len(name))
    BY <1>4 DEF Placed, LabelBytes, f
  <2> QED
    BY <2>1, <1>4, <1>6, <1>3, <1>1, NameEncoded
<1>11. LabelBytes(name, n + 1) = k + 1 + Len(label)
  BY <1>1, <1>3, <1>4, <1>6
<1> QED
  BY <1>6, <1>8, <1>9, <1>10, <1>11 DEF k, label

\* No labels take no bytes.
LEMMA NameBegin == ASSUME NEW name PROVE LabelBytes(name, 0) = 0
BY JoinedZero DEF LabelBytes

\* The root label behind the last one.
LEMMA NameRoot ==
    ASSUME NEW name, IsName(name), NEW s, NEW p, Placed(s, p, EncodeName(name))
    PROVE  /\ s[p + LabelBytes(name, Len(name)) + 1] = 0
           /\ LabelBytes(name, Len(name)) + 1 = Len(EncodeName(name))
           /\ LabelBytes(name, Len(name)) \in Nat /\ p \in Nat
           /\ p + Len(EncodeName(name)) <= Len(s)
<1> DEFINE k == LabelBytes(name, Len(name))
<1>1. Placed(s, p + k, <<0>>) /\ Len(EncodeName(name)) = k + 1 /\ k \in Nat
  BY NameEncoded, PlacedWithin
<1>2. Len(<<0>>) = 1 /\ <<0>>[1] = 0
  BY OneElement
<1>3. s[p + k + 1] = 0
  BY <1>1, <1>2 DEF Placed
<1> QED
  BY <1>1, <1>3 DEF Placed

------------------------------------------------------------------------------
(* Records                                                                    *)

\* A word is the sum of its two bytes.
LEMMA WordParts ==
    ASSUME NEW n \in Words
    PROVE  n \div 256 \in Nat /\ n % 256 \in Nat /\ 256 * (n \div 256) + (n % 256) = n
BY DEF Words

\* A word takes two bytes.
LEMMA U16Typed ==
    ASSUME NEW n \in Words
    PROVE  U16(n) \in Seq(Nat) /\ Len(U16(n)) = 2
BY WordParts DEF U16

\* A time to live takes four bytes, of which the last two tell it.
LEMMA U32Typed ==
    ASSUME NEW n \in Words
    PROVE  U32(n) \in Seq(Nat) /\ Len(U32(n)) = 4
           /\ Placed(U32(n), 0, <<0, 0>>) /\ Placed(U32(n), 2, U16(n))
<1>1. <<0, 0>> \in Seq(Nat) /\ Len(<<0, 0>>) = 2
  OBVIOUS
<1>2. U16(n) \in Seq(Nat) /\ Len(U16(n)) = 2 /\ U32(n) = <<0, 0>> \o U16(n) 
  BY U16Typed DEF U32
<1>3. /\ U32(n) \in Seq(Nat) /\ Len(U32(n)) = Len(<<0, 0>>) + Len(U16(n))
      /\ Placed(U32(n), 0, <<0, 0>>) /\ Placed(U32(n), Len(<<0, 0>>), U16(n))
  BY <1>1, <1>2, ConcatPlaced
<1> QED
  BY <1>1, <1>2, <1>3

\* A word in s is read as what it was written from.
LEMMA WordRead ==
    ASSUME NEW s, NEW p, NEW n \in Words, Placed(s, p, U16(n))
    PROVE  256 * s[p + 1] + s[p + 2] = n /\ p \in Nat /\ p + 2 <= Len(s)
<1>1. s[p + 1] = n \div 256 /\ s[p + 2] = n % 256 /\ p \in Nat /\ p + 2 <= Len(s)
      /\ 256 * (n \div 256) + (n % 256) = n
  <2>1. Len(U16(n)) = 2 /\ 1 \in 1..2 /\ 2 \in 1..2
    BY U16Typed
  <2>2. s[p + 1] = U16(n)[1] /\ s[p + 2] = U16(n)[2] /\ p \in Nat /\ p + 2 <= Len(s)
    BY <2>1 DEF Placed
  <2> QED
    BY <2>2, WordParts DEF U16
<1> QED
  BY ONLY <1>1

\* A time to live is zero if its bytes are.
LEMMA LongRead ==
    ASSUME NEW s, NEW p, NEW n \in Words, Placed(s, p, U32(n))
    PROVE  n = 0 <=> s[p + 1] = 0 /\ s[p + 2] = 0 /\ s[p + 3] = 0 /\ s[p + 4] = 0
<1>1. p \in Nat
  BY DEF Placed
<1>2. s[p + 1] = 0 /\ s[p + 2] = 0
  <2>1. Placed(s, p + 0, <<0, 0>>)
    BY U32Typed, PlacedWithin
  <2> QED
    BY <1>1, <2>1 DEF Placed
<1>3. s[p + 3] = n \div 256 /\ s[p + 4] = n % 256
  <2>1. Placed(s, p + 2, U16(n)) /\ Len(U16(n)) = 2
    BY U32Typed, U16Typed, PlacedWithin
  <2>2. s[p + 2 + 1] = U16(n)[1] /\ s[p + 2 + 2] = U16(n)[2]
    BY <2>1 DEF Placed
  <2> QED
    BY <1>1, <2>2 DEF U16
<1>4. n = 0 <=> n \div 256 = 0 /\ n % 256 = 0
  BY DEF Words
<1> QED
  BY <1>2, <1>3, <1>4

IsAnswer(a) ==
    /\ IsName(a.name)
    /\ a.rtype \in Words /\ a.class \in Words /\ a.ttl \in Words
    /\ a.rdata \in Seq(Nat) /\ Len(a.rdata) \in Words

\* Bytes of the owner's name.
OwnerBytes(a) == Len(EncodeName(a.name))

\* Where the fields of a record lie.
LEMMA AnswerEncoded ==
    ASSUME NEW a, IsAnswer(a)
    PROVE  /\ EncodeAnswer(a) \in Seq(Nat) /\ OwnerBytes(a) \in Nat
           /\ Len(EncodeAnswer(a)) = OwnerBytes(a) + 10 + Len(a.rdata)
           /\ Placed(EncodeAnswer(a), 0, EncodeName(a.name))
           /\ Placed(EncodeAnswer(a), OwnerBytes(a), U16(a.rtype))
           /\ Placed(EncodeAnswer(a), OwnerBytes(a) + 4, U32(a.ttl))
           /\ Placed(EncodeAnswer(a), OwnerBytes(a) + 8, U16(Len(a.rdata)))
           /\ Placed(EncodeAnswer(a), OwnerBytes(a) + 10, a.rdata)
<1> DEFINE s0 == EncodeName(a.name)
           s1 == s0 \o U16(a.rtype)
           s2 == s1 \o U16(a.class)
           s3 == s2 \o U32(a.ttl)
           s4 == s3 \o U16(Len(a.rdata))
           s5 == s4 \o a.rdata
           r == Len(s0)
<1>1. /\ s0 \in Seq(Nat) /\ U16(a.rtype) \in Seq(Nat) /\ U16(a.class) \in Seq(Nat)
      /\ U32(a.ttl) \in Seq(Nat) /\ U16(Len(a.rdata)) \in Seq(Nat) /\ a.rdata \in Seq(Nat)
  BY NameEncoded, U16Typed, U32Typed DEF IsAnswer
<1>2. Len(U16(a.rtype)) = 2 /\ Len(U16(a.class)) = 2 /\ Len(U32(a.ttl)) = 4 /\ Len(U16(Len(a.rdata))) = 2
      /\ Len(a.rdata) \in Nat
  BY <1>1, U16Typed, U32Typed, LenProperties DEF IsAnswer
<1>3. EncodeAnswer(a) = s5 /\ OwnerBytes(a) = r
  BY DEF EncodeAnswer, OwnerBytes
<1> HIDE DEF s0
<1>0. r \in Nat
  BY <1>1, LenProperties
<1> HIDE DEF r
<1>4. s1 \in Seq(Nat) /\ r \in Nat /\ Len(s1) = r + 2 /\ Placed(s1, 0, s0) /\ Placed(s1, r, U16(a.rtype))
  <2>1. /\ s1 \in Seq(Nat) /\ Len(s1) = Len(s0) + Len(U16(a.rtype))
        /\ Placed(s1, 0, s0) /\ Placed(s1, Len(s0), U16(a.rtype))
    BY <1>1, ConcatPlaced
  <2> QED
    BY <2>1, <1>2, <1>0 DEF r
<1> HIDE DEF s1
<1>5. s2 \in Seq(Nat) /\ Len(s2) = r + 4 /\ Placed(s2, 0, s1)
  <2>1. s2 \in Seq(Nat) /\ Len(s2) = Len(s1) + Len(U16(a.class)) /\ Placed(s2, 0, s1)
    BY <1>1, <1>4, ConcatPlaced
  <2> QED
    BY <2>1, <1>2, <1>4
<1> HIDE DEF s2
<1>6. s3 \in Seq(Nat) /\ Len(s3) = r + 8 /\ Placed(s3, 0, s2) /\ Placed(s3, r + 4, U32(a.ttl))
  <2>1. /\ s3 \in Seq(Nat) /\ Len(s3) = Len(s2) + Len(U32(a.ttl))
        /\ Placed(s3, 0, s2) /\ Placed(s3, Len(s2), U32(a.ttl))
    BY <1>1, <1>5, ConcatPlaced
  <2> QED
    BY <2>1, <1>0, <1>2, <1>5
<1> HIDE DEF s3
<1>7. s4 \in Seq(Nat) /\ Len(s4) = r + 10 /\ Placed(s4, 0, s3) /\ Placed(s4, r + 8, U16(Len(a.rdata)))
  <2>1. /\ s4 \in Seq(Nat) /\ Len(s4) = Len(s3) + Len(U16(Len(a.rdata)))
        /\ Placed(s4, 0, s3) /\ Placed(s4, Len(s3), U16(Len(a.rdata)))
    BY <1>1, <1>6, ConcatPlaced
  <2> QED
    BY <2>1, <1>0, <1>2, <1>6
<1> HIDE DEF s4
<1>8. /\ s5 \in Seq(Nat) /\ Len(s5) = r + 10 + Len(a.rdata)
      /\ Placed(s5, 0, s4) /\ Placed(s5, r + 10, a.rdata)
  <2>1. /\ s5 \in Seq(Nat) /\ Len(s5) = Len(s4) + Len(a.rdata)
        /\ Placed(s5, 0, s4) /\ Placed(s5, Len(s4), a.rdata)
    BY <1>1, <1>7, ConcatPlaced
  <2> QED
    BY <2>1, <1>7
<1> HIDE DEF s5
<1>9. ASSUME NEW s, NEW t, NEW k \in Nat, NEW u, Placed(s, 0, t), Placed(t, k, u)
      PROVE  Placed(s, k, u)
  <2>1. Placed(s, 0 + k, u)
    BY <1>9, PlacedWithin
  <2> QED
    BY <2>1
<1>10. Placed(s5, 0, s3) /\ Placed(s5, r + 8, U16(Len(a.rdata)))
  <2>1. r + 8 \in Nat
    BY <1>0
  <2> QED
    BY <1>7, <1>8, <1>9, <2>1
<1>11. Placed(s5, 0, s2) /\ Placed(s5, r + 4, U32(a.ttl))
  <2>1. r + 4 \in Nat
    BY <1>0
  <2> QED
    BY <1>6, <1>10, <1>9, <2>1
<1>12. Placed(s5, 0, s1)
  BY <1>5, <1>11, <1>9
<1>13. Placed(s5, 0, s0) /\ Placed(s5, r, U16(a.rtype))
  BY <1>4, <1>12, <1>9
<1> QED
  BY <1>3, <1>4, <1>8, <1>10, <1>11, <1>13, <1>0 DEF s0, r

\* What is read where a record lies in s.
LEMMA AnswerRead ==
    ASSUME NEW a, IsAnswer(a), NEW s, NEW p, Placed(s, p, EncodeAnswer(a))
    PROVE  /\ p \in Nat /\ OwnerBytes(a) \in Nat /\ Len(a.rdata) \in Nat
           /\ p + OwnerBytes(a) + 10 + Len(a.rdata) <= Len(s)
           /\ Placed(s, p, EncodeName(a.name))
           /\ 256 * s[p + OwnerBytes(a) + 1] + s[p + OwnerBytes(a) + 2] = a.rtype
           /\ a.ttl = 0 <=> /\ s[p + OwnerBytes(a) + 5] = 0 /\ s[p + OwnerBytes(a) + 6] = 0
                            /\ s[p + OwnerBytes(a) + 7] = 0 /\ s[p + OwnerBytes(a) + 8] = 0
           /\ 256 * s[p + OwnerBytes(a) + 9] + s[p + OwnerBytes(a) + 10] = Len(a.rdata)
           /\ Placed(s, p + OwnerBytes(a) + 10, a.rdata)
<1> DEFINE r == OwnerBytes(a)
<1>1. /\ Placed(s, p + 0, EncodeName(a.name)) /\ Placed(s, p + r, U16(a.rtype))
      /\ Placed(s, p + (r + 4), U32(a.ttl)) /\ Placed(s, p + (r + 8), U16(Len(a.rdata)))
      /\ Placed(s, p + (r + 10), a.rdata)
  BY AnswerEncoded, PlacedWithin
<1>2. /\ p \in Nat /\ r \in Nat /\ Len(a.rdata) \in Nat /\ p + r + 10 + Len(a.rdata) <= Len(s)
      /\ a.rtype \in Words /\ a.ttl \in Words /\ Len(a.rdata) \in Words
  <2>1. a.rtype \in Words /\ a.ttl \in Words /\ Len(a.rdata) \in Words
    BY DEF IsAnswer
  <2>2. p \in Nat /\ p + Len(EncodeAnswer(a)) <= Len(s)
    BY DEF Placed
  <2>3. r \in Nat /\ Len(EncodeAnswer(a)) = r + 10 + Len(a.rdata)
    BY AnswerEncoded
  <2>4. Len(a.rdata) \in Nat
    BY LenProperties DEF IsAnswer
  <2> QED
    BY <2>1, <2>2, <2>3, <2>4
<1>3. 256 * s[p + r + 1] + s[p + r + 2] = a.rtype
  BY <1>1, <1>2, WordRead
<1>4. 256 * s[p + r + 9] + s[p + r + 10] = Len(a.rdata)
  <2>1. 256 * s[p + (r + 8) + 1] + s[p + (r + 8) + 2] = Len(a.rdata)
    BY <1>1, <1>2, WordRead
  <2>2. p + (r + 8) + 1 = p + r + 9 /\ p + (r + 8) + 2 = p + r + 10
    BY <1>2
  <2> QED
    BY <2>1, <2>2
<1>5. a.ttl = 0 <=> s[p + r + 5] = 0 /\ s[p + r + 6] = 0 /\ s[p + r + 7] = 0 /\ s[p + r + 8] = 0
  <2>1. a.ttl = 0 <=> /\ s[p + (r + 4) + 1] = 0 /\ s[p + (r + 4) + 2] = 0
                      /\ s[p + (r + 4) + 3] = 0 /\ s[p + (r + 4) + 4] = 0
    BY <1>1, <1>2, LongRead
  <2>2. /\ p + (r + 4) + 1 = p + r + 5 /\ p + (r + 4) + 2 = p + r + 6
        /\ p + (r + 4) + 3 = p + r + 7 /\ p + (r + 4) + 4 = p + r + 8
    BY <1>2
  <2> QED
    BY <2>1, <2>2
<1>6. p + 0 = p /\ p + (r + 10) = p + r + 10
  BY <1>2
<1> QED
  BY <1>1, <1>2, <1>3, <1>4, <1>5, <1>6

AnswerPieces(answers) == [i \in 1..Len(answers) |-> EncodeAnswer(answers[i])]

\* Where answer n + 1 begins in the packet s, which ends with the answers.
AnswerAt(s, answers, n) ==
    Len(s) - Len(Joined(AnswerPieces(answers), Len(answers))) + Len(Joined(AnswerPieces(answers), n))

IsAnswers(answers) ==
    /\ answers \in Seq(Range(answers)) /\ Len(answers) \in Words
    /\ \A i \in 1..Len(answers) : IsAnswer(answers[i])

\* Records are written one behind the other.
LEMMA PiecesTyped ==
    ASSUME NEW answers, IsAnswers(answers)
    PROVE  /\ Len(answers) \in Nat
           /\ AnswerPieces(answers) \in [1..Len(answers) -> Seq(Nat)]
           /\ \A n \in Nat : n <= Len(answers) =>
                 /\ Joined(AnswerPieces(answers), n) \in Seq(Nat)
                 /\ Len(Joined(AnswerPieces(answers), n)) \in Nat
<1>1. Len(answers) \in Nat
  BY LenProperties DEF IsAnswers
<1>2. AnswerPieces(answers) \in [1..Len(answers) -> Seq(Nat)]
  BY AnswerEncoded DEF AnswerPieces, IsAnswers
<1> QED
  BY <1>1, <1>2, JoinedType, LenProperties

\* Where header, question and records lie in what build_response returns.
LEMMA ResponseBuilt ==
    ASSUME NEW id \in Seq(Nat), Len(id) = 2, NEW question \in Seq(Nat),
           NEW answers, IsAnswers(answers)
    PROVE  LET s == BuildResponse(id, question, answers)
               all == Joined(AnswerPieces(answers), Len(answers))
           IN  /\ s \in Seq(Nat) /\ Len(s) = 12 + Len(question) + Len(all)
               /\ Len(question) \in Nat /\ Len(all) \in Nat
               /\ Placed(s, 4, U16(IF question = <<>> THEN 0 ELSE 1))
               /\ Placed(s, 6, U16(Len(answers)))
               /\ Placed(s, 12, question)
               /\ Placed(s, 12 + Len(question), all)
<1> DEFINE q == IF question = <<>> THEN 0 ELSE 1
           all == Joined(AnswerPieces(answers), Len(answers))
           w1 == U16(33792)
           w2 == U16(q)
           w3 == U16(Len(answers))
           w4 == U16(0)
           s0 == id
           s1 == s0 \o w1
           s2 == s1 \o w2
           s3 == s2 \o w3
           s4 == s3 \o w4
           s5 == s4 \o w4
           s6 == s5 \o question
           s7 == s6 \o all
<1>1. BuildResponse(id, question, answers) = s7
  <2>1. all = FlattenSeq([i \in 1..Len(answers) |-> EncodeAnswer(answers[i])])
    BY DEF Joined, AnswerPieces
  <2> HIDE DEF all
  <2> QED
    BY <2>1 DEF BuildResponse
<1>2. /\ q \in Words /\ 33792 \in Words /\ 0 \in Words /\ Len(answers) \in Words
      /\ all \in Seq(Nat) /\ Len(all) \in Nat /\ Len(question) \in Nat
  <2>1. Len(answers) \in Nat /\ Len(answers) <= Len(answers)
    BY PiecesTyped
  <2>2. all \in Seq(Nat) /\ Len(all) \in Nat
    BY <2>1, PiecesTyped
  <2>3. q \in Words /\ 33792 \in Words /\ 0 \in Words
    BY DEF Words
  <2>4. Len(answers) \in Words
    BY DEF IsAnswers
  <2>5. Len(question) \in Nat
    BY LenProperties
  <2> QED
    BY <2>2, <2>3, <2>4, <2>5
<1>w. /\ w1 \in Seq(Nat) /\ w2 \in Seq(Nat) /\ w3 \in Seq(Nat) /\ w4 \in Seq(Nat)
      /\ Len(w1) = 2 /\ Len(w2) = 2 /\ Len(w3) = 2 /\ Len(w4) = 2
  <2> HIDE DEF q
  <2> QED
    BY <1>2, U16Typed
<1> HIDE DEF q, all, s0, w1, w2, w3, w4
<1>3. s0 \in Seq(Nat) /\ Len(s0) = 2
  BY DEF s0
<1>4. /\ s1 \in Seq(Nat) /\ Len(s1) = 4
      /\ Placed(s1, 0, s0) /\ Placed(s1, 2, w1)
  <2>1. w1 \in Seq(Nat) /\ s0 \in Seq(Nat)
    BY <1>w, <1>3
  <2>2. /\ s1 \in Seq(Nat) /\ Len(s1) = Len(s0) + Len(w1)
        /\ Placed(s1, 0, s0) /\ Placed(s1, Len(s0), w1)
    BY <2>1, ConcatPlaced
  <2> QED
    BY <1>3, <1>w, <2>2
<1> HIDE DEF s1
<1>5. /\ s2 \in Seq(Nat) /\ Len(s2) = 6
      /\ Placed(s2, 0, s1) /\ Placed(s2, 4, w2)
  <2>1. w2 \in Seq(Nat) /\ s1 \in Seq(Nat)
    BY <1>w, <1>4
  <2>2. /\ s2 \in Seq(Nat) /\ Len(s2) = Len(s1) + Len(w2)
        /\ Placed(s2, 0, s1) /\ Placed(s2, Len(s1), w2)
    BY <2>1, ConcatPlaced
  <2> QED
    BY <1>4, <1>w, <2>2
<1> HIDE DEF s2
<1>6. /\ s3 \in Seq(Nat) /\ Len(s3) = 8
      /\ Placed(s3, 0, s2) /\ Placed(s3, 6, w3)
  <2>1. w3 \in Seq(Nat) /\ s2 \in Seq(Nat)
    BY <1>w, <1>5
  <2>2. /\ s3 \in Seq(Nat) /\ Len(s3) = Len(s2) + Len(w3)
        /\ Placed(s3, 0, s2) /\ Placed(s3, Len(s2), w3)
    BY <2>1, ConcatPlaced
  <2> QED
    BY <1>5, <1>w, <2>2
<1> HIDE DEF s3
<1>7. /\ s4 \in Seq(Nat) /\ Len(s4) = 10
      /\ Placed(s4, 0, s3) /\ Placed(s4, 8, w4)
  <2>1. w4 \in Seq(Nat) /\ s3 \in Seq(Nat)
    BY <1>w, <1>6
  <2>2. /\ s4 \in Seq(Nat) /\ Len(s4) = Len(s3) + Len(w4)
        /\ Placed(s4, 0, s3) /\ Placed(s4, Len(s3), w4)
    BY <2>1, ConcatPlaced
  <2> QED
    BY <1>6, <1>w, <2>2
<1> HIDE DEF s4
<1>8. /\ s5 \in Seq(Nat) /\ Len(s5) = 12
      /\ Placed(s5, 0, s4) /\ Placed(s5, 10, w4)
  <2>1. w4 \in Seq(Nat) /\ s4 \in Seq(Nat)
    BY <1>w, <1>7
  <2>2. /\ s5 \in Seq(Nat) /\ Len(s5) = Len(s4) + Len(w4)
        /\ Placed(s5, 0, s4) /\ Placed(s5, Len(s4), w4)
    BY <2>1, ConcatPlaced
  <2> QED
    BY <1>7, <1>w, <2>2
<1> HIDE DEF s5
<1>9. /\ s6 \in Seq(Nat) /\ Len(s6) = 12 + Len(question)
      /\ Placed(s6, 0, s5) /\ Placed(s6, 12, question)
  <2>2. s5 \in Seq(Nat)
    BY <1>8
  <2>1. /\ s6 \in Seq(Nat) /\ Len(s6) = Len(s5) + Len(question)
        /\ Placed(s6, 0, s5) /\ Placed(s6, Len(s5), question)
    BY <2>2, ConcatPlaced
  <2> QED
    BY <1>8, <2>1
<1> HIDE DEF s6
<1>10. /\ s7 \in Seq(Nat) /\ Len(s7) = 12 + Len(question) + Len(all)
       /\ Placed(s7, 0, s6) /\ Placed(s7, 12 + Len(question), all)
  <2>2. s6 \in Seq(Nat) /\ all \in Seq(Nat)
    BY <1>2, <1>9
  <2>1. /\ s7 \in Seq(Nat) /\ Len(s7) = Len(s6) + Len(all)
        /\ Placed(s7, 0, s6) /\ Placed(s7, Len(s6), all)
    BY <2>2, ConcatPlaced
  <2> QED
    BY <1>9, <2>1
<1> HIDE DEF s7
<1>11. ASSUME NEW s, NEW t, NEW k \in Nat, NEW u, Placed(s, 0, t), Placed(t, k, u)
      PROVE  Placed(s, k, u)
  <2>1. Placed(s, 0 + k, u)
    BY <1>11, PlacedWithin
  <2> QED
    BY <2>1
<1>12. Placed(s7, 0, s5) /\ Placed(s7, 12, question)
  BY <1>9, <1>10, <1>11
<1>13. Placed(s7, 0, s4)
  BY <1>8, <1>12, <1>11
<1>14. Placed(s7, 0, s3)
  BY <1>7, <1>13, <1>11
<1>15. Placed(s7, 0, s2) /\ Placed(s7, 6, w3)
  BY <1>6, <1>14, <1>11
<1>16. Placed(s7, 4, w2)
  BY <1>5, <1>15, <1>11
<1> QED
  BY <1>1, <1>2, <1>10, <1>12, <1>15, <1>16 DEF q, all, w2, w3

\* Where answer n + 1 of a packet lies.
LEMMA AnswerPlaced ==
    ASSUME NEW answers, IsAnswers(answers), NEW s, NEW k,
           Placed(s, k, Joined(AnswerPieces(answers), Len(answers))),
           Len(s) = k + Len(Joined(AnswerPieces(answers), Len(answers))),
           NEW n \in Nat, n < Len(answers)
    PROVE  /\ Placed(s, AnswerAt(s, answers, n), EncodeAnswer(answers[n + 1]))
           /\ AnswerAt(s, answers, n + 1)
                  = AnswerAt(s, answers, n) + Len(EncodeAnswer(answers[n + 1]))
<1> DEFINE f == AnswerPieces(answers)
           N == Len(answers)
<1>1. f \in [1..N -> Seq(Nat)] /\ N \in Nat /\ f[n + 1] = EncodeAnswer(answers[n + 1])
  <2>1. f \in [1..N -> Seq(Nat)] /\ N \in Nat
    BY PiecesTyped
  <2>2. n + 1 \in 1..N
    BY <2>1
  <2> QED
    BY <2>1, <2>2 DEF AnswerPieces
<1>2. /\ Placed(Joined(f, N), Len(Joined(f, n)), f[n + 1])
      /\ Len(Joined(f, n + 1)) = Len(Joined(f, n)) + Len(f[n + 1])
  BY <1>1, JoinedPiece
<1>3. Placed(s, k + Len(Joined(f, n)), f[n + 1])
  BY <1>2, PlacedWithin
<1>4. k \in Nat /\ Len(Joined(f, N)) \in Nat /\ Len(Joined(f, n)) \in Nat /\ Len(f[n + 1]) \in Nat
  BY <1>2, <1>3 DEF Placed
<1> HIDE DEF f, N
<1>5. AnswerAt(s, answers, n) = k + Len(Joined(f, n)) /\ AnswerAt(s, answers, n + 1) = k + Len(Joined(f, n + 1))
  BY <1>2, <1>4 DEF AnswerAt, f, N
<1> QED
  BY <1>1, <1>2, <1>3, <1>4, <1>5

\* What the reader of a name is left with after n labels.
Labels(name, n) == IF n = 0 THEN <<>> ELSE Tail(Joined(DotPieces(name), n))

\* What is behind the first element.
LEMMA TailBehind ==
    ASSUME NEW x \in Nat, NEW s \in Seq(Nat)
    PROVE  Tail(<<x>> \o s) = s
<1>1. <<x>> \in Seq(Nat) /\ Len(<<x>>) = 1
  BY OneElement
<1>2. /\ <<x>> \o s \in Seq(Nat) /\ Len(<<x>> \o s) = 1 + Len(s) /\ Len(s) \in Nat
      /\ \A i \in 1..(1 + Len(s)) : (<<x>> \o s)[i] = IF i <= 1 THEN <<x>>[i] ELSE s[i - 1]
  BY <1>1, ConcatProperties, LenProperties
<1> DEFINE t == <<x>> \o s
<1> HIDE DEF t
<1>3. t \in Seq(Nat) /\ Len(t) = 1 + Len(s) /\ Len(s) \in Nat /\ \A i \in 2..(1 + Len(s)) : t[i] = s[i - 1]
  BY <1>2 DEF t
<1>4. t # <<>>
  BY <1>3, EmptySeq
<1>5. Tail(t) \in Seq(Nat) /\ Len(Tail(t)) = Len(s) /\ \A i \in 1..Len(s) : Tail(t)[i] = s[i]
  BY <1>3, <1>4, HeadTailProperties
<1>6. Tail(t) = s
  BY <1>5, SeqEqual
<1> QED
  BY <1>6 DEF t

\* At the beginning of a name there is none.
LEMMA LabelsBegin == ASSUME NEW name PROVE Labels(name, 0) = <<>>
BY DEF Labels

\* What the reader has grows by a dot, unless it has nothing, and the label.
LEMMA LabelsTyped ==
    ASSUME NEW name, IsName(name), NEW n \in Nat, n < Len(name)
    PROVE  /\ Labels(name, n + 1) \in Seq(Nat) /\ Labels(name, n + 1) # <<>>
           /\ Joined(DotPieces(name), n + 1) = <<Dot>> \o Labels(name, n + 1)
           /\ Labels(name, n + 1) = (IF Labels(name, n) = <<>> THEN <<>>
                                     ELSE Append(Labels(name, n), Dot)) \o name[n + 1]
<1> DEFINE D == DotPieces(name)
           Holds(m) == /\ Labels(name, m + 1) \in Seq(Nat) /\ Labels(name, m + 1) # <<>>
                       /\ Joined(D, m + 1) = <<Dot>> \o Labels(name, m + 1)
                       /\ Labels(name, m + 1) = (IF Labels(name, m) = <<>> THEN <<>>
                                                 ELSE Append(Labels(name, m), Dot)) \o name[m + 1]
           T == {m \in Nat : m < Len(name) => Holds(m)}
<1>1. /\ Len(name) \in Nat
      /\ \A i \in 1..Len(name) : name[i] \in Seq(Nat) /\ Len(name[i]) \in 1..191 /\ name[i] # <<>>
      /\ D \in [1..Len(name) -> Seq(Nat)]
  <2>1. /\ Len(name) \in Nat /\ D \in [1..Len(name) -> Seq(Nat)]
        /\ \A i \in 1..Len(name) : name[i] \in Seq(Nat) /\ Len(name[i]) \in 1..191
    BY NameTyped, Zenon
  <2>2. ASSUME NEW i \in 1..Len(name) PROVE name[i] # <<>>
    <3>1. Len(name[i]) \in 1..191 /\ Len(<<>>) = 0
      BY <2>1, EmptySeq
    <3>2. 0 \notin 1..191
      OBVIOUS
    <3> QED
      BY ONLY <3>1, <3>2, Zenon
  <2> QED
    BY <2>1, <2>2
<1>d. Dot \in Nat
  BY DEF Dot
<1>z. 0 + 1 = 1
  OBVIOUS
<1>c. ASSUME NEW s \in Seq(Nat), NEW t \in Seq(Nat), NEW u \in Seq(Nat)
      PROVE  (s \o t) \o u = s \o (t \o u)
  BY ONLY s \in Seq(Nat), t \in Seq(Nat), u \in Seq(Nat), ConcatAssociative
<1> HIDE DEF Holds
<1>2. 0 \in T
  <2>1. SUFFICES ASSUME 0 < Len(name) PROVE Holds(0)
    OBVIOUS
  <2>2. name[1] \in Seq(Nat) /\ name[1] # <<>>
    BY <1>1, <2>1
  <2>3. Joined(D, 0 + 1) = <<Dot>> \o name[1]
    <3>1. D[1] = <<Dot>> \o name[1]
      BY <1>1, <2>1 DEF DotPieces
    <3>2. Joined(D, 0 + 1) = D[1]
      BY JoinedStep
    <3> QED
      BY <3>1, <3>2
  <2>4. Labels(name, 1) = name[1]
    <3>1. Labels(name, 1) = Tail(Joined(D, 1))
      BY DEF Labels
    <3>2. Tail(<<Dot>> \o name[1]) = name[1]
      BY <1>d, <2>2, TailBehind
    <3>3. Joined(D, 1) = <<Dot>> \o name[1]
      BY <2>3, <1>z
    <3> HIDE DEF D
    <3> QED
      BY <3>1, <3>2, <3>3 DEF D
  <2>5. <<>> \o name[1] = name[1]
    BY <2>2, ConcatEmptySeq
  <2> HIDE DEF D
  <2> QED
    BY <2>2, <2>3, <2>4, <2>5, <1>z, LabelsBegin DEF Holds
<1>3. ASSUME NEW m \in T PROVE m + 1 \in T
  <2>1. m \in Nat
    OBVIOUS
  <2>2. SUFFICES ASSUME m + 1 < Len(name) PROVE Holds(m + 1)
    BY <2>1
  <2>3. Holds(m)
    BY <1>1, <2>1, <2>2
  <2> DEFINE L == Labels(name, m + 1)
             label == name[m + 2]
  <2>4. L \in Seq(Nat) /\ L # <<>> /\ Joined(D, m + 1) = <<Dot>> \o L
    BY <2>3 DEF Holds
  <2>5. m + 2 \in 1..Len(name)
    BY <1>1, <2>1, <2>2
  <2>6. label \in Seq(Nat) /\ label # <<>>
    BY <1>1, <2>5
  <2>7. D[m + 2] = <<Dot>> \o label
    BY <2>5 DEF DotPieces
  <2>8. Joined(D, m + 2) = Joined(D, m + 1) \o D[m + 2]
    <3>1. m + 1 \in Nat /\ m + 1 # 0
      BY <2>1
    <3>2. Joined(D, (m + 1) + 1) = Joined(D, m + 1) \o D[(m + 1) + 1]
      BY <3>1, JoinedStep
    <3>3. (m + 1) + 1 = m + 2
      BY <2>1
    <3> QED
      BY <3>2, <3>3
  <2> HIDE DEF D, L, label, Holds
  <2>9. /\ <<Dot>> \in Seq(Nat)
        /\ Append(L, Dot) \in Seq(Nat) /\ Append(L, Dot) = L \o <<Dot>>
    BY <1>d, <2>4, OneElement, AppendProperties, AppendIsConcat
  <2>10. Joined(D, m + 2) = <<Dot>> \o (Append(L, Dot) \o label)
    <3>1. (<<Dot>> \o L) \o (<<Dot>> \o label) = <<Dot>> \o (L \o (<<Dot>> \o label))
      <4>1. <<Dot>> \o label \in Seq(Nat)
        BY <2>6, <2>9, ConcatProperties
      <4> QED
        BY ONLY <2>4, <2>9, <4>1, <1>c
    <3>2. L \o (<<Dot>> \o label) = (L \o <<Dot>>) \o label
      BY ONLY <2>4, <2>6, <2>9, <1>c
    <3> QED
      BY <2>4, <2>7, <2>8, <2>9, <3>1, <3>2
  <2>11. Append(L, Dot) \o label \in Seq(Nat) /\ Append(L, Dot) \o label # <<>>
    <3>1. Append(L, Dot) \o label \in Seq(Nat)
      BY <2>6, <2>9, ConcatProperties
    <3>2. Append(L, Dot) \o label # <<>>
      BY <2>6, <2>9, ConcatEqualIffEmpty
    <3> QED
      BY <3>1, <3>2
  <2>12. Labels(name, m + 2) = Append(L, Dot) \o label
    <3>1. Labels(name, m + 2) = Tail(Joined(D, m + 2))
      BY <2>1 DEF Labels, D
    <3>2. Tail(<<Dot>> \o (Append(L, Dot) \o label)) = Append(L, Dot) \o label
      BY <1>d, <2>11, TailBehind
    <3> QED
      BY <2>10, <3>1, <3>2
  <2>13. (m + 1) + 1 = m + 2
    BY <2>1
  <2> QED
    BY <2>4, <2>10, <2>11, <2>12, <2>13 DEF Holds, L, label
<1>4. T = Nat
  <2> HIDE DEF T
  <2>1. T \in SUBSET Nat
    BY DEF T
  <2> QED
    BY <1>2, <1>3, <2>1, Induction
<1>5. n \in T
  BY <1>4
<1> QED
  BY <1>5 DEF Holds

\* With all labels it is the dotted name.
LEMMA LabelsEnd ==
    ASSUME NEW name, IsName(name)
    PROVE  Labels(name, Len(name)) = Dotted(name)
<1>1. CASE name = <<>>
  BY <1>1 DEF Labels, Dotted
<1>2. CASE name # <<>>
  <2>1. Len(name) # 0
    BY <1>2, EmptySeq DEF IsName
  <2>2. Joined(DotPieces(name), Len(name)) = FlattenSeq([i \in 1..Len(name) |-> <<Dot>> \o name[i]])
    <3>1. [i \in 1..Len(name) |-> DotPieces(name)[i]] = [i \in 1..Len(name) |-> <<Dot>> \o name[i]]
      BY DEF DotPieces
    <3> QED
      BY <3>1 DEF Joined
  <2> QED
    BY <1>2, <2>1, <2>2 DEF Labels, Dotted
<1> QED
  BY <1>1, <1>2

------------------------------------------------------------------------------
(* The records this program sends                                             *)

\* encode_txt writes the length and the text.
LEMMA TxtEncoded ==
    ASSUME NEW data \in Seq(Nat), Len(data) < 255
    PROVE  EncodeTxt(data) \in Seq(Nat) /\ Len(EncodeTxt(data)) = 1 + Len(data)
<1>1. Len(data) \in Nat
  BY LenProperties
<1>2. EncodeTxt(data) = <<Len(data)>> \o SubSeq(data, 1, Len(data))
  BY <1>1 DEF EncodeTxt
<1>3. SubSeq(data, 1, Len(data)) = data
  BY SubSeqFull
<1>4. <<Len(data)>> \in Seq(Nat) /\ Len(<<Len(data)>>) = 1
  BY <1>1, OneElement
<1> QED
  BY <1>2, <1>3, <1>4, ConcatPlaced

\* Where the entry written by hand lies, and the byte behind it.
LEMMA TxtLaid ==
    ASSUME NEW kind \in Seq(Nat), NEW version \in Seq(Nat), Len(kind) + Len(version) <= 33
    PROVE  LET t == TxtRecord(kind, version)
           IN  /\ t \in Seq(Nat) /\ Len(t) \in Nat /\ 10 <= Len(t) /\ Len(t) <= 58
               /\ Placed(t, 0, <<8>>) /\ Placed(t, 1, Txtvers) /\ Placed(t, 8, <<Equals, 49>>)
<1> DEFINE k == TypeKey \o <<Equals>> \o kind
           v == VersionKey \o <<Equals>> \o version
           a == <<8>>
           e == <<Equals, 49>>
           s1 == a \o Txtvers
           s2 == s1 \o e
           s3 == s2 \o EncodeTxt(k)
           s4 == s3 \o EncodeTxt(v)
<1>1. /\ a \in Seq(Nat) /\ Len(a) = 1 /\ e \in Seq(Nat) /\ Len(e) = 2
      /\ Txtvers \in Seq(Nat) /\ Len(Txtvers) = 7
      /\ TypeKey \in Seq(Nat) /\ Len(TypeKey) = 4
      /\ VersionKey \in Seq(Nat) /\ Len(VersionKey) = 7
      /\ <<Equals>> \in Seq(Nat) /\ Len(<<Equals>>) = 1
  BY DEF Txtvers, TypeKey, VersionKey, Equals
<1>2. Len(kind) \in Nat /\ Len(version) \in Nat /\ Len(kind) + Len(version) <= 33
  BY LenProperties
<1>3. k \in Seq(Nat) /\ Len(k) = 5 + Len(kind)
  <2>1. /\ TypeKey \o <<Equals>> \in Seq(Nat)
        /\ Len(TypeKey \o <<Equals>>) = Len(TypeKey) + Len(<<Equals>>)
    BY <1>1, ConcatPlaced
  <2>2. k \in Seq(Nat) /\ Len(k) = Len(TypeKey \o <<Equals>>) + Len(kind)
    BY <1>2, <2>1, ConcatPlaced
  <2> QED
    BY <1>1, <1>2, <2>1, <2>2
<1>4. v \in Seq(Nat) /\ Len(v) = 8 + Len(version)
  <2>1. /\ VersionKey \o <<Equals>> \in Seq(Nat)
        /\ Len(VersionKey \o <<Equals>>) = Len(VersionKey) + Len(<<Equals>>)
    BY <1>1, ConcatPlaced
  <2>2. v \in Seq(Nat) /\ Len(v) = Len(VersionKey \o <<Equals>>) + Len(version)
    BY <1>2, <2>1, ConcatPlaced
  <2> QED
    BY <1>1, <1>2, <2>1, <2>2
<1>5. TxtRecord(kind, version) = s4
  BY DEF TxtRecord
<1> HIDE DEF k, v, a, e
<1>6. /\ EncodeTxt(k) \in Seq(Nat) /\ Len(EncodeTxt(k)) = 6 + Len(kind)
      /\ EncodeTxt(v) \in Seq(Nat) /\ Len(EncodeTxt(v)) = 9 + Len(version)
  <2>1. Len(k) < 255 /\ Len(v) < 255
    BY <1>2, <1>3, <1>4
  <2>2. /\ EncodeTxt(k) \in Seq(Nat) /\ Len(EncodeTxt(k)) = 1 + Len(k)
        /\ EncodeTxt(v) \in Seq(Nat) /\ Len(EncodeTxt(v)) = 1 + Len(v)
    BY <1>3, <1>4, <2>1, TxtEncoded
  <2> QED
    BY <1>2, <1>3, <1>4, <2>2
<1>7. s1 \in Seq(Nat) /\ Len(s1) = 8 /\ Placed(s1, 0, a) /\ Placed(s1, 1, Txtvers)
  <2>1. s1 \in Seq(Nat) /\ Len(s1) = Len(a) + Len(Txtvers)
        /\ Placed(s1, 0, a) /\ Placed(s1, Len(a), Txtvers)
    BY <1>1, ConcatPlaced
  <2> HIDE DEF s1
  <2> QED
    BY <1>1, <2>1
<1> HIDE DEF s1
<1>8. s2 \in Seq(Nat) /\ Len(s2) = 10 /\ Placed(s2, 0, s1) /\ Placed(s2, 8, e)
  <2>1. s2 \in Seq(Nat) /\ Len(s2) = Len(s1) + Len(e)
        /\ Placed(s2, 0, s1) /\ Placed(s2, Len(s1), e)
    BY <1>1, <1>7, ConcatPlaced
  <2> HIDE DEF s2
  <2> QED
    BY <1>1, <1>7, <2>1
<1> HIDE DEF s2
<1>9. s3 \in Seq(Nat) /\ Len(s3) = 16 + Len(kind) /\ Placed(s3, 0, s2)
  <2>1. s3 \in Seq(Nat) /\ Len(s3) = Len(s2) + Len(EncodeTxt(k)) /\ Placed(s3, 0, s2)
    BY <1>6, <1>8, ConcatPlaced
  <2> QED
    BY <1>2, <1>6, <1>8, <2>1
<1> HIDE DEF s3
<1>10. s4 \in Seq(Nat) /\ Len(s4) = 25 + Len(kind) + Len(version) /\ Placed(s4, 0, s3)
  <2>1. s4 \in Seq(Nat) /\ Len(s4) = Len(s3) + Len(EncodeTxt(v)) /\ Placed(s4, 0, s3)
    BY <1>6, <1>9, ConcatPlaced
  <2> QED
    BY <1>2, <1>6, <1>9, <2>1
<1> HIDE DEF s4
<1>11. ASSUME NEW s, NEW t, NEW n \in Nat, NEW u, Placed(s, 0, t), Placed(t, n, u)
       PROVE  Placed(s, n, u)
  <2>1. Placed(s, 0 + n, u)
    BY <1>11, PlacedWithin
  <2> QED
    BY <2>1
<1>12. Placed(s4, 0, s2)
  BY <1>9, <1>10, <1>11
<1>13. Placed(s4, 0, s1) /\ Placed(s4, 8, e)
  BY <1>8, <1>12, <1>11
<1>14. Placed(s4, 0, a) /\ Placed(s4, 1, Txtvers)
  BY <1>7, <1>13, <1>11
<1>15. Len(s4) \in Nat /\ 10 <= Len(s4) /\ Len(s4) <= 58
  BY <1>2, <1>10
<1> QED
  BY <1>5, <1>10, <1>13, <1>14, <1>15 DEF a, e

\* What DeviceConstants says, part by part.
LEMMA DeviceParts ==
    /\ IsName(Device.host) /\ IsName(Device.instance) /\ IsName(Device.service)
    /\ Len(EncodeName(Device.instance)) \in Words /\ 6 + Len(EncodeName(Device.host)) \in Words
    /\ Device.kind \in Seq(Nat) /\ Device.version \in Seq(Nat)
    /\ Len(Device.kind) + Len(Device.version) <= 33
    /\ Device.port \in Words
    /\ Device.addrs \in Seq([1..4 -> Byte]) /\ 3 + Len(Device.addrs) \in Words
<1>1. Device.kind \in Seq(Ascii) /\ Device.version \in Seq(Ascii)
  BY DeviceConstants, Zenon
<1>2. Ascii \in SUBSET Nat
  BY DEF Ascii
<1>3. Device.kind \in Seq(Nat) /\ Device.version \in Seq(Nat)
  BY <1>1, <1>2, NatSeq
<1> QED
  BY <1>3, DeviceConstants, Zenon

\* A record this program sends.
IsRecord(r) ==
    /\ IsAnswer(r)
    /\ r.rtype = TypePTR => r.rdata = EncodeName(Device.instance)
    /\ r.rtype = TypeTXT => r.rdata = TxtRecord(Device.kind, Device.version)
    /\ r.rtype = TypeA => Len(r.rdata) = 4
IsRecords(answers) ==
    /\ answers \in Seq(Range(answers)) /\ Len(answers) \in Words
    /\ \A i \in 1..Len(answers) : IsRecord(answers[i])

\* Numbers the records are made of.
LEMMA SmallWords == /\ 0 \in Words /\ 1 \in Words /\ 32769 \in Words /\ Normal \in Words
                    /\ TypeA \in Words /\ TypePTR \in Words /\ TypeTXT \in Words /\ TypeSRV \in Words
BY SMT DEF Words, Normal, TypeA, TypePTR, TypeTXT, TypeSRV

\* An answer whose data are as its type wants them is a record.
LEMMA RecordOf ==
    ASSUME NEW name, IsName(name), NEW rtype \in Words, NEW class \in Words, NEW ttl \in Words,
           NEW rdata \in Seq(Nat), Len(rdata) \in Words,
           rtype = TypePTR => rdata = EncodeName(Device.instance),
           rtype = TypeTXT => rdata = TxtRecord(Device.kind, Device.version),
           rtype = TypeA => Len(rdata) = 4
    PROVE  IsRecord(Answer(name, rtype, class, ttl, rdata))
<1> DEFINE r == Answer(name, rtype, class, ttl, rdata)
<1>1. r.name = name /\ r.rtype = rtype /\ r.class = class /\ r.ttl = ttl /\ r.rdata = rdata
  BY DEF Answer
<1> HIDE DEF r
<1>2. IsAnswer(r)
  BY <1>1, Zenon DEF IsAnswer
<1>3. IsRecord(r)
  BY <1>1, <1>2, Zenon DEF IsRecord
<1> QED
  BY <1>3 DEF r

\* The PTR, SRV and TXT answers are records.
LEMMA ServiceRecords ==
    ASSUME NEW ttl \in Words
    PROVE  IsRecord(PtrAnswer(Device, ttl)) /\ IsRecord(SrvAnswer(Device, ttl))
           /\ IsRecord(TxtAnswer(Device, ttl))
<1>n. IsName(Device.host) /\ IsName(Device.instance) /\ IsName(Device.service)
  BY DeviceParts, Zenon
<1>t. /\ TypePTR # TypeA /\ TypePTR # TypeTXT /\ TypeSRV # TypePTR /\ TypeSRV # TypeA
      /\ TypeSRV # TypeTXT /\ TypeTXT # TypeA
  BY DEF TypePTR, TypeA, TypeTXT, TypeSRV
<1>w. 1 \in Words /\ TypePTR \in Words /\ TypeSRV \in Words /\ TypeTXT \in Words
  BY SmallWords, SMT
<1>1. IsRecord(PtrAnswer(Device, ttl))
  <2> DEFINE data == EncodeName(Device.instance)
  <2>1. data \in Seq(Nat) /\ Len(data) \in Words
    <3>1. data \in Seq(Nat)
      BY <1>n, NameEncoded
    <3>2. Len(data) \in Words
      BY DeviceParts, Zenon
    <3> QED
      BY <3>1, <3>2
  <2>2. data = EncodeName(Device.instance)
    OBVIOUS
  <2> HIDE DEF data
  <2>3. IsRecord(Answer(Device.service, TypePTR, 1, ttl, data))
    BY <2>1, <2>2, <1>n, <1>t, <1>w, RecordOf, Zenon
  <2> QED
    BY <2>2, <2>3 DEF PtrAnswer
<1>2. IsRecord(SrvAnswer(Device, ttl))
  <2> DEFINE data == U16(0) \o U16(0) \o U16(Device.port) \o EncodeName(Device.host)
             host == EncodeName(Device.host)
             port == U16(Device.port)
             zero == U16(0)
  <2>1. /\ zero \in Seq(Nat) /\ Len(zero) = 2 /\ port \in Seq(Nat) /\ Len(port) = 2
        /\ host \in Seq(Nat) /\ Len(host) \in Nat /\ 6 + Len(host) \in Words
    <3>0. 0 \in Words
      BY SmallWords, SMT
    <3>1. 0 \in Words /\ Device.port \in Words /\ 6 + Len(host) \in Words
      BY <3>0, DeviceParts, Zenon
    <3>2. host \in Seq(Nat)
      BY <1>n, NameEncoded
    <3>3. Len(host) \in Nat
      BY <3>2, LenProperties
    <3>4. zero \in Seq(Nat) /\ Len(zero) = 2 /\ port \in Seq(Nat) /\ Len(port) = 2
      BY <3>1, U16Typed
    <3> QED
      BY ONLY <3>1, <3>2, <3>3, <3>4
  <2>d. data = ((zero \o zero) \o port) \o host
    OBVIOUS
  <2> HIDE DEF zero, port, host, data
  <2>2. zero \o zero \in Seq(Nat) /\ Len(zero \o zero) = 4
    <3>1. zero \o zero \in Seq(Nat) /\ Len(zero \o zero) = Len(zero) + Len(zero)
      BY <2>1, ConcatPlaced
    <3> QED
      BY <2>1, <3>1, SMT
  <2>3. (zero \o zero) \o port \in Seq(Nat) /\ Len((zero \o zero) \o port) = 6
    <3>1. /\ (zero \o zero) \o port \in Seq(Nat)
          /\ Len((zero \o zero) \o port) = Len(zero \o zero) + Len(port)
      BY <2>1, <2>2, ConcatPlaced
    <3> QED
      BY <2>1, <2>2, <3>1, SMT
  <2>4. data \in Seq(Nat) /\ Len(data) \in Words
    <3>1. ((zero \o zero) \o port) \o host \in Seq(Nat)
          /\ Len(((zero \o zero) \o port) \o host) = Len((zero \o zero) \o port) + Len(host)
      BY <2>1, <2>3, ConcatPlaced
    <3> QED
      BY <2>1, <2>3, <3>1, <2>d, SMT
  <2>5. IsRecord(Answer(Device.instance, TypeSRV, 1, ttl, data))
    BY <2>4, <1>n, <1>t, <1>w, RecordOf, Zenon
  <2> QED
    BY <2>5 DEF SrvAnswer, data
<1>3. IsRecord(TxtAnswer(Device, ttl))
  <2> DEFINE data == TxtRecord(Device.kind, Device.version)
  <2>1. data \in Seq(Nat) /\ Len(data) \in Nat /\ Len(data) <= 58
    <3>1. Device.kind \in Seq(Nat) /\ Device.version \in Seq(Nat)
          /\ Len(Device.kind) + Len(Device.version) <= 33
      BY DeviceParts, Zenon
    <3> DEFINE kind == Device.kind
               version == Device.version
    <3>2. kind \in Seq(Nat) /\ version \in Seq(Nat) /\ Len(kind) + Len(version) <= 33
      BY <3>1
    <3> HIDE DEF kind, version
    <3>3. TxtRecord(kind, version) \in Seq(Nat) /\ Len(TxtRecord(kind, version)) \in Nat
          /\ Len(TxtRecord(kind, version)) <= 58
      BY <3>2, TxtLaid
    <3> QED
      BY <3>3 DEF kind, version
  <2>2. data = TxtRecord(Device.kind, Device.version)
    OBVIOUS
  <2> HIDE DEF data
  <2>3. Len(data) \in Words
    BY <2>1, SMT DEF Words
  <2>4. IsRecord(Answer(Device.instance, TypeTXT, 1, ttl, data))
    BY <2>1, <2>2, <2>3, <1>n, <1>t, <1>w, RecordOf, Zenon
  <2> QED
    BY <2>2, <2>4 DEF TxtAnswer
<1> QED
  BY <1>1, <1>2, <1>3

\* So are those of the addresses.
LEMMA HostRecords ==
    ASSUME NEW ttl \in Words
    PROVE  /\ HostAnswers(Device, ttl) \in Seq(Range(HostAnswers(Device, ttl)))
           /\ Len(HostAnswers(Device, ttl)) \in Nat
           /\ 3 + Len(HostAnswers(Device, ttl)) \in Words
           /\ \A i \in 1..Len(HostAnswers(Device, ttl)) : IsRecord(HostAnswers(Device, ttl)[i])
<1> DEFINE n == Len(Device.addrs)
           h == HostAnswers(Device, ttl)
<1>0. Device.addrs \in Seq([1..4 -> Byte]) /\ 3 + n \in Words
  BY DeviceParts, Zenon
<1>1. n \in Nat /\ 3 + n \in Words
  BY <1>0, LenProperties
<1>2. h = [i \in 1..n |-> Answer(Device.host, TypeA, 32769, ttl, Device.addrs[i])]
  BY DEF HostAnswers
<1>h. IsName(Device.host) /\ TypeA # TypePTR /\ TypeA # TypeTXT
  <2>1. IsName(Device.host)
    BY DeviceParts, Zenon
  <2> QED
    BY <2>1 DEF TypeA, TypePTR, TypeTXT
<1>3. ASSUME NEW i \in 1..n PROVE IsRecord(h[i])
  <2> DEFINE data == Device.addrs[i]
  <2>1. data \in [1..4 -> Byte]
    BY <1>0, ElementOfSeq
  <2>3. h[i] = Answer(Device.host, TypeA, 32769, ttl, data)
    BY <1>2
  <2> HIDE DEF data, h, n
  <2>2. data \in Seq(Nat) /\ Len(data) = 4
    <3>1. Byte \subseteq Nat
      BY DEF Byte
    <3>2. data \in [1..4 -> Nat]
      BY <2>1, <3>1
    <3>3. DOMAIN data = 1..4 /\ 4 \in Nat
      BY <3>2
    <3>4. data \in Seq(Nat)
      BY <3>2, <3>3, SeqDef
    <3>5. Len(data) \in Nat /\ DOMAIN data = 1..Len(data)
      BY <3>4, LenProperties
    <3> QED
      BY <3>3, <3>4, <3>5
  <2>4. Len(data) \in Words
    BY <2>2, SMT DEF Words
  <2>5. IsRecord(Answer(Device.host, TypeA, 32769, ttl, data))
    <3> DEFINE class == 32769
    <3>1. TypeA \in Words /\ class \in Words
      BY SmallWords, SMT
    <3> HIDE DEF class
    <3>2. IsRecord(Answer(Device.host, TypeA, class, ttl, data))
      BY <2>2, <2>4, <1>h, <3>1, RecordOf, Zenon
    <3> QED
      BY <3>2, SMT DEF class
  <2> QED
    BY <2>3, <2>5, SMT
<1>4. h \in Seq(Range(h)) /\ Len(h) = n
  <2>1. DOMAIN h = 1..n /\ \A i \in 1..n : h[i] \in Range(h)
    BY <1>2 DEF Range
  <2>2. h = [i \in 1..n |-> h[i]]
    BY <1>2
  <2>3. h \in [1..n -> Range(h)]
    <3> HIDE DEF h, n
    <3> QED
      BY <2>1, <2>2
  <2> HIDE DEF h, n
  <2> QED
    BY <1>1, <2>3
<1> HIDE DEF h, n
<1> QED
  BY <1>1, <1>3, <1>4 DEF h

------------------------------------------------------------------------------
(* What is read of records                                                    *)

\* What is read of each is read of one more.
LEMMA AppendMap ==
    ASSUME NEW n \in Nat, NEW f
    PROVE  [i \in 1..(n + 1) |-> f[i]] = Append([i \in 1..n |-> f[i]], f[n + 1])
<1> DEFINE S == {f[i] : i \in 1..(n + 1)}
           s == [i \in 1..n |-> f[i]]
           t == [i \in 1..(n + 1) |-> f[i]]
<1>1. s \in Seq(S) /\ Len(s) = n /\ t \in Seq(S) /\ Len(t) = n + 1 /\ f[n + 1] \in S
  <2>1. s \in [1..n -> S] /\ t \in [1..(n + 1) -> S] /\ n + 1 \in Nat /\ f[n + 1] \in S
    OBVIOUS
  <2> HIDE DEF S
  <2> QED
    BY <2>1
<1>2. /\ \A i \in 1..n : s[i] = f[i]
      /\ \A i \in 1..(n + 1) : t[i] = f[i]
  OBVIOUS
<1> HIDE DEF S, s, t
<1>3. /\ Append(s, f[n + 1]) \in Seq(S) /\ Len(Append(s, f[n + 1])) = n + 1
      /\ \A i \in 1..n : Append(s, f[n + 1])[i] = s[i]
      /\ Append(s, f[n + 1])[n + 1] = f[n + 1]
  BY <1>1, AppendProperties
<1>4. \A i \in 1..(n + 1) : t[i] = Append(s, f[n + 1])[i]
  <2>1. \A i \in 1..(n + 1) : i \in 1..n \/ i = n + 1
    OBVIOUS
  <2> QED
    BY <1>2, <1>3, <2>1
<1>5. t = Append(s, f[n + 1])
  BY <1>1, <1>3, <1>4, SeqEqual
<1> QED
  BY <1>5 DEF s, t

Pick(answers, rtype) ==
    [i \in 1..Len(answers) |-> IF answers[i].rtype = rtype THEN <<answers[i]>> ELSE <<>>]

\* What follows from IsRecords of the records and of the first of them.
LEMMA RecordsTyped ==
    ASSUME NEW answers, IsRecords(answers)
    PROVE  /\ Len(answers) \in Nat /\ Len(answers) \in Words /\ IsAnswers(answers)
           /\ \A i \in 1..Len(answers) : answers[i] \in Range(answers) /\ IsRecord(answers[i])
           /\ \A k \in Nat : k <= Len(answers) =>
                 /\ Len(SubSeq(answers, 1, k)) = k
                 /\ \A i \in 1..k : SubSeq(answers, 1, k)[i] = answers[i]
<1>1. answers \in Seq(Range(answers)) /\ Len(answers) \in Words
  BY DEF IsRecords
<1>2. Len(answers) \in Nat
  BY <1>1, LenProperties
<1>3. \A i \in 1..Len(answers) : answers[i] \in Range(answers) /\ IsRecord(answers[i])
  BY <1>1, ElementOfSeq DEF IsRecords
<1>4. IsAnswers(answers)
  BY <1>1, <1>3 DEF IsAnswers, IsRecord
<1>5. ASSUME NEW k \in Nat, k <= Len(answers)
      PROVE  /\ Len(SubSeq(answers, 1, k)) = k
             /\ \A i \in 1..k : SubSeq(answers, 1, k)[i] = answers[i]
  <2>1. 1 \in Int /\ k \in Int /\ \A i \in 1..k : answers[i] \in Range(answers)
    BY <1>2, <1>3, <1>5
  <2>2. /\ Len(SubSeq(answers, 1, k)) = IF 1 <= k THEN k - 1 + 1 ELSE 0
        /\ \A i \in 1..(k - 1 + 1) : SubSeq(answers, 1, k)[i] = answers[1 + i - 1]
    BY ONLY <2>1, SubSeqProperties
  <2>3. \A i \in 1..k : 1 + i - 1 = i /\ i \in 1..(k - 1 + 1)
    OBVIOUS
  <2> QED
    BY <2>2, <2>3
<1> QED
  BY <1>1, <1>2, <1>3, <1>4, <1>5

\* The answers of a type among the first k.
LEMMA OfTypeUpto ==
    ASSUME NEW answers, IsRecords(answers), NEW rtype, NEW k \in Nat, k <= Len(answers)
    PROVE  OfType(SubSeq(answers, 1, k), rtype) = Joined(Pick(answers, rtype), k)
<1> DEFINE s == SubSeq(answers, 1, k)
           f == [i \in 1..Len(s) |-> IF s[i].rtype = rtype THEN <<s[i]>> ELSE <<>>]
           g == [i \in 1..k |-> Pick(answers, rtype)[i]]
<1>1. Len(s) = k /\ \A i \in 1..k : s[i] = answers[i]
  BY RecordsTyped
<1>2. Len(answers) \in Nat
  BY RecordsTyped
<1>3. f = g
  <2> HIDE DEF s
  <2>1. \A i \in 1..k : Pick(answers, rtype)[i]
                           = IF answers[i].rtype = rtype THEN <<answers[i]>> ELSE <<>>
    BY <1>2 DEF Pick
  <2> QED
    BY <1>1, <2>1
<1>4. OfType(s, rtype) = FlattenSeq(f) /\ Joined(Pick(answers, rtype), k) = FlattenSeq(g)
  BY DEF OfType, Joined
<1> HIDE DEF f, g
<1> QED
  BY <1>3, <1>4

\* One more answer adds one, if it is of the type.
LEMMA OfTypeStep ==
    ASSUME NEW answers, IsRecords(answers), NEW rtype, NEW k \in Nat, k < Len(answers)
    PROVE  LET old == OfType(SubSeq(answers, 1, k), rtype)
               new == OfType(SubSeq(answers, 1, k + 1), rtype)
               a == answers[k + 1]
           IN  /\ old \in Seq(Range(answers)) /\ a \in Range(answers)
               /\ new = IF a.rtype = rtype THEN Append(old, a) ELSE old
<1> DEFINE old == OfType(SubSeq(answers, 1, k), rtype)
           new == OfType(SubSeq(answers, 1, k + 1), rtype)
           a == answers[k + 1]
           f == Pick(answers, rtype)
           N == Len(answers)
           S == Range(answers)
<1>1. N \in Nat /\ k <= N /\ k + 1 \in Nat /\ k + 1 <= N /\ k + 1 \in 1..N
  BY RecordsTyped
<1>2. old = Joined(f, k) /\ new = Joined(f, k + 1)
  BY <1>1, OfTypeUpto
<1>3. \A i \in 1..N : answers[i] \in S
  BY RecordsTyped
<1>4. f \in [1..N -> Seq(S)]
  <2>1. \A i \in 1..N : <<answers[i]>> \in Seq(S)
    BY <1>3
  <2>2. <<>> \in Seq(S)
    BY EmptySeq
  <2> HIDE DEF S
  <2> QED
    BY <2>1, <2>2 DEF Pick
<1>5. a \in S /\ f[k + 1] = IF a.rtype = rtype THEN <<a>> ELSE <<>>
  BY <1>1, <1>3 DEF Pick
<1> HIDE DEF f, a, old, new, S, N
<1>6. new = old \o f[k + 1] /\ old \in Seq(S)
  <2>1. k < N
    BY <1>1
  <2> QED
    BY <1>1, <1>2, <1>4, <2>1, JoinedGrows
<1>7. Append(old, a) = old \o <<a>> /\ old \o <<>> = old
  BY <1>5, <1>6, AppendIsConcat, ConcatEmptySeq
<1>8. new = IF a.rtype = rtype THEN Append(old, a) ELSE old
  BY <1>5, <1>6, <1>7, Zenon
<1> QED
  BY <1>5, <1>6, <1>8 DEF old, new, a, S

\* What is read of the first k answers.
Read(answers, k) == Result(SubSeq(answers, 1, k))

Owners(answers, k) == [i \in 1..k |-> Dotted(answers[i].name)]
Instances(n) == [i \in 1..n |-> Dotted(Device.instance)]
Ips(as) == [i \in 1..Len(as) |-> as[i].rdata]
TxtRead(texts) == [k \in texts |-> <<>>]
Goodbye(answers, k) == \E i \in 1..k : answers[i].ttl = 0
Found(answers, k, rtype) == OfType(SubSeq(answers, 1, k), rtype)

\* What is read of the first k answers, part by part.
LEMMA ReadParts ==
    ASSUME NEW answers, IsRecords(answers), NEW k \in Nat, k <= Len(answers)
    PROVE  Read(answers, k) =
              [owners |-> Owners(answers, k),
               instances |-> Instances(Len(Found(answers, k, TypePTR))),
               ips |-> Ips(Found(answers, k, TypeA)),
               txt |-> TxtRead(IF Found(answers, k, TypeTXT) = <<>> THEN {} ELSE {Txtvers}),
               goodbye |-> Goodbye(answers, k)]
<1> DEFINE s == SubSeq(answers, 1, k)
<1>1. Len(s) = k /\ \A i \in 1..k : s[i] = answers[i]
  BY RecordsTyped
<1> HIDE DEF s
<1>2. [i \in 1..Len(s) |-> Dotted(s[i].name)] = Owners(answers, k)
  BY <1>1 DEF Owners
<1>3. (\E i \in 1..Len(s) : s[i].ttl = 0) = Goodbye(answers, k)
  BY <1>1 DEF Goodbye
<1>4. Result(s) =
         [owners |-> [i \in 1..Len(s) |-> Dotted(s[i].name)],
          instances |-> Instances(Len(OfType(s, TypePTR))),
          ips |-> Ips(OfType(s, TypeA)),
          txt |-> TxtRead(IF OfType(s, TypeTXT) = <<>> THEN {} ELSE {Txtvers}),
          goodbye |-> \E i \in 1..Len(s) : s[i].ttl = 0]
  BY DEF Result, Instances, Ips, TxtRead
<1> QED
  BY <1>2, <1>3, <1>4 DEF Read, Found, s

\* All answers are the first Len(answers).
LEMMA ReadAll ==
    ASSUME NEW answers, IsRecords(answers)
    PROVE  Read(answers, Len(answers)) = Result(answers)
<1>1. SubSeq(answers, 1, Len(answers)) = answers
  BY SubSeqFull DEF IsRecords
<1> QED
  BY <1>1 DEF Read

\* Of no answers nothing is read.
LEMMA ReadBegin ==
    ASSUME NEW answers, IsRecords(answers)
    PROVE  Read(answers, 0) = Nothing
<1>1. 0 \in Nat /\ 0 <= Len(answers)
  BY RecordsTyped
<1>2. \A rtype : Found(answers, 0, rtype) = <<>>
  BY <1>1, OfTypeUpto, JoinedZero DEF Found
<1>3. Owners(answers, 0) = <<>> /\ Goodbye(answers, 0) = FALSE
  BY DEF Owners, Goodbye
<1>4. Len(<<>>) = 0
  OBVIOUS
<1>5. Instances(0) = <<>> /\ Ips(<<>>) = <<>> /\ TxtRead({}) = [k \in {} |-> <<>>]
  BY <1>4 DEF Instances, Ips, TxtRead
<1> QED
  BY <1>1, <1>2, <1>3, <1>4, <1>5, ReadParts DEF Nothing

\* What one more answer adds.
LEMMA ReadStep ==
    ASSUME NEW answers, IsRecords(answers), NEW k \in Nat, k < Len(answers)
    PROVE  LET old == Read(answers, k)
               a == answers[k + 1]
           IN  Read(answers, k + 1) =
                  [owners |-> Append(old.owners, Dotted(a.name)),
                   instances |-> IF a.rtype = TypePTR
                                 THEN Append(old.instances, Dotted(Device.instance))
                                 ELSE old.instances,
                   ips |-> IF a.rtype = TypeA THEN Append(old.ips, a.rdata) ELSE old.ips,
                   txt |-> IF a.rtype = TypeTXT THEN TxtRead({Txtvers}) ELSE old.txt,
                   goodbye |-> old.goodbye \/ a.ttl = 0]
<1> DEFINE old == Read(answers, k)
           a == answers[k + 1]
           F(rtype) == Found(answers, k, rtype)
           G(rtype) == Found(answers, k + 1, rtype)
           S == Range(answers)
<1>0. k <= Len(answers) /\ k + 1 \in Nat /\ k + 1 <= Len(answers)
  BY RecordsTyped
<1>1. ASSUME NEW rtype
      PROVE  /\ F(rtype) \in Seq(S) /\ a \in S
             /\ G(rtype) = IF a.rtype = rtype THEN Append(F(rtype), a) ELSE F(rtype)
  BY OfTypeStep DEF Found
<1>m. ASSUME NEW rtype
      PROVE  /\ Len(F(rtype)) \in Nat
             /\ a.rtype = rtype => Len(G(rtype)) = Len(F(rtype)) + 1 /\ G(rtype) # <<>>
  <2> DEFINE s == F(rtype)
             t == G(rtype)
  <2>1. s \in Seq(S) /\ a \in S /\ (a.rtype = rtype => t = Append(s, a))
    BY <1>1
  <2> HIDE DEF s, t, S, a
  <2>2. Len(s) \in Nat /\ Len(Append(s, a)) = Len(s) + 1 /\ Append(s, a) # <<>>
    BY <2>1, LenProperties, AppendProperties
  <2>3. Len(s) \in Nat /\ (a.rtype = rtype => Len(t) = Len(s) + 1 /\ t # <<>>)
    BY <2>1, <2>2
  <2> QED
    BY <2>3 DEF s, t, a
<1>2. old = [owners |-> Owners(answers, k), instances |-> Instances(Len(F(TypePTR))),
             ips |-> Ips(F(TypeA)),
             txt |-> TxtRead(IF F(TypeTXT) = <<>> THEN {} ELSE {Txtvers}),
             goodbye |-> Goodbye(answers, k)]
  BY <1>0, ReadParts
<1>3. Read(answers, k + 1) =
         [owners |-> Owners(answers, k + 1), instances |-> Instances(Len(G(TypePTR))),
          ips |-> Ips(G(TypeA)),
          txt |-> TxtRead(IF G(TypeTXT) = <<>> THEN {} ELSE {Txtvers}),
          goodbye |-> Goodbye(answers, k + 1)]
  BY <1>0, ReadParts
<1>4. Owners(answers, k + 1) = Append(Owners(answers, k), Dotted(a.name))
  <2> DEFINE f == [i \in 1..(k + 1) |-> Dotted(answers[i].name)]
  <2>1. [i \in 1..(k + 1) |-> f[i]] = Append([i \in 1..k |-> f[i]], f[k + 1])
    <3> HIDE DEF f
    <3> QED
      BY AppendMap
  <2>2. /\ [i \in 1..(k + 1) |-> f[i]] = Owners(answers, k + 1)
        /\ [i \in 1..k |-> f[i]] = Owners(answers, k)
        /\ f[k + 1] = Dotted(a.name)
    BY DEF Owners
  <2> HIDE DEF f
  <2> QED
    BY <2>1, <2>2
<1>5. Instances(Len(G(TypePTR))) = IF a.rtype = TypePTR
                                   THEN Append(Instances(Len(F(TypePTR))), Dotted(Device.instance))
                                   ELSE Instances(Len(F(TypePTR)))
  <2> DEFINE n == Len(F(TypePTR))
             f == [i \in 1..(n + 1) |-> Dotted(Device.instance)]
  <2>0. n \in Nat /\ (a.rtype = TypePTR => Len(G(TypePTR)) = n + 1)
    BY <1>m
  <2>1. [i \in 1..(n + 1) |-> f[i]] = Append([i \in 1..n |-> f[i]], f[n + 1])
    <3> HIDE DEF f, n
    <3> QED
      BY <2>0, AppendMap
  <2>2. /\ [i \in 1..(n + 1) |-> f[i]] = Instances(n + 1)
        /\ [i \in 1..n |-> f[i]] = Instances(n)
        /\ f[n + 1] = Dotted(Device.instance)
    <3> HIDE DEF n
    <3> QED
      BY <2>0 DEF Instances
  <2>3. a.rtype # TypePTR => Len(G(TypePTR)) = n
    BY <1>1
  <2> HIDE DEF f, n, F, G
  <2>4. Instances(n + 1) = Append(Instances(n), Dotted(Device.instance))
    BY <2>1, <2>2
  <2> QED
    BY <2>0, <2>3, <2>4, Zenon DEF n
<1>6. Ips(G(TypeA)) = IF a.rtype = TypeA THEN Append(Ips(F(TypeA)), a.rdata) ELSE Ips(F(TypeA))
  <2>1. CASE a.rtype # TypeA
    BY <1>1, <2>1
  <2>2. CASE a.rtype = TypeA
    <3> DEFINE s == F(TypeA)
               t == Append(s, a)
               n == Len(s)
               f == [i \in 1..(n + 1) |-> t[i].rdata]
    <3>1. s \in Seq(S) /\ a \in S /\ G(TypeA) = t
      BY <1>1, <2>2
    <3> HIDE DEF s, S, F, G, a
    <3>2. /\ n \in Nat /\ Len(t) = n + 1 /\ t[n + 1] = a
          /\ \A i \in 1..n : t[i] = s[i]
      BY <3>1, AppendProperties, LenProperties
    <3> HIDE DEF t
    <3>3. [i \in 1..(n + 1) |-> f[i]] = Append([i \in 1..n |-> f[i]], f[n + 1])
      <4> HIDE DEF f, n
      <4> QED
        BY <3>2, AppendMap
    <3>4. [i \in 1..(n + 1) |-> f[i]] = Ips(t)
      <4> HIDE DEF n
      <4> QED
        BY <3>2 DEF Ips
    <3>5. [i \in 1..n |-> f[i]] = Ips(s)
      BY <3>2 DEF Ips
    <3>6. f[n + 1] = a.rdata
      <4> HIDE DEF n
      <4> QED
        BY <3>2
    <3> HIDE DEF f, n
    <3> QED
      BY <2>2, <3>1, <3>3, <3>4, <3>5, <3>6 DEF s
  <2> QED
    BY <2>1, <2>2
<1>7. TxtRead(IF G(TypeTXT) = <<>> THEN {} ELSE {Txtvers})
         = IF a.rtype = TypeTXT THEN TxtRead({Txtvers})
           ELSE TxtRead(IF F(TypeTXT) = <<>> THEN {} ELSE {Txtvers})
  <2>1. a.rtype = TypeTXT => G(TypeTXT) # <<>>
    BY <1>m
  <2>2. a.rtype # TypeTXT => G(TypeTXT) = F(TypeTXT)
    BY <1>1
  <2> HIDE DEF F, G
  <2> QED
    BY <2>1, <2>2, Zenon
<1>8. Goodbye(answers, k + 1) = (Goodbye(answers, k) \/ a.ttl = 0)
  <2>1. \A i : i \in 1..(k + 1) <=> i \in 1..k \/ i = k + 1
    OBVIOUS
  <2> QED
    BY ONLY <2>1, Zenon DEF Goodbye
<1>9. /\ old.owners = Owners(answers, k) /\ old.instances = Instances(Len(F(TypePTR)))
      /\ old.ips = Ips(F(TypeA)) /\ old.goodbye = Goodbye(answers, k)
      /\ old.txt = TxtRead(IF F(TypeTXT) = <<>> THEN {} ELSE {Txtvers})
  BY <1>2
<1> HIDE DEF old, a, F, G
<1> QED
  BY <1>3, <1>4, <1>5, <1>6, <1>7, <1>8, <1>9, Zenon DEF old, a

\* No answers are records.
LEMMA NoRecords == IsRecords(<<>>)
<1>1. <<>> \in Seq(Range(<<>>)) /\ Len(<<>>) = 0
  BY EmptySeq
<1>2. 0 \in Words
  BY SmallWords
<1> QED
  BY <1>1, <1>2 DEF IsRecords

\* Two records are records.
LEMMA TwoRecords ==
    ASSUME NEW r, NEW s, IsRecord(r), IsRecord(s)
    PROVE  IsRecords(<<r, s>>) /\ <<r, s>> # <<>>
<1>1. <<r, s>> \in Seq({r, s}) /\ Len(<<r, s>>) = 2 /\ <<r, s>>[1] = r /\ <<r, s>>[2] = s
  OBVIOUS
<1> DEFINE t == <<r, s>>
<1> HIDE DEF t
<1>2. t \in Seq(Range(t)) /\ Len(t) = 2 /\ t[1] = r /\ t[2] = s /\ t # <<>>
  BY <1>1, SeqOfRange, EmptySeq DEF t
<1>3. 2 \in Words
  BY SMT DEF Words
<1>4. IsRecords(t)
  BY <1>2, <1>3 DEF IsRecords
<1> QED
  BY <1>2, <1>4 DEF t

\* What an announcement or a goodbye is made of are records.
LEMMA ServiceAnswersRecords ==
    ASSUME NEW ttl \in Words
    PROVE  /\ IsRecords(ServiceAnswers(Device, ttl)) /\ ServiceAnswers(Device, ttl) # <<>>
<1> DEFINE p == PtrAnswer(Device, ttl)
           q == SrvAnswer(Device, ttl)
           r == TxtAnswer(Device, ttl)
           h == HostAnswers(Device, ttl)
           three == <<p, q, r>>
           S == {p, q, r} \cup Range(h)
           all == three \o h
<1>1. /\ h \in Seq(Range(h)) /\ Len(h) \in Nat /\ 3 + Len(h) \in Words
      /\ \A i \in 1..Len(h) : IsRecord(h[i])
  BY HostRecords
<1>2. IsRecord(p) /\ IsRecord(q) /\ IsRecord(r)
  BY ServiceRecords
<1>3. ServiceAnswers(Device, ttl) = all
  BY DEF ServiceAnswers
<1> HIDE DEF p, q, r, h
<1>4. three \in Seq(S) /\ Len(three) = 3 /\ \A i \in 1..3 : IsRecord(three[i])
  BY <1>2
<1>5. h \in Seq(S)
  BY <1>1, SeqMonotonic
<1> HIDE DEF three, S
<1>6. /\ all \in Seq(S) /\ Len(all) = 3 + Len(h)
      /\ \A i \in 1..(3 + Len(h)) : all[i] = IF i <= 3 THEN three[i] ELSE h[i - 3]
  <2>1. /\ all \in Seq(S) /\ Len(all) = Len(three) + Len(h)
        /\ \A i \in 1..(Len(three) + Len(h)) :
              all[i] = IF i <= Len(three) THEN three[i] ELSE h[i - Len(three)]
    BY <1>4, <1>5, ConcatProperties
  <2> HIDE DEF all
  <2> QED
    BY <2>1, <1>4
<1> HIDE DEF all
<1>7. ASSUME NEW i \in 1..Len(all) PROVE IsRecord(all[i])
  <2>1. CASE i <= 3
    <3>1. i \in 1..3 /\ all[i] = three[i]
      BY <1>1, <1>6, <2>1
    <3> QED
      BY <3>1, <1>4
  <2>2. CASE i > 3
    <3>1. i - 3 \in 1..Len(h) /\ all[i] = h[i - 3]
      BY <1>1, <1>6, <2>2
    <3> QED
      BY <3>1, <1>1
  <2> QED
    BY <1>6, <1>1, <2>1, <2>2
<1>8. all \in Seq(Range(all)) /\ all # <<>>
  BY <1>1, <1>6, SeqOfRange, EmptySeq
<1> QED
  BY <1>1, <1>3, <1>6, <1>7, <1>8 DEF IsRecords

\* Whatever is answered are records.
LEMMA AnswersRecords ==
    ASSUME NEW qname, NEW qtype, AnswersTo(qname, qtype) # <<>>
    PROVE  IsRecords(AnswersTo(qname, qtype))
<1>0. Normal \in Words
  BY SmallWords
<1>1. IsRecords(ServiceAnswers(Device, Normal))
  BY <1>0, ServiceAnswersRecords
<1>2. IsRecords(<<SrvAnswer(Device, Normal), TxtAnswer(Device, Normal)>>)
  BY <1>0, ServiceRecords, TwoRecords
<1>3. IsRecords(HostAnswers(Device, Normal))
  <2> DEFINE h == HostAnswers(Device, Normal)
  <2>1. h \in Seq(Range(h)) /\ Len(h) \in Nat /\ 3 + Len(h) \in Words /\ \A i \in 1..Len(h) : IsRecord(h[i])
    BY <1>0, HostRecords
  <2> HIDE DEF h
  <2>2. Len(h) \in Words
    BY <2>1, SMT DEF Words
  <2>3. IsRecords(h)
    BY <2>1, <2>2 DEF IsRecords
  <2> QED
    BY <2>3 DEF h
<1> QED
  BY <1>1, <1>2, <1>3, NoRecords, Zenon DEF AnswersTo

------------------------------------------------------------------------------
(* Packets                                                                    *)

\* Positions that skip_name may be at in the question name of s, which ends at e.
SkipSet(s, e, S) ==
    /\ 12 \in S
    /\ \A p \in S : /\ p \in Nat /\ 12 <= p /\ p < e
                    /\ s[p + 1] \in 1..191 => p + 1 + s[p + 1] \in S
                    /\ s[p + 1] \notin 1..191 => e = IF IsPointer(s[p + 1]) THEN p + 2 ELSE p + 1

\* s is a packet of these answers, behind one question or none.
Framed(s, answers) ==
    /\ s \in Seq(Nat) /\ IsRecords(answers) /\ answers # <<>>
    /\ AnswerAt(s, answers, 0) \in Nat /\ AnswerAt(s, answers, Len(answers)) = Len(s)
    /\ Placed(s, AnswerAt(s, answers, 0), Joined(AnswerPieces(answers), Len(answers)))
    /\ Len(s) = AnswerAt(s, answers, 0) + Len(Joined(AnswerPieces(answers), Len(answers)))
    /\ Placed(s, 6, U16(Len(answers)))
    /\ \/ Placed(s, 4, U16(0)) /\ AnswerAt(s, answers, 0) = 12
       \/ /\ Placed(s, 4, U16(1))
          /\ \E S : SkipSet(s, AnswerAt(s, answers, 0) - 4, S)

\* Where the data of the answer at p lie, and the next answer.
DataAt(a, p) == p + OwnerBytes(a) + 10
NextAt(a, p) == p + OwnerBytes(a) + 10 + Len(a.rdata)

\* Where answer n + 1 of s lies, and where it ends.
LEMMA FramedAnswer ==
    ASSUME NEW s, NEW answers, Framed(s, answers), NEW n \in Nat, n < Len(answers)
    PROVE  LET a == answers[n + 1]
               p == AnswerAt(s, answers, n)
           IN  /\ IsRecord(a) /\ IsName(a.name) /\ p \in Nat /\ Placed(s, p, EncodeAnswer(a))
               /\ AnswerAt(s, answers, n + 1) = NextAt(a, p)
               /\ OwnerBytes(a) \in Nat /\ Len(a.rdata) \in Nat /\ NextAt(a, p) <= Len(s)
               /\ Placed(s, p, EncodeName(a.name))
               /\ 256 * s[p + OwnerBytes(a) + 1] + s[p + OwnerBytes(a) + 2] = a.rtype
               /\ a.ttl = 0 <=> /\ s[p + OwnerBytes(a) + 5] = 0 /\ s[p + OwnerBytes(a) + 6] = 0
                                /\ s[p + OwnerBytes(a) + 7] = 0 /\ s[p + OwnerBytes(a) + 8] = 0
               /\ 256 * s[p + OwnerBytes(a) + 9] + s[p + OwnerBytes(a) + 10] = Len(a.rdata)
               /\ Placed(s, DataAt(a, p), a.rdata)
<1> DEFINE a == answers[n + 1]
           p == AnswerAt(s, answers, n)
           k == AnswerAt(s, answers, 0)
<1>1. /\ IsRecords(answers) /\ Placed(s, k, Joined(AnswerPieces(answers), Len(answers)))
      /\ Len(s) = k + Len(Joined(AnswerPieces(answers), Len(answers)))
  BY DEF Framed
<1>2. IsAnswers(answers) /\ IsRecord(a)
  <2>1. n + 1 \in 1..Len(answers)
    BY <1>1, RecordsTyped
  <2> QED
    BY <1>1, <2>1, RecordsTyped
<1>3. IsAnswer(a) /\ IsName(a.name)
  BY <1>2 DEF IsRecord, IsAnswer
<1>4. /\ Placed(s, p, EncodeAnswer(a))
      /\ AnswerAt(s, answers, n + 1) = p + Len(EncodeAnswer(a))
  BY <1>1, <1>2, AnswerPlaced
<1> HIDE DEF a, p, k
<1>5. Len(EncodeAnswer(a)) = OwnerBytes(a) + 10 + Len(a.rdata)
  BY <1>3, AnswerEncoded
<1>6. /\ p \in Nat /\ OwnerBytes(a) \in Nat /\ Len(a.rdata) \in Nat
      /\ p + OwnerBytes(a) + 10 + Len(a.rdata) <= Len(s)
      /\ Placed(s, p, EncodeName(a.name))
      /\ 256 * s[p + OwnerBytes(a) + 1] + s[p + OwnerBytes(a) + 2] = a.rtype
      /\ a.ttl = 0 <=> /\ s[p + OwnerBytes(a) + 5] = 0 /\ s[p + OwnerBytes(a) + 6] = 0
                       /\ s[p + OwnerBytes(a) + 7] = 0 /\ s[p + OwnerBytes(a) + 8] = 0
      /\ 256 * s[p + OwnerBytes(a) + 9] + s[p + OwnerBytes(a) + 10] = Len(a.rdata)
      /\ Placed(s, p + OwnerBytes(a) + 10, a.rdata)
  BY <1>3, <1>4, AnswerRead
<1>7. p + Len(EncodeAnswer(a)) = p + OwnerBytes(a) + 10 + Len(a.rdata)
  <2> DEFINE y == OwnerBytes(a)
             z == Len(a.rdata)
             w == Len(EncodeAnswer(a))
  <2>1. p \in Nat /\ y \in Nat /\ z \in Nat /\ w = y + 10 + z
    BY <1>5, <1>6
  <2> HIDE DEF y, z, w
  <2>2. p + w = p + y + 10 + z
    BY <2>1, SMT
  <2> QED
    BY <2>2 DEF y, z, w
<1> QED
  BY <1>2, <1>3, <1>4, <1>6, <1>7 DEF a, p, DataAt, NextAt

\* build_response makes packets of their answers.
LEMMA BuiltFramed ==
    ASSUME NEW id \in Seq(Nat), Len(id) = 2, NEW question \in Seq(Nat),
           NEW answers, IsRecords(answers), answers # <<>>,
           question = <<>>
              \/ \E S : SkipSet(BuildResponse(id, question, answers), 12 + Len(question) - 4, S)
    PROVE  LET s == BuildResponse(id, question, answers)
           IN  /\ Framed(s, answers) /\ AnswerAt(s, answers, 0) = 12 + Len(question)
               /\ Placed(s, 12, question)
<1> DEFINE s == BuildResponse(id, question, answers)
           all == Joined(AnswerPieces(answers), Len(answers))
           k == 12 + Len(question)
<1>0. IsAnswers(answers)
  BY RecordsTyped
<1>1. /\ s \in Seq(Nat) /\ Len(s) = k + Len(all)
      /\ Len(question) \in Nat /\ Len(all) \in Nat
      /\ Placed(s, 4, U16(IF question = <<>> THEN 0 ELSE 1))
      /\ Placed(s, 6, U16(Len(answers)))
      /\ Placed(s, 12, question)
      /\ Placed(s, k, all)
  BY <1>0, ResponseBuilt
<1>2. /\ AnswerAt(s, answers, 0) = Len(s) - Len(all) + Len(Joined(AnswerPieces(answers), 0))
      /\ AnswerAt(s, answers, Len(answers)) = Len(s) - Len(all) + Len(all)
  BY DEF AnswerAt
<1>3. Len(Joined(AnswerPieces(answers), 0)) = 0
  BY JoinedZero
<1>4. question = <<>> => Len(question) = 0
  OBVIOUS
<1>5. question = <<>> \/ \E S : SkipSet(s, k - 4, S)
  OBVIOUS
<1> HIDE DEF s, all
<1>6. AnswerAt(s, answers, 0) = k /\ AnswerAt(s, answers, Len(answers)) = Len(s) /\ k \in Nat
  BY <1>1, <1>2, <1>3
<1>7. CASE question = <<>>
  <2>1. Placed(s, 4, U16(0)) /\ AnswerAt(s, answers, 0) = 12
    BY <1>1, <1>4, <1>6, <1>7
  <2> QED
    BY <1>1, <1>6, <2>1 DEF Framed, s, all
<1>8. CASE question # <<>>
  <2>1. Placed(s, 4, U16(1)) /\ \E S : SkipSet(s, AnswerAt(s, answers, 0) - 4, S)
    BY <1>1, <1>5, <1>6, <1>8
  <2> QED
    BY <1>1, <1>6, <2>1 DEF Framed, s, all
<1> QED
  BY <1>7, <1>8

------------------------------------------------------------------------------
(* The walk through a name                                                    *)

Made == made.kind \in {"whole", "part"}

\* The packet received is s, a packet of these answers, or the beginning of it.
Receives(s, answers) ==
    /\ Framed(s, answers) /\ Made
    /\ pkt \in Seq(Byte) /\ Placed(s, 0, pkt)
    /\ made.kind = "whole" => s = pkt
    /\ made.kind = "part" => AnswerAt(s, answers, 0) = 12

\* The bytes received are those of s, as far as they go.
LEMMA BytesReceived ==
    ASSUME NEW s, NEW answers, Receives(s, answers)
    PROVE  /\ Size \in Nat /\ Len(s) \in Nat /\ Size <= Len(s)
           /\ made.kind = "whole" => Size = Len(s)
           /\ \A i \in Nat : i < Size => B(i) = s[i + 1]
<1>1. Placed(s, 0, pkt) /\ (made.kind = "whole" => s = pkt)
  BY DEF Receives
<1>2. /\ Len(pkt) \in Nat /\ Len(s) \in Nat /\ 0 + Len(pkt) <= Len(s)
      /\ \A i \in 1..Len(pkt) : s[0 + i] = pkt[i]
  BY <1>1 DEF Placed
<1>3. ASSUME NEW i \in Nat, i < Len(pkt)
      PROVE  pkt[i + 1] = s[i + 1]
  <2>1. i + 1 \in 1..Len(pkt)
    BY <1>2, <1>3
  <2>2. s[0 + (i + 1)] = pkt[i + 1]
    BY <1>2, <2>1
  <2>3. 0 + (i + 1) = i + 1
    OBVIOUS
  <2> QED
    BY <2>2, <2>3
<1> QED
  BY <1>1, <1>2, <1>3 DEF Size, B

\* What lies in the packet is what is sliced out of it.
LEMMA SliceReceived ==
    ASSUME NEW s, NEW answers, Receives(s, answers), NEW t \in Seq(Nat), NEW i,
           Placed(s, i, t), i + Len(t) <= Size
    PROVE  Slice(i, i + Len(t)) = t
<1>1. /\ i \in Nat /\ Len(t) \in Nat /\ Size \in Nat
      /\ \A k \in 1..Len(t) : s[i + k] = t[k]
      /\ \A k \in Nat : k < Size => B(k) = s[k + 1]
  BY BytesReceived DEF Placed
<1>2. pkt \in Seq(Byte)
  BY DEF Receives
<1> DEFINE n == Len(t)
<1>3. ASSUME NEW k \in 1..n
      PROVE  pkt[i + k] = t[k]
  <2> DEFINE h == i + k - 1
  <2>1. h \in Nat /\ h < Size /\ h + 1 = i + k
    BY <1>1
  <2>2. B(h) = s[h + 1]
    BY <1>1, <2>1
  <2> QED
    BY <1>1, <2>1, <2>2 DEF B
<1>4. Slice(i, i + n) = SubSeq(pkt, i + 1, i + n)
  BY DEF Slice
<1>5. t = [k \in 1..n |-> t[k]]
  BY <1>1
<1>6. SubSeq(pkt, i + 1, i + n) = [k \in 1..n |-> pkt[i + k]]
  <2>1. SubSeq(pkt, i + 1, i + n) = [k \in 1..(i + n - (i + 1) + 1) |-> pkt[k + (i + 1) - 1]]
    BY <1>1, <1>2 DEF Size
  <2>2. i + n - (i + 1) + 1 = n
    BY <1>1
  <2>3. \A k \in 1..n : pkt[k + (i + 1) - 1] = pkt[i + k]
    <3>1. \A k \in 1..n : k + (i + 1) - 1 = i + k
      BY <1>1
    <3> QED
      BY <3>1
  <2> QED
    BY <2>1, <2>2, <2>3
<1>7. [k \in 1..n |-> pkt[i + k]] = [k \in 1..n |-> t[k]]
  BY <1>3
<1> QED
  BY <1>4, <1>5, <1>6, <1>7

\* Text of this program is read as it was written.
LEMMA TextOfAscii ==
    ASSUME NEW t \in Seq(Ascii)
    PROVE  Text(t) = t
<1>1. \A i \in 1..Len(t) : t[i] \in 0..127
  BY ElementOfSeq DEF Ascii
<1>2. \A i \in 1..Len(t) : t[i] < 128
  <2>1. \A c \in 0..127 : c < 128
    OBVIOUS
  <2> QED
    BY <1>1, <2>1, Zenon
<1>3. Text(t) = [i \in 1..Len(t) |-> t[i]]
  BY <1>2, SMT DEF Text
<1>4. t = [i \in 1..Len(t) |-> t[i]]
  OBVIOUS
<1> QED
  BY <1>3, <1>4

\* The walk is at the end of a label of the name, and not in a pointer.
NameAt(name) ==
    /\ consumed = 0
    /\ \E j \in Nat : /\ j <= Len(name)
                      /\ at = start + LabelBytes(name, j)
                      /\ labels = Labels(name, j)
    /\ \A p \in visited : p \in Nat /\ p < at

\* The byte the walk is at: there is another label, or the name has been read.
LEMMA NameHere ==
    ASSUME NEW s, NEW name, IsName(name), Placed(s, start, EncodeName(name)), NameAt(name)
    PROVE  LET bytes == Len(EncodeName(name))
           IN  /\ bytes \in Nat /\ start \in Nat /\ at \in Nat /\ at < start + bytes
               /\ start + bytes <= Len(s) /\ at \notin visited /\ consumed = 0
               /\ \/ s[at + 1] = 0 /\ labels = Dotted(name) /\ at + 1 - start = bytes
                  \/ /\ s[at + 1] \in 1..191 /\ at + 1 + s[at + 1] < start + bytes
                     /\ \E l \in Seq(Ascii) : /\ Len(l) = s[at + 1] /\ Placed(s, at + 1, l)
                                              /\ \E j \in Nat :
                                                    /\ j <= Len(name)
                                                    /\ at + 1 + s[at + 1]
                                                          = start + LabelBytes(name, j)
                                                    /\ (IF labels = <<>> THEN <<>>
                                                        ELSE Append(labels, Dot)) \o l
                                                          = Labels(name, j)
<1> DEFINE bytes == Len(EncodeName(name))
<1>1. PICK j \in Nat : j <= Len(name) /\ at = start + LabelBytes(name, j) /\ labels = Labels(name, j)
  BY DEF NameAt
<1>2. /\ s[start + LabelBytes(name, Len(name)) + 1] = 0
      /\ LabelBytes(name, Len(name)) + 1 = bytes
      /\ LabelBytes(name, Len(name)) \in Nat /\ start \in Nat
      /\ start + bytes <= Len(s)
  BY NameRoot
<1>3. /\ Len(name) \in Nat
      /\ \A i \in 1..Len(name) : name[i] \in Seq(Ascii) /\ Len(name[i]) \in 1..191
  BY NameTyped
<1>4. consumed = 0 /\ \A p \in visited : p \in Nat /\ p < at
  BY DEF NameAt
<1>5. CASE j = Len(name)
  <2>1. labels = Dotted(name)
    BY <1>1, <1>5, LabelsEnd
  <2>2. at = start + LabelBytes(name, Len(name))
    BY <1>1, <1>5
  <2> HIDE DEF bytes
  <2>3. /\ bytes \in Nat /\ at \in Nat /\ at < start + bytes /\ at + 1 - start = bytes
        /\ s[at + 1] = 0
    BY <1>2, <2>2, SMT
  <2>4. at \notin visited
    BY <1>4, <2>3
  <2> QED
    BY <1>2, <1>4, <2>1, <2>3, <2>4 DEF bytes
<1>6. CASE j # Len(name)
  <2>1. j < Len(name)
    BY <1>1, <1>3, <1>6
  <2>2. /\ LabelBytes(name, j) \in Nat
        /\ s[start + LabelBytes(name, j) + 1] = Len(name[j + 1])
        /\ Placed(s, start + LabelBytes(name, j) + 1, name[j + 1])
        /\ LabelBytes(name, j + 1) = LabelBytes(name, j) + 1 + Len(name[j + 1])
        /\ LabelBytes(name, j + 1) < bytes
    BY <2>1, NameLabel
  <2>3. Labels(name, j + 1) = (IF Labels(name, j) = <<>> THEN <<>>
                               ELSE Append(Labels(name, j), Dot)) \o name[j + 1]
    BY <2>1, LabelsTyped
  <2>4. name[j + 1] \in Seq(Ascii) /\ Len(name[j + 1]) \in 1..191
    <3>1. j + 1 \in 1..Len(name)
      BY <1>3, <2>1
    <3> QED
      BY <1>3, <3>1
  <2>5. j + 1 \in Nat /\ j + 1 <= Len(name)
    BY <1>3, <2>1
  <2> DEFINE l == name[j + 1]
             x == LabelBytes(name, j)
             y == LabelBytes(name, j + 1)
  <2>6. Len(l) = s[at + 1] /\ Placed(s, at + 1, l)
    BY <1>1, <2>2
  <2>7. at = start + x /\ x \in Nat /\ Len(l) \in 1..191 /\ y = x + 1 + Len(l) /\ y < bytes
    BY <1>1, <2>2, <2>4
  <2> HIDE DEF l, x, y, bytes
  <2>8. bytes \in Nat
    BY <1>2, SMT
  <2>9. /\ at \in Nat /\ at < start + bytes
        /\ s[at + 1] \in 1..191 /\ at + 1 + s[at + 1] = start + y
        /\ at + 1 + s[at + 1] < start + bytes
    <3>1. start \in Nat
      BY <1>2
    <3>2. s[at + 1] = Len(l)
      BY <2>6
    <3>3. /\ at \in Nat /\ at < start + bytes /\ at + 1 + Len(l) = start + y
          /\ at + 1 + Len(l) < start + bytes
      BY ONLY <2>7, <2>8, <3>1
    <3> QED
      BY <2>7, <3>2, <3>3
  <2>10. at \notin visited
    BY <1>4, <2>9
  <2>11. /\ at + 1 + s[at + 1] = start + LabelBytes(name, j + 1)
         /\ (IF labels = <<>> THEN <<>> ELSE Append(labels, Dot)) \o l = Labels(name, j + 1)
    BY <1>1, <2>3, <2>9 DEF l, y
  <2>12. l \in Seq(Ascii)
    BY <2>4 DEF l
  <2> QED
    BY <1>2, <1>4, <2>5, <2>6, <2>8, <2>9, <2>10, <2>11, <2>12 DEF bytes
<1> QED
  BY <1>5, <1>6

\* Before its first label.
LEMMA NameStarts ==
    ASSUME NEW name, IsName(name), NEW from \in Nat, BeginName(from)
    PROVE  NameAt(name)' /\ start' = from
<1>1. start' = from /\ at' = from /\ visited' = {} /\ labels' = <<>> /\ consumed' = 0
  BY DEF BeginName
<1>2. LabelBytes(name, 0) = 0 /\ Labels(name, 0) = <<>> /\ Len(name) \in Nat
  BY NameBegin, LabelsBegin, NameTyped
<1>3. 0 \in Nat /\ 0 <= Len(name) /\ at' = start' + LabelBytes(name, 0) /\ labels' = Labels(name, 0)
  BY <1>1, <1>2
<1> QED
  BY <1>1, <1>3 DEF NameAt

\* A label is read.
LEMMA NameGoesOn ==
    ASSUME NEW s, NEW answers, Receives(s, answers), NEW name, IsName(name),
           Placed(s, start, EncodeName(name)), NameAt(name), ReadLabel
    PROVE  NameAt(name)'
<1>1. /\ at < Size /\ B(at) \in 1..191 /\ at + 1 + B(at) <= Size
      /\ visited' = visited \cup {at} /\ start' = start /\ consumed' = consumed
      /\ labels' = (IF labels = <<>> THEN <<>> ELSE Append(labels, Dot))
                      \o Text(Slice(at + 1, at + 1 + B(at)))
      /\ at' = at + 1 + B(at)
  BY DEF ReadLabel, Fresh
<1>2. /\ at \in Nat /\ consumed = 0
      /\ \/ s[at + 1] = 0
         \/ \E l \in Seq(Ascii), j \in Nat :
                /\ Len(l) = s[at + 1] /\ Placed(s, at + 1, l)
                /\ j <= Len(name) /\ at + 1 + s[at + 1] = start + LabelBytes(name, j)
                /\ (IF labels = <<>> THEN <<>> ELSE Append(labels, Dot)) \o l = Labels(name, j)
  BY NameHere
<1>3. B(at) = s[at + 1] /\ Size \in Nat
  BY <1>1, <1>2, BytesReceived
<1>4. PICK l \in Seq(Ascii), j \in Nat :
         /\ Len(l) = s[at + 1] /\ Placed(s, at + 1, l)
         /\ j <= Len(name) /\ at + 1 + s[at + 1] = start + LabelBytes(name, j)
         /\ (IF labels = <<>> THEN <<>> ELSE Append(labels, Dot)) \o l = Labels(name, j)
  <2>1. \A b : b \in 1..191 => b # 0
    OBVIOUS
  <2>2. s[at + 1] # 0
    BY <1>1, <1>3, <2>1, Zenon
  <2> QED
    BY <1>2, <2>2, Zenon
<1>5. Slice(at + 1, at + 1 + B(at)) = l
  <2>1. l \in Seq(Nat)
    <3>1. Ascii \in SUBSET Nat
      BY DEF Ascii
    <3> QED
      BY <3>1, NatSeq
  <2>2. at + 1 + Len(l) <= Size
    BY <1>1, <1>3, <1>4
  <2> QED
    BY <1>3, <1>4, <2>1, <2>2, SliceReceived
<1>6. labels' = Labels(name, j) /\ at' = start' + LabelBytes(name, j)
  BY <1>1, <1>3, <1>4, <1>5, TextOfAscii
<1>7. \A p \in visited' : p \in Nat /\ p < at'
  <2>1. \A p \in visited : p \in Nat /\ p < at
    BY DEF NameAt
  <2>2. \A x \in Nat, b \in 1..191 : x < x + 1 + b /\ x + 1 + b \in Nat
    OBVIOUS
  <2>3. at < at' /\ at' \in Nat
    BY <1>1, <1>2, <2>2, Zenon
  <2> QED
    BY <1>1, <1>2, <2>1, <2>3
<1> QED
  BY <1>1, <1>2, <1>4, <1>6, <1>7 DEF NameAt

\* A name that is all in the packet is read to its end.
LEMMA NameNeverFails ==
    ASSUME NEW s, NEW answers, Receives(s, answers), NEW name, IsName(name),
           Placed(s, start, EncodeName(name)), NameAt(name), InName
    PROVE  /\ NameFails => start + Len(EncodeName(name)) > Size
           /\ ~FollowPointer
           /\ AtRoot => labels = Dotted(name) /\ Consumed = Len(EncodeName(name))
<1> DEFINE bytes == Len(EncodeName(name))
           b == s[at + 1]
<1>1. /\ bytes \in Nat /\ start \in Nat /\ at \in Nat /\ at < start + bytes
      /\ at \notin visited /\ consumed = 0
      /\ \/ b = 0 /\ labels = Dotted(name) /\ at + 1 - start = bytes
         \/ b \in 1..191 /\ at + 1 + b < start + bytes
  BY NameHere, Zenon
<1>2. Size \in Nat /\ (at < Size => B(at) = b)
  BY <1>1, BytesReceived
<1> HIDE DEF bytes, b
<1>3. \/ b = 0 /\ labels = Dotted(name) /\ at + 1 - start = bytes
      \/ b \in Nat /\ b > 0 /\ b < 192 /\ at + 1 + b < start + bytes
  BY <1>1, SMT
<1>4. NameFails => start + bytes > Size
  <2> SUFFICES ASSUME NameFails
               PROVE  start + bytes > Size
    OBVIOUS
  <2>1. Fresh => \/ IsPointer(B(at)) /\ at + 1 >= Size
                 \/ B(at) \in 1..191 /\ at + 1 + B(at) > Size
    BY DEF NameFails
  <2>2. CASE ~(at < Size)
    BY <1>1, <1>2, <2>2
  <2>3. CASE at < Size
    <3>1. Fresh /\ B(at) = b
      BY <1>1, <1>2, <2>3 DEF Fresh
    <3>2. b >= 192 \/ (b \in 1..191 /\ at + 1 + b > Size)
      BY <2>1, <3>1 DEF IsPointer
    <3> QED
      BY <1>1, <1>2, <1>3, <3>2
  <2> QED
    BY <2>2, <2>3
<1>5. ~FollowPointer
  <2> SUFFICES ASSUME FollowPointer
               PROVE  FALSE
    OBVIOUS
  <2>1. at < Size /\ B(at) >= 192
    BY DEF FollowPointer, Fresh, IsPointer
  <2> QED
    BY <1>2, <1>3, <2>1
<1>6. AtRoot => labels = Dotted(name) /\ Consumed = bytes
  <2> SUFFICES ASSUME AtRoot
               PROVE  labels = Dotted(name) /\ Consumed = bytes
    OBVIOUS
  <2>1. at < Size /\ B(at) = 0
    BY DEF AtRoot, Fresh
  <2>2. b = 0
    BY <1>2, <2>1
  <2>3. labels = Dotted(name) /\ at + 1 - start = bytes
    BY <1>3, <2>2
  <2> QED
    BY <1>1, <2>3 DEF Consumed
<1> QED
  BY <1>4, <1>5, <1>6 DEF bytes

------------------------------------------------------------------------------
(* What has been collected, wherever the reader is                            *)

\* What is collected, part by part.
Rec(o, i, p, t, g) == [owners |-> o, instances |-> i, ips |-> p, txt |-> t, goodbye |-> g]

\* The parts of a record, and records with one part changed.
LEMMA RecParts ==
    ASSUME NEW o, NEW i, NEW p, NEW t, NEW g, NEW r, r = Rec(o, i, p, t, g)
    PROVE  r.owners = o /\ r.instances = i /\ r.ips = p /\ r.txt = t /\ r.goodbye = g
BY DEF Rec

LEMMA OwnersChanged ==
    ASSUME NEW o, NEW i, NEW p, NEW t, NEW g, NEW r, r = Rec(o, i, p, t, g), NEW x, NEW l
    PROVE  l = [r EXCEPT !.owners = x] <=> l = Rec(x, i, p, t, g)
BY DEF Rec

LEMMA InstancesChanged ==
    ASSUME NEW o, NEW i, NEW p, NEW t, NEW g, NEW r, r = Rec(o, i, p, t, g), NEW x, NEW l
    PROVE  l = [r EXCEPT !.instances = x] <=> l = Rec(o, x, p, t, g)
BY DEF Rec

LEMMA TxtChanged ==
    ASSUME NEW o, NEW i, NEW p, NEW t, NEW g, NEW r, r = Rec(o, i, p, t, g), NEW x, NEW l
    PROVE  l = [r EXCEPT !.txt = x] <=> l = Rec(o, i, p, x, g)
BY DEF Rec

LEMMA GoodbyeChanged ==
    ASSUME NEW o, NEW i, NEW p, NEW t, NEW g, NEW r, r = Rec(o, i, p, t, g), NEW x, NEW l
    PROVE  l = [r EXCEPT !.goodbye = x] <=> l = Rec(o, i, p, t, x)
BY DEF Rec

\* What is collected with n answers, and with one more.
Collected(answers, n, o, i, p, t, g, o2, i2, p2, t2, g2) ==
    LET a == answers[n + 1]
    IN  /\ Read(answers, n) = Rec(o, i, p, t, g)
        /\ Read(answers, n + 1) = Rec(o2, i2, p2, t2, g2)
        /\ o2 = Append(o, Dotted(a.name))
        /\ i2 = IF a.rtype = TypePTR THEN Append(i, Dotted(Device.instance)) ELSE i
        /\ p2 = IF a.rtype = TypeA THEN Append(p, a.rdata) ELSE p
        /\ t2 = IF a.rtype = TypeTXT THEN TxtRead({Txtvers}) ELSE t
        /\ \E texts \in SUBSET {Txtvers} : t = TxtRead(texts)
        /\ g2 = (g \/ a.ttl = 0)

\* Such parts there are.
LEMMA ReadShape ==
    ASSUME NEW answers, IsRecords(answers), NEW n \in Nat, n < Len(answers)
    PROVE  \E o, i, p, t, g, o2, i2, p2, t2, g2 :
              Collected(answers, n, o, i, p, t, g, o2, i2, p2, t2, g2)
<1> DEFINE a == answers[n + 1]
           old == Read(answers, n)
           new == Read(answers, n + 1)
           T == IF Found(answers, n, TypeTXT) = <<>> THEN {} ELSE {Txtvers}
           o == Owners(answers, n)
           i == Instances(Len(Found(answers, n, TypePTR)))
           p == Ips(Found(answers, n, TypeA))
           t == TxtRead(T)
           g == Goodbye(answers, n)
           o2 == Append(o, Dotted(a.name))
           i2 == IF a.rtype = TypePTR THEN Append(i, Dotted(Device.instance)) ELSE i
           p2 == IF a.rtype = TypeA THEN Append(p, a.rdata) ELSE p
           t2 == IF a.rtype = TypeTXT THEN TxtRead({Txtvers}) ELSE t
           g2 == g \/ a.ttl = 0
<1>1. old = [owners |-> o, instances |-> i, ips |-> p, txt |-> t, goodbye |-> g]
  <2>1. n <= Len(answers)
    BY RecordsTyped
  <2> QED
    BY <2>1, ReadParts
<1>2. new =
         [owners |-> Append(old.owners, Dotted(a.name)),
          instances |-> IF a.rtype = TypePTR
                        THEN Append(old.instances, Dotted(Device.instance))
                        ELSE old.instances,
          ips |-> IF a.rtype = TypeA THEN Append(old.ips, a.rdata) ELSE old.ips,
          txt |-> IF a.rtype = TypeTXT THEN TxtRead({Txtvers}) ELSE old.txt,
          goodbye |-> old.goodbye \/ a.ttl = 0]
  BY ReadStep
<1>3. T \in SUBSET {Txtvers}
  OBVIOUS
<1> HIDE DEF T, a, old, new, o, i, p, g
<1>4. /\ old.owners = o /\ old.instances = i /\ old.ips = p
      /\ old.txt = t /\ old.goodbye = g
  BY <1>1
<1>5. new = Rec(o2, i2, p2, t2, g2)
  BY <1>2, <1>4, Zenon DEF Rec
<1>6. old = Rec(o, i, p, t, g)
  BY <1>1, Zenon DEF Rec
<1>7. \E texts \in SUBSET {Txtvers} : t = TxtRead(texts)
  BY <1>3, Zenon
<1>8. /\ o2 = Append(o, Dotted(a.name))
      /\ i2 = IF a.rtype = TypePTR THEN Append(i, Dotted(Device.instance)) ELSE i
      /\ p2 = IF a.rtype = TypeA THEN Append(p, a.rdata) ELSE p
      /\ t2 = IF a.rtype = TypeTXT THEN TxtRead({Txtvers}) ELSE t
      /\ g2 = (g \/ a.ttl = 0)
  OBVIOUS
<1> HIDE DEF o2, i2, p2, t2, g2, t
<1>9. Collected(answers, n, o, i, p, t, g, o2, i2, p2, t2, g2)
  BY <1>5, <1>6, <1>7, <1>8, Zenon DEF Collected, old, new, a
<1> QED
  BY <1>9, Zenon

\* The record that is being read: n are read, and the code counts down.
AtRecordNumber(answers, n) ==
    /\ n \in Nat /\ n < Len(answers) /\ left = Len(answers) - n - 1

AtQuestions(s, answers) ==
    /\ res = Nothing
    /\ \/ left = 0 /\ pos = AnswerAt(s, answers, 0)
       \/ left = 1 /\ pos = 12 /\ \E S : SkipSet(s, AnswerAt(s, answers, 0) - 4, S)

AtSkip(s, answers) ==
    /\ res = Nothing /\ left = 0
    /\ \E S : SkipSet(s, AnswerAt(s, answers, 0) - 4, S) /\ at \in S

AtAnswers(s, answers) ==
    \E n \in Nat : /\ n <= Len(answers) /\ left = Len(answers) - n
                   /\ pos = AnswerAt(s, answers, n) /\ res = Read(answers, n)

AtOwner(s, answers, n) ==
    /\ AtRecordNumber(answers, n)
    /\ pos = AnswerAt(s, answers, n) /\ start = pos
    /\ res = Read(answers, n)
    /\ NameAt(answers[n + 1].name)

AtRecord(s, answers, n) ==
    /\ AtRecordNumber(answers, n)
    /\ pos = AnswerAt(s, answers, n) + OwnerBytes(answers[n + 1])
    /\ res = [Read(answers, n) EXCEPT !.owners = Read(answers, n + 1).owners]

AtInstance(s, answers, n) ==
    /\ AtRecordNumber(answers, n) /\ answers[n + 1].rtype = TypePTR
    /\ pos = AnswerAt(s, answers, n + 1)
    /\ start = DataAt(answers[n + 1], AnswerAt(s, answers, n))
    /\ res = [Read(answers, n + 1) EXCEPT !.instances = Read(answers, n).instances]
    /\ NameAt(Device.instance)

AtEntries(s, answers, n) ==
    /\ AtRecordNumber(answers, n) /\ answers[n + 1].rtype = TypeTXT
    /\ pos = AnswerAt(s, answers, n + 1)
    /\ LET data == DataAt(answers[n + 1], AnswerAt(s, answers, n))
       IN  \/ /\ at = data
              /\ res = [Read(answers, n + 1) EXCEPT !.txt = Read(answers, n).txt]
           \/ at = data + 9 /\ res = Read(answers, n + 1)

\* ReadsBack, where it says something.
Ends(kind, r, answers) ==
    /\ kind = "whole" => r = Result(answers)
    /\ kind = "part" =>
          \E k \in 0..Len(answers), more \in {0, 1} :
              LET read == Result(SubSeq(answers, 1, k))
                  seen == Result(SubSeq(answers, 1, k + more))
              IN  /\ k + more <= Len(answers)
                  /\ r.owners \in {read.owners, seen.owners}
                  /\ r.goodbye \in {read.goodbye, seen.goodbye}
                  /\ r = [read EXCEPT !.owners = r.owners, !.goodbye = r.goodbye]
AtEnd(answers) == Ends(made.kind, res, answers)

\* A whole packet is read whole; of a part, n records, with or without the owner
\* and the goodbye of the next.
LEMMA EndsWhole ==
    ASSUME NEW answers, IsRecords(answers), Made
    PROVE  res = Read(answers, Len(answers)) => AtEnd(answers)
<1> SUFFICES ASSUME res = Read(answers, Len(answers))
             PROVE  AtEnd(answers)
  OBVIOUS
<1> DEFINE k == Len(answers)
           read == Result(SubSeq(answers, 1, k))
<1>1. k \in Nat
  BY RecordsTyped
<1>2. res = Result(answers) /\ res = read
  BY ReadAll DEF Read
<1>3. \E o, i, p, t, g : res = Rec(o, i, p, t, g)
  BY <1>2 DEF Result, Rec
<1>4. res = [read EXCEPT !.owners = res.owners, !.goodbye = res.goodbye]
  <2> HIDE DEF read
  <2> QED
    BY <1>2, <1>3 DEF Rec
<1>5. k \in 0..k /\ k + 0 = k /\ k <= k
  BY <1>1
<1> HIDE DEF k
<1> QED
  BY <1>2, <1>4, <1>5, Zenon DEF AtEnd, Ends, k

\* A part of a packet may end behind any record.
LEMMA EndsAt ==
    ASSUME NEW answers, IsRecords(answers), made.kind = "part",
           NEW n \in Nat, n <= Len(answers), res = Read(answers, n)
    PROVE  AtEnd(answers)
<1> DEFINE read == Result(SubSeq(answers, 1, n))
<1>1. Len(answers) \in Nat
  BY RecordsTyped
<1>2. res = read
  BY DEF Read
<1>3. \E o, i, p, t, g : res = Rec(o, i, p, t, g)
  BY <1>2 DEF Result, Rec
<1>4. res = [read EXCEPT !.owners = res.owners, !.goodbye = res.goodbye]
  <2> HIDE DEF read
  <2> QED
    BY <1>2, <1>3 DEF Rec
<1>5. n \in 0..Len(answers) /\ n + 0 = n
  BY <1>1
<1>6. made.kind # "whole"
  OBVIOUS
<1> QED
  BY <1>2, <1>4, <1>5, <1>6, Zenon DEF AtEnd, Ends

\* It may end in one, of which the owner and the time to live may have been read.
LEMMA EndsIn ==
    ASSUME NEW answers, IsRecords(answers), NEW r,
           NEW n \in Nat, n < Len(answers), NEW o, NEW i, NEW p, NEW t, NEW g, NEW h,
           Read(answers, n) = Rec(o, i, p, t, g),
           r = Rec(Read(answers, n + 1).owners, i, p, t, h),
           h = g \/ h = Read(answers, n + 1).goodbye
    PROVE  Ends("part", r, answers)
<1> DEFINE read == Read(answers, n)
           x == Read(answers, n + 1).owners
<1>1. n \in 0..Len(answers) /\ n + 1 <= Len(answers)
  BY RecordsTyped
<1>2. "part" # "whole"
  OBVIOUS
<1> HIDE DEF read, x
<1>3. read = Rec(o, i, p, t, g) /\ r = Rec(x, i, p, t, h)
  BY DEF read, x
<1>4. read.goodbye = g /\ r.owners = x /\ r.goodbye = h
  BY <1>3, RecParts
<1>5. PICK k : k = [read EXCEPT !.owners = x, !.goodbye = h]
  OBVIOUS
<1>6. k = r
  <2>1. read = Rec(o, i, p, t, g)
    BY <1>3
  <2>2. k = Rec(x, i, p, t, h)
    BY ONLY <1>5, <2>1 DEF Rec
  <2> QED
    BY <1>3, <2>2
<1>7. r = [read EXCEPT !.owners = r.owners, !.goodbye = r.goodbye]
  BY <1>4, <1>5, <1>6
<1>8. r.goodbye \in {read.goodbye, Read(answers, n + 1).goodbye}
  BY <1>4
<1> QED
  BY <1>1, <1>2, <1>4, <1>7, <1>8, Zenon DEF Ends, Read, read, x

------------------------------------------------------------------------------
(* Up to the answers                                                          *)

\* The answers in the packet begin behind the header and any question.
LEMMA AnswersBegin ==
    ASSUME NEW s, NEW answers, Receives(s, answers)
    PROVE  /\ AnswerAt(s, answers, 0) \in Nat /\ 12 <= AnswerAt(s, answers, 0)
           /\ AnswerAt(s, answers, 0) <= Len(s) /\ Len(s) \in Nat
           /\ IsRecords(answers) /\ Len(answers) \in Nat /\ answers # <<>>
           /\ made.kind = "part" => ~\E S : SkipSet(s, AnswerAt(s, answers, 0) - 4, S)
<1> DEFINE k == AnswerAt(s, answers, 0)
           n == Len(Joined(AnswerPieces(answers), Len(answers)))
<1>1. /\ Framed(s, answers) /\ IsRecords(answers) /\ answers # <<>>
      /\ made.kind = "part" => k = 12
  BY DEF Receives, Framed
<1>2. /\ k \in Nat /\ Len(s) = k + n
      /\ Placed(s, k, Joined(AnswerPieces(answers), Len(answers)))
      /\ k = 12 \/ \E S : SkipSet(s, k - 4, S)
  BY <1>1 DEF Framed
<1>3. n \in Nat
  BY <1>2 DEF Placed
<1>4. (\E S : SkipSet(s, k - 4, S)) => 12 < k - 4
  BY DEF SkipSet
<1>5. Len(answers) \in Nat
  BY <1>1, RecordsTyped
<1> HIDE DEF k, n
<1>6. 12 <= k /\ k <= Len(s) /\ Len(s) \in Nat
  BY <1>2, <1>3, <1>4
<1>7. made.kind = "part" => ~\E S : SkipSet(s, k - 4, S)
  BY <1>1, <1>4
<1> QED
  BY <1>1, <1>2, <1>5, <1>6, <1>7 DEF k

\* A word that lies in s is read, if it is received.
LEMMA WordReceived ==
    ASSUME NEW s, NEW answers, Receives(s, answers), NEW p, NEW n \in Words,
           Placed(s, p, U16(n)), p + 2 <= Size
    PROVE  Word(p) = n
<1>1. 256 * s[p + 1] + s[p + 2] = n /\ p \in Nat
  BY WordRead
<1>2. Size \in Nat /\ \A i \in Nat : i < Size => B(i) = s[i + 1]
  BY BytesReceived
<1>3. B(p) = s[p + 1]
  BY <1>1, <1>2
<1>4. p + 1 \in Nat /\ p + 1 < Size /\ p + 1 + 1 = p + 2
  BY <1>1, <1>2
<1>5. B(p + 1) = s[p + 2]
  BY <1>2, <1>4
<1> QED
  BY <1>1, <1>3, <1>5 DEF Word

\* The header says that there is one question, or none.
LEMMA BeginParseReads ==
    ASSUME NEW s, NEW answers, Receives(s, answers), res = Nothing, BeginParse
    PROVE  \/ pc' = "questions" /\ AtQuestions(s, answers)'
           \/ pc' = "respond" /\ AtEnd(answers)'
<1>0. /\ AnswerAt(s, answers, 0) \in Nat /\ 12 <= AnswerAt(s, answers, 0)
      /\ AnswerAt(s, answers, 0) <= Len(s) /\ Len(s) \in Nat
      /\ IsRecords(answers) /\ Len(answers) \in Nat
  BY AnswersBegin
<1>1. /\ Size \in Nat /\ (made.kind = "whole" => Size = Len(s))
      /\ pos' = 12 /\ left' = (IF Size < 12 THEN 0 ELSE Word(4))
      /\ pc' = (IF Size < 12 THEN "respond" ELSE "questions")
      /\ res' = res /\ made' = made
  BY BytesReceived DEF BeginParse
<1>2. CASE Size < 12
  <2>1. made.kind = "part"
    BY <1>0, <1>1, <1>2 DEF Receives, Made
  <2>2. res = Read(answers, 0)
    BY <1>0, ReadBegin
  <2>3. AtEnd(answers)
    BY <1>0, <2>1, <2>2, EndsAt
  <2>4. AtEnd(answers)'
    BY <1>1, <2>3 DEF AtEnd
  <2> QED
    BY <1>1, <1>2, <2>4
<1>3. CASE Size >= 12
  <2>1. 4 + 2 <= Size
    BY <1>1, <1>3
  <2>2. CASE Placed(s, 4, U16(0)) /\ AnswerAt(s, answers, 0) = 12
    <3>1. Word(4) = 0
      BY <2>1, <2>2, WordReceived, SmallWords
    <3> QED
      BY <1>1, <1>3, <2>2, <3>1 DEF AtQuestions
  <2>3. CASE Placed(s, 4, U16(1)) /\ \E S : SkipSet(s, AnswerAt(s, answers, 0) - 4, S)
    <3>1. Word(4) = 1
      BY <2>1, <2>3, WordReceived, SmallWords
    <3> QED
      BY <1>1, <1>3, <2>3, <3>1 DEF AtQuestions
  <2> QED
    BY <2>2, <2>3 DEF Receives, Framed
<1> QED
  BY <1>1, <1>2, <1>3

\* skip_name begins where the question name does.
LEMMA BeginSkipReads ==
    ASSUME NEW s, NEW answers, AtQuestions(s, answers), BeginSkip
    PROVE  AtSkip(s, answers)'
<1>1. /\ res = Nothing /\ left > 0
      /\ \/ left = 0
         \/ left = 1 /\ pos = 12 /\ \E S : SkipSet(s, AnswerAt(s, answers, 0) - 4, S)
  BY DEF AtQuestions, BeginSkip
<1>2. left' = left - 1 /\ at' = pos /\ res' = res
  BY DEF BeginSkip, BeginName
<1>3. PICK S : SkipSet(s, AnswerAt(s, answers, 0) - 4, S)
  BY <1>1
<1>4. 12 \in S
  BY <1>3 DEF SkipSet
<1> QED
  BY <1>1, <1>2, <1>3, <1>4 DEF AtSkip

\* It keeps to the positions it may be at, and ends where the question name ends.
LEMMA SkipReads ==
    ASSUME NEW s, NEW answers, Receives(s, answers), AtSkip(s, answers)
    PROVE  /\ SkipLabel => AtSkip(s, answers)'
           /\ SkipEnds => AtQuestions(s, answers)'
           /\ ~SkipFails
<1> DEFINE k == AnswerAt(s, answers, 0)
<1>0. k \in Nat /\ 12 <= k /\ k <= Len(s) /\ Len(s) \in Nat
  BY AnswersBegin
<1>1. res = Nothing /\ left = 0
  BY DEF AtSkip
<1>2. PICK S : SkipSet(s, k - 4, S) /\ at \in S
  BY DEF AtSkip
<1>3. /\ at \in Nat /\ 12 <= at /\ at < k - 4
      /\ s[at + 1] \in 1..191 => at + 1 + s[at + 1] \in S
      /\ s[at + 1] \notin 1..191 => k - 4 = IF IsPointer(s[at + 1]) THEN at + 2 ELSE at + 1
  BY <1>2 DEF SkipSet
<1>4. /\ Size \in Nat /\ (made.kind = "whole" => Size = Len(s))
      /\ at < Size => B(at) = s[at + 1]
  BY <1>3, BytesReceived
<1> HIDE DEF k
<1>5. SkipLabel => AtSkip(s, answers)'
  <2> SUFFICES ASSUME SkipLabel
               PROVE  AtSkip(s, answers)'
    OBVIOUS
  <2>1. at < Size /\ B(at) \in 1..191 /\ at' = at + 1 + B(at) /\ left' = left /\ res' = res
    BY DEF SkipLabel
  <2>2. at' \in S
    BY <1>3, <1>4, <2>1
  <2> QED
    BY <1>1, <1>2, <2>1, <2>2 DEF AtSkip, k
<1>6. at < Size /\ B(at) \notin 1..191 => Behind + 4 = k
  <2> SUFFICES ASSUME at < Size, B(at) \notin 1..191
               PROVE  Behind + 4 = k
    OBVIOUS
  <2>1. k - 4 = Behind
    BY <1>3, <1>4 DEF Behind
  <2> QED
    BY <1>0, <2>1
<1>7. SkipEnds => AtQuestions(s, answers)'
  <2> SUFFICES ASSUME SkipEnds
               PROVE  AtQuestions(s, answers)'
    OBVIOUS
  <2>1. at < Size /\ B(at) \notin 1..191 /\ pos' = Behind + 4 /\ left' = left /\ res' = res
    BY DEF SkipEnds
  <2> QED
    BY <1>1, <1>6, <2>1 DEF AtQuestions, k
<1>8. ~SkipFails
  <2> SUFFICES ASSUME SkipFails
               PROVE  FALSE
    OBVIOUS
  <2>1. at < Size => B(at) \notin 1..191 /\ Behind + 4 > Size
    BY DEF SkipFails
  <2>2. made.kind = "whole"
    BY <1>2, AnswersBegin DEF k, Receives, Made
  <2>3. Size = Len(s) /\ at < Size
    BY <1>0, <1>3, <1>4, <2>2
  <2>4. Behind + 4 = k
    BY <1>6, <2>1, <2>3
  <2> QED
    BY <1>0, <1>4, <2>1, <2>3, <2>4
<1> QED
  BY <1>5, <1>7, <1>8

\* The header counts the answers.
LEMMA BeginAnswersReads ==
    ASSUME NEW s, NEW answers, Receives(s, answers), AtQuestions(s, answers), BeginAnswers,
           pos \in 12..Size
    PROVE  AtAnswers(s, answers)'
<1>0. IsRecords(answers) /\ Len(answers) \in Nat
  BY AnswersBegin
<1>1. res = Nothing /\ pos = AnswerAt(s, answers, 0)
  BY DEF AtQuestions, BeginAnswers
<1>2. left' = Word(6) /\ pos' = pos /\ res' = res
  BY DEF BeginAnswers
<1>3. Placed(s, 6, U16(Len(answers))) /\ Len(answers) \in Words
  BY <1>0, RecordsTyped DEF Receives, Framed
<1>4. Size \in Nat
  BY BytesReceived
<1>5. 6 + 2 <= Size
  BY <1>4
<1>6. Word(6) = Len(answers)
  BY <1>3, <1>5, WordReceived
<1>7. Read(answers, 0) = Nothing
  BY <1>0, ReadBegin
<1>8. 0 \in Nat /\ 0 <= Len(answers) /\ left' = Len(answers) - 0
  BY <1>0, <1>2, <1>6
<1> QED
  BY <1>1, <1>2, <1>7, <1>8 DEF AtAnswers

\* The owner of the next answer begins where the last answer ended.
LEMMA BeginAnswerReads ==
    ASSUME NEW s, NEW answers, Receives(s, answers), AtAnswers(s, answers), BeginAnswer
    PROVE  \E n : AtOwner(s, answers, n)'
<1>0. Framed(s, answers) /\ Len(answers) \in Nat
  BY AnswersBegin DEF Receives
<1>1. PICK n \in Nat : /\ n <= Len(answers) /\ left = Len(answers) - n
                       /\ pos = AnswerAt(s, answers, n) /\ res = Read(answers, n)
  BY DEF AtAnswers
<1>2. left > 0 /\ left' = left - 1 /\ BeginName(pos) /\ pos' = pos /\ res' = res
  BY DEF BeginAnswer
<1>3. n < Len(answers) /\ left' = Len(answers) - n - 1
  BY <1>0, <1>1, <1>2
<1>4. IsName(answers[n + 1].name) /\ AnswerAt(s, answers, n) \in Nat
  BY <1>0, <1>3, FramedAnswer
<1>5. NameAt(answers[n + 1].name)' /\ start' = pos
  BY <1>1, <1>2, <1>4, NameStarts
<1> QED
  BY <1>1, <1>2, <1>3, <1>5 DEF AtOwner, AtRecordNumber

\* Behind the last answer all is read.
LEMMA EndAnswersReads ==
    ASSUME NEW s, NEW answers, Receives(s, answers), AtAnswers(s, answers), EndAnswers
    PROVE  AtEnd(answers)'
<1>0. IsRecords(answers) /\ Len(answers) \in Nat /\ Made
  BY AnswersBegin DEF Receives
<1>1. PICK n \in Nat : /\ n <= Len(answers) /\ left = Len(answers) - n
                       /\ res = Read(answers, n)
  BY DEF AtAnswers
<1>2. left = 0 /\ res' = res /\ made' = made
  BY DEF EndAnswers
<1>3. n = Len(answers)
  BY <1>0, <1>1, <1>2
<1>4. AtEnd(answers)
  BY <1>0, <1>1, <1>3, EndsWhole
<1> QED
  BY <1>2, <1>4 DEF AtEnd

------------------------------------------------------------------------------
(* An answer: its owner and its fixed part                                    *)

\* The record that is being read lies in the packet.
LEMMA RecordReceived ==
    ASSUME NEW s, NEW answers, Receives(s, answers), NEW n, AtRecordNumber(answers, n)
    PROVE  LET a == answers[n + 1]
               p == AnswerAt(s, answers, n)
           IN  /\ n \in Nat /\ n < Len(answers) /\ Len(answers) \in Nat /\ IsRecords(answers)
               /\ IsRecord(a) /\ IsName(a.name) /\ p \in Nat
               /\ OwnerBytes(a) \in Nat /\ Len(a.rdata) \in Nat /\ a.rdata \in Seq(Nat)
               /\ DataAt(a, p) = p + OwnerBytes(a) + 10
               /\ AnswerAt(s, answers, n + 1) = p + OwnerBytes(a) + 10 + Len(a.rdata)
               /\ p + OwnerBytes(a) + 10 + Len(a.rdata) <= Len(s) /\ Len(s) \in Nat
               /\ Placed(s, p, EncodeName(a.name)) /\ Placed(s, DataAt(a, p), a.rdata)
               /\ 256 * s[p + OwnerBytes(a) + 1] + s[p + OwnerBytes(a) + 2] = a.rtype
               /\ a.ttl = 0 <=> /\ s[p + OwnerBytes(a) + 5] = 0 /\ s[p + OwnerBytes(a) + 6] = 0
                                /\ s[p + OwnerBytes(a) + 7] = 0 /\ s[p + OwnerBytes(a) + 8] = 0
               /\ 256 * s[p + OwnerBytes(a) + 9] + s[p + OwnerBytes(a) + 10] = Len(a.rdata)
               /\ a.rtype = TypePTR => a.rdata = EncodeName(Device.instance)
               /\ a.rtype = TypeTXT => a.rdata = TxtRecord(Device.kind, Device.version)
               /\ a.rtype = TypeA => Len(a.rdata) = 4
<1> DEFINE a == answers[n + 1]
           p == AnswerAt(s, answers, n)
<1>1. n \in Nat /\ n < Len(answers)
  BY DEF AtRecordNumber
<1>2. Framed(s, answers) /\ IsRecords(answers) /\ Len(answers) \in Nat /\ Len(s) \in Nat
  BY AnswersBegin DEF Receives
<1>3. /\ IsRecord(a) /\ IsName(a.name) /\ p \in Nat
      /\ AnswerAt(s, answers, n + 1) = NextAt(a, p)
      /\ OwnerBytes(a) \in Nat /\ Len(a.rdata) \in Nat /\ NextAt(a, p) <= Len(s)
      /\ Placed(s, p, EncodeName(a.name))
      /\ 256 * s[p + OwnerBytes(a) + 1] + s[p + OwnerBytes(a) + 2] = a.rtype
      /\ a.ttl = 0 <=> /\ s[p + OwnerBytes(a) + 5] = 0 /\ s[p + OwnerBytes(a) + 6] = 0
                       /\ s[p + OwnerBytes(a) + 7] = 0 /\ s[p + OwnerBytes(a) + 8] = 0
      /\ 256 * s[p + OwnerBytes(a) + 9] + s[p + OwnerBytes(a) + 10] = Len(a.rdata)
      /\ Placed(s, DataAt(a, p), a.rdata)
  BY <1>1, <1>2, FramedAnswer
<1> HIDE DEF a, p
<1>4. /\ a.rdata \in Seq(Nat)
      /\ a.rtype = TypePTR => a.rdata = EncodeName(Device.instance)
      /\ a.rtype = TypeTXT => a.rdata = TxtRecord(Device.kind, Device.version)
      /\ a.rtype = TypeA => Len(a.rdata) = 4
  BY <1>3, Zenon DEF IsRecord, IsAnswer
<1> QED
  BY <1>1, <1>2, <1>3, <1>4, Zenon DEF a, p, NextAt, DataAt

\* The owner is read label by label, to its end or to that of the packet.
LEMMA OwnerReads ==
    ASSUME NEW s, NEW answers, Receives(s, answers), NEW n, AtOwner(s, answers, n), pc = "owner"
    PROVE  /\ ReadLabel => AtOwner(s, answers, n)'
           /\ OwnerRead => AtRecord(s, answers, n)'
           /\ NameFails => AtEnd(answers)'
           /\ ~FollowPointer
<1> DEFINE a == answers[n + 1]
           name == a.name
<1>1. /\ AtRecordNumber(answers, n) /\ pos = AnswerAt(s, answers, n) /\ start = pos
      /\ res = Read(answers, n) /\ NameAt(name)
  BY DEF AtOwner
<1>2. /\ n \in Nat /\ n < Len(answers) /\ Len(answers) \in Nat /\ IsRecords(answers)
      /\ IsName(name) /\ Placed(s, start, EncodeName(name))
      /\ OwnerBytes(a) = Len(EncodeName(name)) /\ OwnerBytes(a) \in Nat
      /\ pos \in Nat /\ pos + OwnerBytes(a) + 10 + Len(a.rdata) <= Len(s)
      /\ Len(a.rdata) \in Nat /\ Len(s) \in Nat
  BY <1>1, RecordReceived DEF OwnerBytes
<1>3. InName
  BY DEF InName
<1> HIDE DEF a, name
<1>4. /\ NameFails => start + Len(EncodeName(name)) > Size
      /\ ~FollowPointer
      /\ AtRoot => labels = Dotted(name) /\ Consumed = Len(EncodeName(name))
  BY <1>1, <1>2, <1>3, NameNeverFails
<1>5. ReadLabel => AtOwner(s, answers, n)'
  <2> SUFFICES ASSUME ReadLabel
               PROVE  AtOwner(s, answers, n)'
    OBVIOUS
  <2>1. NameAt(name)'
    BY <1>1, <1>2, NameGoesOn
  <2>2. left' = left /\ pos' = pos /\ start' = start /\ res' = res
    BY DEF ReadLabel
  <2> QED
    BY <1>1, <2>1, <2>2 DEF AtOwner, AtRecordNumber, name, a
<1>6. OwnerRead => AtRecord(s, answers, n)'
  <2> SUFFICES ASSUME OwnerRead
               PROVE  AtRecord(s, answers, n)'
    OBVIOUS
  <2>1. /\ res' = [res EXCEPT !.owners = Append(@, labels)]
        /\ pos' = pos + Consumed /\ left' = left /\ AtRoot
    BY DEF OwnerRead
  <2>2. labels = Dotted(name) /\ Consumed = OwnerBytes(a)
    BY <1>2, <1>4, <2>1
  <2>3. PICK o, i, p, t, g, x, i2, p2, t2, g2 :
            Collected(answers, n, o, i, p, t, g, x, i2, p2, t2, g2)
    BY <1>2, ReadShape
  <2>10. /\ x = Append(o, Dotted(name))
         /\ Read(answers, n) = Rec(o, i, p, t, g)
         /\ Read(answers, n + 1) = Rec(x, i2, p2, t2, g2)
    BY <2>3, Zenon DEF Collected, name, a
  <2>4. Read(answers, n + 1).owners = x
    <3>1. Read(answers, n + 1) = Rec(x, i2, p2, t2, g2)
      BY <2>10
    <3> QED
      BY ONLY <3>1, RecParts
  <2>5. res = Rec(o, i, p, t, g)
    BY <1>1, <2>10
  <2>6. res.owners = o
    BY ONLY <2>5, RecParts
  <2>7. res' = [res EXCEPT !.owners = x]
    BY <2>1, <2>2, <2>10, <2>6
  <2>8. res' = Rec(x, i, p, t, g)
    BY ONLY <2>5, <2>7, OwnersChanged
  <2>9. res' = [Read(answers, n) EXCEPT !.owners = Read(answers, n + 1).owners]
    BY ONLY <1>1, <2>4, <2>5, <2>8, OwnersChanged
  <2> QED
    BY <1>1, <2>1, <2>2, <2>9 DEF AtRecord, AtRecordNumber, a
<1>7. NameFails => AtEnd(answers)'
  <2> SUFFICES ASSUME NameFails
               PROVE  AtEnd(answers)'
    OBVIOUS
  <2>1. pos + OwnerBytes(a) > Size
    BY <1>1, <1>2, <1>4
  <2>2. Size \in Nat /\ (made.kind = "whole" => Size = Len(s)) /\ Made
    BY BytesReceived DEF Receives
  <2>3. Size # Len(s)
    <3> DEFINE x == OwnerBytes(a)
               y == Len(a.rdata)
    <3>1. pos + x > Size /\ pos \in Nat /\ x \in Nat /\ y \in Nat /\ pos + x + 10 + y <= Len(s)
      BY <1>2, <2>1
    <3> HIDE DEF x, y
    <3> QED
      BY <1>2, <2>2, <3>1
  <2>4. made.kind = "part"
    BY <2>2, <2>3 DEF Made
  <2>5. n <= Len(answers)
    BY <1>2
  <2>6. AtEnd(answers)
    BY <1>1, <1>2, <2>4, <2>5, EndsAt
  <2>7. res' = res /\ made' = made
    BY DEF NameFails
  <2> QED
    BY <2>6, <2>7 DEF AtEnd
<1> QED
  BY <1>4, <1>5, <1>6, <1>7

\* A record without its fixed part adds its owner.
LEMMA RecordCutOffReads ==
    ASSUME NEW s, NEW answers, Receives(s, answers), NEW n, AtRecord(s, answers, n), RecordCutOff
    PROVE  AtEnd(answers)'
<1> DEFINE a == answers[n + 1]
<1>1. /\ AtRecordNumber(answers, n)
      /\ pos = AnswerAt(s, answers, n) + OwnerBytes(a)
      /\ res = [Read(answers, n) EXCEPT !.owners = Read(answers, n + 1).owners]
  BY DEF AtRecord
<1>2. /\ n \in Nat /\ n < Len(answers) /\ IsRecords(answers)
      /\ OwnerBytes(a) \in Nat /\ Len(a.rdata) \in Nat /\ Len(s) \in Nat
      /\ AnswerAt(s, answers, n) \in Nat
      /\ AnswerAt(s, answers, n) + OwnerBytes(a) + 10 + Len(a.rdata) <= Len(s)
  BY <1>1, RecordReceived
<1> HIDE DEF a
<1>3. Size \in Nat /\ (made.kind = "whole" => Size = Len(s)) /\ Made
  BY BytesReceived DEF Receives
<1>4. pos + 10 > Size /\ res' = res /\ made' = made
  BY DEF RecordCutOff
<1>5. made.kind = "part"
  BY <1>1, <1>2, <1>3, <1>4 DEF Made
<1>6. PICK o, i, p, t, g : Read(answers, n) = Rec(o, i, p, t, g)
  BY <1>2, ReadShape DEF Collected
<1>7. res = Rec(Read(answers, n + 1).owners, i, p, t, g)
  BY <1>1, <1>6, OwnersChanged
<1>8. AtEnd(answers)
  BY <1>2, <1>5, <1>6, <1>7, EndsIn DEF AtEnd
<1> QED
  BY <1>4, <1>8 DEF AtEnd

\* The fixed part of the record is read as it was written.
LEMMA FixedPart ==
    ASSUME NEW s, NEW answers, Receives(s, answers), NEW n, AtRecord(s, answers, n),
           pos + 10 <= Size
    PROVE  LET a == answers[n + 1]
           IN  /\ pos \in Nat /\ Word(pos) = a.rtype /\ Word(pos + 8) = Len(a.rdata)
               /\ (\A i \in 4..7 : B(pos + i) = 0) <=> a.ttl = 0
               /\ Len(a.rdata) \in Nat /\ a.rdata \in Seq(Nat)
               /\ pos + 10 = DataAt(a, AnswerAt(s, answers, n))
               /\ pos + 10 + Len(a.rdata) = AnswerAt(s, answers, n + 1)
               /\ AnswerAt(s, answers, n + 1) <= Len(s) /\ Len(s) \in Nat
               /\ Placed(s, pos + 10, a.rdata)
<1> DEFINE a == answers[n + 1]
           p == AnswerAt(s, answers, n)
           w == OwnerBytes(a)
           l == Len(a.rdata)
<1>1. AtRecordNumber(answers, n) /\ pos = p + w
  BY DEF AtRecord
<1>2. /\ p \in Nat /\ w \in Nat /\ l \in Nat /\ a.rdata \in Seq(Nat)
      /\ DataAt(a, p) = p + w + 10
      /\ AnswerAt(s, answers, n + 1) = p + w + 10 + l
      /\ p + w + 10 + l <= Len(s) /\ Len(s) \in Nat
      /\ Placed(s, DataAt(a, p), a.rdata)
      /\ 256 * s[p + w + 1] + s[p + w + 2] = a.rtype
      /\ a.ttl = 0 <=> /\ s[p + w + 5] = 0 /\ s[p + w + 6] = 0
                       /\ s[p + w + 7] = 0 /\ s[p + w + 8] = 0
      /\ 256 * s[p + w + 9] + s[p + w + 10] = l
  <2>1. AtRecordNumber(answers, n)
    BY <1>1
  <2>2. /\ p \in Nat /\ w \in Nat /\ l \in Nat /\ a.rdata \in Seq(Nat)
        /\ DataAt(a, p) = p + w + 10
        /\ AnswerAt(s, answers, n + 1) = p + w + 10 + l
        /\ p + w + 10 + l <= Len(s) /\ Len(s) \in Nat
        /\ Placed(s, DataAt(a, p), a.rdata)
    BY <2>1, RecordReceived, SMTT(30)
  <2>3. 256 * s[p + w + 1] + s[p + w + 2] = a.rtype
    BY <2>1, RecordReceived, SMTT(30)
  <2>4. a.ttl = 0 <=> /\ s[p + w + 5] = 0 /\ s[p + w + 6] = 0
                      /\ s[p + w + 7] = 0 /\ s[p + w + 8] = 0
    BY <2>1, RecordReceived, SMTT(30)
  <2>5. 256 * s[p + w + 9] + s[p + w + 10] = l
    BY <2>1, RecordReceived, SMTT(30)
  <2> HIDE DEF a, p, w, l
  <2> QED
    BY <2>2, <2>3, <2>4, <2>5, Zenon
<1>3. Size \in Nat /\ \A i \in Nat : i < Size => B(i) = s[i + 1]
  BY BytesReceived
<1> HIDE DEF a, p, w, l
<1>4. pos \in Nat
  BY <1>1, <1>2
<1>5. \A i \in Nat : i < 10 => B(pos + i) = s[pos + i + 1]
  BY <1>3, <1>4
<1>6. /\ B(pos) = s[pos + 1] /\ B(pos + 1) = s[pos + 2]
      /\ B(pos + 4) = s[pos + 5] /\ B(pos + 5) = s[pos + 6]
      /\ B(pos + 6) = s[pos + 7] /\ B(pos + 7) = s[pos + 8]
      /\ B(pos + 8) = s[pos + 9] /\ B(pos + 8 + 1) = s[pos + 10]
  <2>1. /\ pos + 0 = pos /\ pos + 0 + 1 = pos + 1 /\ pos + 1 + 1 = pos + 2
        /\ pos + 4 + 1 = pos + 5 /\ pos + 5 + 1 = pos + 6 /\ pos + 6 + 1 = pos + 7
        /\ pos + 7 + 1 = pos + 8 /\ pos + 8 + 1 = pos + 9 /\ pos + 9 + 1 = pos + 10
    BY <1>4
  <2>2. /\ B(pos + 0) = s[pos + 0 + 1] /\ B(pos + 1) = s[pos + 1 + 1]
        /\ B(pos + 4) = s[pos + 4 + 1] /\ B(pos + 5) = s[pos + 5 + 1]
        /\ B(pos + 6) = s[pos + 6 + 1] /\ B(pos + 7) = s[pos + 7 + 1]
        /\ B(pos + 8) = s[pos + 8 + 1] /\ B(pos + 9) = s[pos + 9 + 1]
    BY <1>5
  <2> QED
    BY <2>1, <2>2
<1>7. /\ 256 * s[pos + 1] + s[pos + 2] = a.rtype
      /\ a.ttl = 0 <=> s[pos + 5] = 0 /\ s[pos + 6] = 0 /\ s[pos + 7] = 0 /\ s[pos + 8] = 0
      /\ 256 * s[pos + 9] + s[pos + 10] = l
      /\ DataAt(a, p) = pos + 10 /\ AnswerAt(s, answers, n + 1) = pos + 10 + l
      /\ pos + 10 + l <= Len(s)
  BY <1>1, <1>2
<1>8. Word(pos) = a.rtype /\ Word(pos + 8) = l
  BY <1>6, <1>7 DEF Word
<1>9. (\A i \in 4..7 : B(pos + i) = 0) <=> a.ttl = 0
  <2>1. \A i : i \in 4..7 <=> i \in {4, 5, 6, 7}
    OBVIOUS
  <2>2. (\A i \in 4..7 : B(pos + i) = 0)
           <=> B(pos + 4) = 0 /\ B(pos + 5) = 0 /\ B(pos + 6) = 0 /\ B(pos + 7) = 0
    BY <2>1, Zenon
  <2> QED
    BY <1>6, <1>7, <2>2, Zenon
<1>10. Placed(s, pos + 10, a.rdata)
  BY <1>2, <1>7
<1> QED
  BY <1>2, <1>4, <1>7, <1>8, <1>9, <1>10, Zenon DEF a, p, l

\* The fixed part is read: an address counts at once, an instance or TXT data are next,
\* and a record whose data are cut off ends the packet.
LEMMA RecordReads ==
    ASSUME NEW s, NEW answers, Receives(s, answers), NEW n, AtRecord(s, answers, n), ReadRecord
    PROVE  \/ pc' = "respond" /\ AtEnd(answers)'
           \/ pc' = "instance" /\ AtInstance(s, answers, n)'
           \/ pc' = "entries" /\ AtEntries(s, answers, n)'
           \/ pc' = "answers" /\ AtAnswers(s, answers)'
<1> DEFINE a == answers[n + 1]
           rdata == a.rdata
           data == pos + 10
           next == data + Len(rdata)
           bye == res.goodbye \/ a.ttl = 0
           ips == IF a.rtype = TypeA /\ next = data + 4
                  THEN Append(res.ips, Slice(data, next)) ELSE res.ips
<1>1. /\ AtRecordNumber(answers, n)
      /\ res = [Read(answers, n) EXCEPT !.owners = Read(answers, n + 1).owners]
  BY DEF AtRecord
<1>2. /\ n \in Nat /\ n < Len(answers) /\ Len(answers) \in Nat /\ IsRecords(answers)
      /\ a.rtype = TypePTR => rdata = EncodeName(Device.instance)
      /\ a.rtype = TypeTXT => rdata = TxtRecord(Device.kind, Device.version)
      /\ a.rtype = TypeA => Len(rdata) = 4
  BY <1>1, RecordReceived
<1>3. pos + 10 <= Size
  BY DEF ReadRecord
<1>4. /\ pos \in Nat /\ Word(pos) = a.rtype /\ Word(pos + 8) = Len(rdata)
      /\ (\A i \in 4..7 : B(pos + i) = 0) <=> a.ttl = 0
      /\ Len(rdata) \in Nat /\ rdata \in Seq(Nat)
      /\ data = DataAt(a, AnswerAt(s, answers, n))
      /\ next = AnswerAt(s, answers, n + 1)
      /\ next <= Len(s) /\ Len(s) \in Nat
      /\ Placed(s, data, rdata)
  BY <1>3, FixedPart
<1>5. /\ left' = left /\ made' = made
      /\ \/ /\ next > Size
            /\ res' = [res EXCEPT !.goodbye = bye]
            /\ pc' = "respond"
         \/ /\ next <= Size
            /\ pos' = next
            /\ res' = [res EXCEPT !.goodbye = bye, !.ips = ips]
            /\ pc' = CASE a.rtype = TypePTR -> "instance"
                       [] a.rtype = TypeTXT -> "entries"
                       [] OTHER -> "answers"
            /\ a.rtype \in {TypePTR, TypeTXT} => BeginName(data)
  <2> HIDE DEF a, rdata
  <2>1. (res.goodbye \/ \A i \in 4..7 : B(pos + i) = 0) = bye
    BY <1>4, Zenon
  <2> QED
    BY <1>4, <2>1 DEF ReadRecord
<1>6. PICK o, i, p, t, g, o2, i2, p2, t2, g2 :
         Collected(answers, n, o, i, p, t, g, o2, i2, p2, t2, g2)
  BY <1>2, ReadShape
<1>7. /\ Read(answers, n) = Rec(o, i, p, t, g)
      /\ Read(answers, n + 1) = Rec(o2, i2, p2, t2, g2)
      /\ i2 = IF a.rtype = TypePTR THEN Append(i, Dotted(Device.instance)) ELSE i
      /\ p2 = IF a.rtype = TypeA THEN Append(p, rdata) ELSE p
      /\ t2 = IF a.rtype = TypeTXT THEN TxtRead({Txtvers}) ELSE t
      /\ g2 = (g \/ a.ttl = 0)
  BY <1>6, Zenon DEF Collected
<1>8. Read(answers, n + 1).owners = o2
  <2>1. Read(answers, n + 1) = Rec(o2, i2, p2, t2, g2)
    BY <1>7
  <2> QED
    BY ONLY <2>1, RecParts
<1>9. res = Rec(o2, i, p, t, g)
  <2>1. Read(answers, n) = Rec(o, i, p, t, g)
    BY <1>7
  <2> QED
    BY ONLY <1>1, <1>8, <2>1, OwnersChanged
<1>10. res.goodbye = g /\ res.ips = p
  BY ONLY <1>9, RecParts
<1> HIDE DEF a, rdata, data, next
<1>11. bye = g2
  BY <1>7, <1>10, Zenon
<1>12. CASE next > Size
  <2> HIDE DEF bye, ips
  <2>1. next > Size /\ next <= Len(s)
    BY <1>4, <1>12
  <2>2. Size \in Nat /\ (made.kind = "whole" => Size = Len(s)) /\ Made /\ next \in Nat
    BY <1>4, BytesReceived DEF Receives, next, data
  <2>3. made.kind = "part"
    BY <1>4, <2>1, <2>2 DEF Made
  <2>4. ~(next <= Size)
    BY <2>1, <2>2
  <2>5. res' = [res EXCEPT !.goodbye = bye] /\ pc' = "respond" /\ made' = made
    BY <1>5, <2>4
  <2>6. res' = Rec(o2, i, p, t, g2)
    BY ONLY <1>9, <1>11, <2>5, GoodbyeChanged
  <2>7. Read(answers, n + 1).goodbye = g2
    <3>1. Read(answers, n + 1) = Rec(o2, i2, p2, t2, g2)
      BY <1>7
    <3> QED
      BY ONLY <3>1, RecParts
  <2>8. Read(answers, n) = Rec(o, i, p, t, g)
    BY <1>7
  <2>9. AtEnd(answers)'
    <3>1. made'.kind = "part"
      BY <2>3, <2>5
    <3>2. res' = Rec(Read(answers, n + 1).owners, i, p, t, g2)
      BY <1>8, <2>6
    <3>3. Ends("part", res', answers)
      BY <1>2, <2>7, <2>8, <3>2, EndsIn
    <3> QED
      BY <3>1, <3>3 DEF AtEnd
  <2> QED
    BY <2>5, <2>9
<1>13. CASE ~(next > Size)
  <2>1. /\ pos' = next
        /\ res' = [res EXCEPT !.goodbye = bye, !.ips = ips]
        /\ pc' = CASE a.rtype = TypePTR -> "instance"
                   [] a.rtype = TypeTXT -> "entries"
                   [] OTHER -> "answers"
        /\ a.rtype \in {TypePTR, TypeTXT} => BeginName(data)
        /\ next <= Size /\ left' = left
    BY <1>5, <1>13
  <2>2. ips = p2
    <3>1. CASE a.rtype = TypeA
      <4>1. next = data + 4 /\ next = data + Len(rdata)
        BY <1>2, <3>1 DEF next
      <4>2. Slice(data, next) = rdata
        <5>1. data + Len(rdata) <= Size
          BY <2>1, <4>1
        <5> QED
          BY <1>4, <4>1, <5>1, SliceReceived
      <4>3. ips = Append(p, rdata)
        BY <1>10, <3>1, <4>1, <4>2, Zenon
      <4> QED
        BY <1>7, <3>1, <4>3, Zenon
    <3>2. CASE a.rtype # TypeA
      BY <1>7, <1>10, <3>2, Zenon
    <3> QED
      BY <3>1, <3>2
  <2> HIDE DEF bye, ips
  <2>3. res' = Rec(o2, i, p2, t, g2)
    <3>1. res' = [res EXCEPT !.goodbye = bye, !.ips = ips]
      BY <2>1
    <3>2. res' = Rec(o2, i, ips, t, bye)
      BY ONLY <1>9, <3>1 DEF Rec
    <3> QED
      BY <1>11, <2>2, <3>2
  <2>4. AtRecordNumber(answers, n)' /\ pos' = AnswerAt(s, answers, n + 1)
    BY <1>1, <1>4, <2>1 DEF AtRecordNumber
  <2>5. TypePTR # TypeTXT /\ TypePTR # TypeA /\ TypeTXT # TypeA
    BY DEF TypePTR, TypeTXT, TypeA
  <2>6. CASE a.rtype = TypePTR
    <3>1. pc' = "instance" /\ BeginName(data)
      BY <2>1, <2>5, <2>6
    <3>2. p2 = p /\ t2 = t
      BY <1>7, <2>5, <2>6
    <3>3. res' = [Read(answers, n + 1) EXCEPT !.instances = Read(answers, n).instances]
      <4>1. Read(answers, n) = Rec(o, i, p, t, g) /\ Read(answers, n + 1) = Rec(o2, i2, p2, t2, g2)
        BY <1>7
      <4>2. Read(answers, n).instances = i
        BY ONLY <4>1, RecParts
      <4>3. res' = Rec(o2, i, p2, t2, g2)
        BY <2>3, <3>2
      <4> QED
        BY ONLY <4>1, <4>2, <4>3, InstancesChanged
    <3>4. NameAt(Device.instance)' /\ start' = data
      <4>1. data \in Nat
        BY <1>4 DEF data
      <4> QED
        BY <3>1, <4>1, NameStarts, DeviceParts
    <3>5. AtInstance(s, answers, n)'
      BY <1>4, <2>4, <2>6, <3>3, <3>4 DEF AtInstance, a
    <3> QED
      BY <3>1, <3>5
  <2>7. CASE a.rtype = TypeTXT
    <3>1. pc' = "entries" /\ BeginName(data)
      BY <2>1, <2>5, <2>7
    <3>2. p2 = p /\ i2 = i
      BY <1>7, <2>5, <2>7
    <3>3. res' = [Read(answers, n + 1) EXCEPT !.txt = Read(answers, n).txt]
      <4>1. Read(answers, n) = Rec(o, i, p, t, g) /\ Read(answers, n + 1) = Rec(o2, i2, p2, t2, g2)
        BY <1>7
      <4>2. Read(answers, n).txt = t
        BY ONLY <4>1, RecParts
      <4>3. res' = Rec(o2, i2, p2, t, g2)
        BY <2>3, <3>2
      <4> QED
        BY ONLY <4>1, <4>2, <4>3, TxtChanged
    <3>4. at' = data
      BY <3>1 DEF BeginName
    <3>5. AtEntries(s, answers, n)'
      BY <1>4, <2>4, <2>7, <3>3, <3>4 DEF AtEntries, a
    <3> QED
      BY <3>1, <3>5
  <2>8. CASE a.rtype # TypePTR /\ a.rtype # TypeTXT
    <3>1. pc' = "answers"
      BY <2>1, <2>8
    <3>2. t2 = t /\ i2 = i
      BY <1>7, <2>8
    <3>3. res' = Read(answers, n + 1)
      BY <1>7, <2>3, <3>2
    <3>4. n + 1 \in Nat /\ n + 1 <= Len(answers) /\ left' = Len(answers) - (n + 1)
      BY <1>2, <2>4 DEF AtRecordNumber
    <3>5. AtAnswers(s, answers)'
      BY <2>4, <3>3, <3>4 DEF AtAnswers
    <3> QED
      BY <3>1, <3>5
  <2> QED
    BY <2>6, <2>7, <2>8
<1> QED
  BY <1>12, <1>13

------------------------------------------------------------------------------
(* An answer: its data                                                        *)

\* The instance is read to its end: its data are all there.
LEMMA InstanceReads ==
    ASSUME NEW s, NEW answers, Receives(s, answers), NEW n, AtInstance(s, answers, n),
           pc = "instance", pos <= Size
    PROVE  /\ ReadLabel => AtInstance(s, answers, n)'
           /\ InstanceRead => AtAnswers(s, answers)'
           /\ ~NameFails
           /\ ~FollowPointer
<1> DEFINE a == answers[n + 1]
           rdata == a.rdata
           name == Device.instance
<1>1. /\ AtRecordNumber(answers, n) /\ a.rtype = TypePTR
      /\ pos = AnswerAt(s, answers, n + 1) /\ start = DataAt(a, AnswerAt(s, answers, n))
      /\ res = [Read(answers, n + 1) EXCEPT !.instances = Read(answers, n).instances]
      /\ NameAt(name)
  BY DEF AtInstance
<1>2. /\ n \in Nat /\ n < Len(answers) /\ Len(answers) \in Nat /\ IsRecords(answers)
      /\ Len(rdata) \in Nat /\ rdata = EncodeName(name) /\ Placed(s, start, rdata)
  BY <1>1, RecordReceived
<1>3. IsName(name)
  BY DeviceParts, Zenon
<1>4. InName
  BY DEF InName
<1>5. start + Len(rdata) = pos
  <2> DEFINE p == AnswerAt(s, answers, n)
             w == OwnerBytes(a)
             l == Len(rdata)
  <2>1. /\ DataAt(a, p) = p + w + 10 /\ AnswerAt(s, answers, n + 1) = p + w + 10 + l
        /\ p \in Nat /\ w \in Nat /\ l \in Nat
    BY <1>1, RecordReceived
  <2> HIDE DEF p, w, l
  <2>2. start + l = pos
    BY <1>1, <2>1 DEF p
  <2> QED
    BY <2>2 DEF l
<1> HIDE DEF a, rdata, name
<1>6. /\ NameFails => start + Len(EncodeName(name)) > Size
      /\ ~FollowPointer
      /\ AtRoot => labels = Dotted(name)
  BY <1>1, <1>2, <1>3, <1>4, NameNeverFails
<1>7. ~NameFails
  <2>1. start + Len(EncodeName(name)) = pos
    BY <1>2, <1>5
  <2>2. Size \in Nat /\ pos \in Nat
    <3>1. start \in Nat
      BY <1>2 DEF Placed
    <3> QED
      BY <1>2, <1>5, <3>1, BytesReceived
  <2> QED
    BY <1>6, <2>1, <2>2
<1>8. ReadLabel => AtInstance(s, answers, n)'
  <2> SUFFICES ASSUME ReadLabel
               PROVE  AtInstance(s, answers, n)'
    OBVIOUS
  <2>1. NameAt(name)'
    BY <1>1, <1>2, <1>3, NameGoesOn
  <2>2. left' = left /\ pos' = pos /\ start' = start /\ res' = res
    BY DEF ReadLabel
  <2> QED
    BY <1>1, <2>1, <2>2 DEF AtInstance, AtRecordNumber, name, a
<1>9. InstanceRead => AtAnswers(s, answers)'
  <2> SUFFICES ASSUME InstanceRead
               PROVE  AtAnswers(s, answers)'
    OBVIOUS
  <2>1. /\ res' = [res EXCEPT !.instances = Append(@, labels)]
        /\ pos' = pos /\ left' = left /\ AtRoot
    BY DEF InstanceRead
  <2>2. labels = Dotted(name)
    BY <1>6, <2>1
  <2>3. PICK o, i, p, t, g, o2, i2, p2, t2, g2 :
           Collected(answers, n, o, i, p, t, g, o2, i2, p2, t2, g2)
    BY <1>2, ReadShape
  <2>4. /\ Read(answers, n) = Rec(o, i, p, t, g)
        /\ Read(answers, n + 1) = Rec(o2, i2, p2, t2, g2)
        /\ i2 = Append(i, Dotted(name))
    BY <1>1, <2>3, Zenon DEF Collected, a, name
  <2>5. Read(answers, n).instances = i
    BY ONLY <2>4, RecParts
  <2>6. res = Rec(o2, i, p2, t2, g2)
    BY ONLY <1>1, <2>4, <2>5, InstancesChanged
  <2>7. res.instances = i
    BY ONLY <2>6, RecParts
  <2>8. res' = [res EXCEPT !.instances = i2]
    BY <2>1, <2>2, <2>4, <2>7
  <2>9. res' = Read(answers, n + 1)
    <3>1. Read(answers, n + 1) = Rec(o2, i2, p2, t2, g2)
      BY <2>4
    <3>2. res' = Rec(o2, i2, p2, t2, g2)
      BY ONLY <2>6, <2>8, InstancesChanged
    <3> QED
      BY <3>1, <3>2
  <2>10. n + 1 \in Nat /\ n + 1 <= Len(answers) /\ left' = Len(answers) - (n + 1)
    BY <1>1, <1>2, <2>1 DEF AtRecordNumber
  <2> QED
    BY <1>1, <2>1, <2>9, <2>10 DEF AtAnswers
<1> QED
  BY <1>6, <1>7, <1>8, <1>9

\* The entry that the length before it cuts short: without its value.
FirstEntry == <<116, 120, 116, 118, 101, 114, 115, 61>>

\* Its characters.
LEMMA FirstEntryParts ==
    /\ FirstEntry \in Seq(Ascii) /\ FirstEntry \in Seq(Nat) /\ Len(FirstEntry) = 8
    /\ Txtvers \in Seq(Nat) /\ Len(Txtvers) = 7
    /\ \A i \in 1..7 : FirstEntry[i] = Txtvers[i]
    /\ FirstEntry[8] = Equals
    /\ \A i \in 1..7 : FirstEntry[i] # Equals
BY DEF FirstEntry, Txtvers, Ascii, Equals

\* There is no white space around its key.
LEMMA TrimTxtvers ==
    Trim(Txtvers) = Txtvers /\ Trim(<<>>) = <<>>
<1>1. {i \in 1..Len(Txtvers) : Txtvers[i] \notin White} = 1..7
  BY DEF Txtvers, White
<1>2. Min(1..7) = 1 /\ Max(1..7) = 7
  <2>1. \A x : (x \in 1..7 /\ \A y \in 1..7 : x <= y) <=> x = 1
    OBVIOUS
  <2>2. \A x : (x \in 1..7 /\ \A y \in 1..7 : x >= y) <=> x = 7
    OBVIOUS
  <2> QED
    BY <2>1, <2>2, Zenon DEF Min, Max
<1>3. 1..7 # {}
  OBVIOUS
<1>4. Trim(Txtvers) = SubSeq(Txtvers, 1, 7)
  BY <1>1, <1>2, <1>3, Zenon DEF Trim
<1>5. SubSeq(Txtvers, 1, 7) = Txtvers
  <2>1. Txtvers \in Seq(Nat) /\ Len(Txtvers) = 7
    BY FirstEntryParts
  <2> QED
    BY ONLY <2>1
<1>6. {i \in 1..Len(<<>>) : <<>>[i] \notin White} = {}
  OBVIOUS
<1>7. Trim(<<>>) = <<>>
  BY <1>6, Zenon DEF Trim
<1> QED
  BY <1>4, <1>5, <1>7

\* It is read as its key without a value.
LEMMA FirstEntryRead ==
    ASSUME NEW texts \in SUBSET {Txtvers}
    PROVE  WithEntry(TxtRead(texts), FirstEntry) = TxtRead({Txtvers})
<1>1. {i \in 1..Len(FirstEntry) : IsEquals(FirstEntry[i])} = {8}
  BY FirstEntryParts DEF IsEquals
<1>2. Min({8}) = 8
  BY DEF Min
<1>3. SelectInSeq(FirstEntry, IsEquals) = 8
  BY <1>1, <1>2 DEF SelectInSeq
<1>4. SubSeq(FirstEntry, 1, 8 - 1) = Txtvers
  <2>1. SubSeq(FirstEntry, 1, 8 - 1) = [i \in 1..7 |-> FirstEntry[i]]
    BY FirstEntryParts
  <2>2. Txtvers = [i \in 1..7 |-> Txtvers[i]]
    BY FirstEntryParts
  <2>3. [i \in 1..7 |-> FirstEntry[i]] = [i \in 1..7 |-> Txtvers[i]]
    BY FirstEntryParts
  <2> QED
    BY <2>1, <2>2, <2>3
<1>5. SubSeq(FirstEntry, 8 + 1, Len(FirstEntry)) = <<>>
  BY DEF FirstEntry
<1>6. WithEntry(TxtRead(texts), FirstEntry) =
         [k \in DOMAIN TxtRead(texts) \cup {Txtvers} |->
             IF k = Txtvers THEN <<>> ELSE TxtRead(texts)[k]]
  <2>1. Trim(SubSeq(FirstEntry, 1, 8 - 1)) = Txtvers
    BY <1>4, TrimTxtvers
  <2>2. Trim(SubSeq(FirstEntry, 8 + 1, Len(FirstEntry))) = <<>>
    BY <1>5, TrimTxtvers
  <2> QED
    BY <1>3, <2>1, <2>2 DEF WithEntry
<1>7. DOMAIN TxtRead(texts) \cup {Txtvers} = {Txtvers}
  BY DEF TxtRead
<1> QED
  BY <1>6, <1>7 DEF TxtRead

\* Where TXT data lie: the length of eight, the first entry and, in place of the
\* length of the next, its last character.
LEMMA TxtReceived ==
    ASSUME NEW s, NEW p, Placed(s, p, TxtRecord(Device.kind, Device.version))
    PROVE  LET l == Len(TxtRecord(Device.kind, Device.version))
           IN  /\ l \in Nat /\ 10 <= l /\ l <= 58 /\ p \in Nat
               /\ s[p + 1] = 8 /\ s[p + 10] = 49 /\ Placed(s, p + 1, FirstEntry)
<1> DEFINE t == TxtRecord(Device.kind, Device.version)
           l == Len(t)
<1>1. /\ l \in Nat /\ 10 <= l /\ l <= 58
      /\ Placed(t, 0, <<8>>) /\ Placed(t, 1, Txtvers) /\ Placed(t, 8, <<Equals, 49>>)
  BY DeviceParts, TxtLaid
<1> HIDE DEF t
<1>2. Placed(s, p, t)
  BY DEF t
<1>3. /\ p \in Nat /\ Len(s) \in Nat /\ p + l <= Len(s)
      /\ \A i \in 1..l : s[p + i] = t[i]
  BY <1>2 DEF Placed
<1>4. t[1] = 8 /\ (\A i \in 1..7 : t[1 + i] = Txtvers[i]) /\ t[9] = Equals /\ t[10] = 49
  <2>1. t[1] = 8
    BY <1>1 DEF Placed
  <2>2. \A i \in 1..7 : t[1 + i] = Txtvers[i]
    BY <1>1, FirstEntryParts DEF Placed
  <2>3. t[8 + 1] = Equals /\ t[8 + 2] = 49
    BY <1>1 DEF Placed
  <2> QED
    BY <2>1, <2>2, <2>3
<1> HIDE DEF l
<1>5. \A i \in Nat : 1 <= i /\ i <= 10 => s[p + i] = t[i]
  BY <1>1, <1>3
<1>6. s[p + 1] = 8 /\ s[p + 10] = 49
  BY <1>4, <1>5
<1>7. ASSUME NEW i \in 1..8
      PROVE  s[p + 1 + i] = FirstEntry[i]
  <2>1. 1 + i \in Nat /\ 1 <= 1 + i /\ 1 + i <= 10 /\ p + 1 + i = p + (1 + i)
    BY <1>3
  <2>2. s[p + 1 + i] = t[1 + i]
    BY <1>5, <2>1
  <2>3. CASE i \in 1..7
    BY <1>4, <2>2, <2>3, FirstEntryParts
  <2>4. CASE i = 8
    BY <1>4, <2>2, <2>4, FirstEntryParts
  <2> QED
    BY <2>3, <2>4
<1>8. Placed(s, p + 1, FirstEntry)
  <2>1. p + 1 \in Nat /\ p + 1 + 8 <= Len(s) /\ Len(FirstEntry) = 8
    BY <1>1, <1>3, FirstEntryParts
  <2> QED
    BY <1>3, <1>7, <2>1 DEF Placed
<1> QED
  BY <1>1, <1>3, <1>6, <1>8 DEF l, t

\* Of TXT data the first entry is read, and nothing behind it.
LEMMA EntriesRead ==
    ASSUME NEW s, NEW answers, Receives(s, answers), NEW n, AtEntries(s, answers, n),
           pc = "entries", pos <= Size
    PROVE  /\ ReadEntry => AtEntries(s, answers, n)'
           /\ EndEntries => AtAnswers(s, answers)'
<1> DEFINE a == answers[n + 1]
           rdata == a.rdata
           data == DataAt(a, AnswerAt(s, answers, n))
           l == Len(rdata)
<1>1. /\ AtRecordNumber(answers, n) /\ a.rtype = TypeTXT
      /\ pos = AnswerAt(s, answers, n + 1)
      /\ \/ /\ at = data
            /\ res = [Read(answers, n + 1) EXCEPT !.txt = Read(answers, n).txt]
         \/ at = data + 9 /\ res = Read(answers, n + 1)
  BY DEF AtEntries
<1>2. /\ n \in Nat /\ n < Len(answers) /\ Len(answers) \in Nat /\ IsRecords(answers)
      /\ rdata = TxtRecord(Device.kind, Device.version) /\ Placed(s, data, rdata)
  BY <1>1, RecordReceived
<1>3. data + l = pos
  <2> DEFINE p == AnswerAt(s, answers, n)
             w == OwnerBytes(a)
  <2>1. /\ data = p + w + 10 /\ AnswerAt(s, answers, n + 1) = p + w + 10 + l
        /\ p \in Nat /\ w \in Nat /\ l \in Nat
    BY <1>1, RecordReceived
  <2> HIDE DEF p, w, l, data
  <2> QED
    BY <1>1, <2>1
<1> HIDE DEF a, rdata, data
<1>4. /\ l \in Nat /\ 10 <= l /\ l <= 58 /\ data \in Nat
      /\ s[data + 1] = 8 /\ s[data + 10] = 49 /\ Placed(s, data + 1, FirstEntry)
  BY <1>2, TxtReceived
<1> HIDE DEF l
<1>5. /\ Size \in Nat
      /\ B(data) = s[data + 1] /\ B(data + 9) = s[data + 10]
  <2>1. Size \in Nat /\ \A i \in Nat : i < Size => B(i) = s[i + 1]
    BY BytesReceived
  <2>2. data < Size /\ data + 9 \in Nat /\ data + 9 < Size /\ data + 9 + 1 = data + 10
    BY <1>3, <1>4, <2>1
  <2> QED
    BY <1>4, <2>1, <2>2
<1>6. CASE /\ at = data
           /\ res = [Read(answers, n + 1) EXCEPT !.txt = Read(answers, n).txt]
  <2>1. at < pos /\ B(at) = 8 /\ at + 1 + 8 = data + 9 /\ at + 1 + 8 <= pos
    BY <1>3, <1>4, <1>5, <1>6
  <2>2. ~EndEntries
    <3>1. EndEntries => at + 1 + 8 > pos
      BY <2>1 DEF EndEntries
    <3>2. pos \in Nat /\ at + 1 + 8 \in Nat
      BY <1>3, <1>4, <1>6
    <3> QED
      BY <2>1, <3>1, <3>2
  <2>3. ReadEntry => AtEntries(s, answers, n)'
    <3> SUFFICES ASSUME ReadEntry
                 PROVE  AtEntries(s, answers, n)'
      OBVIOUS
    <3>1. /\ at' = at + 1 + 8
          /\ res' = [res EXCEPT !.txt = WithEntry(@, Text(Slice(at + 1, at + 1 + 8)))]
          /\ left' = left /\ pos' = pos
      BY <2>1 DEF ReadEntry
    <3>2. Slice(at + 1, at + 1 + 8) = FirstEntry
      <4>1. FirstEntry \in Seq(Nat) /\ Len(FirstEntry) = 8
        BY FirstEntryParts
      <4>2. Placed(s, at + 1, FirstEntry) /\ at + 1 + 8 <= Size
        BY <1>3, <1>4, <1>5, <1>6, <2>1
      <4>3. Slice(at + 1, at + 1 + Len(FirstEntry)) = FirstEntry
        BY <4>1, <4>2, SliceReceived
      <4> QED
        BY <4>1, <4>3
    <3>3. Text(FirstEntry) = FirstEntry
      BY TextOfAscii, FirstEntryParts
    <3>4. PICK o, i, p, t, g, o2, i2, p2, t2, g2 :
             Collected(answers, n, o, i, p, t, g, o2, i2, p2, t2, g2)
      BY <1>2, ReadShape
    <3>5. /\ Read(answers, n) = Rec(o, i, p, t, g)
          /\ Read(answers, n + 1) = Rec(o2, i2, p2, t2, g2)
          /\ t2 = TxtRead({Txtvers})
          /\ \E texts \in SUBSET {Txtvers} : t = TxtRead(texts)
      BY <1>1, <3>4, Zenon DEF Collected, a
    <3>6. WithEntry(t, FirstEntry) = t2
      BY <3>5, FirstEntryRead
    <3>7. Read(answers, n).txt = t
      <4>1. Read(answers, n) = Rec(o, i, p, t, g)
        BY <3>5
      <4> QED
        BY ONLY <4>1, RecParts
    <3>8. res = Rec(o2, i2, p2, t, g2)
      <4>1. Read(answers, n + 1) = Rec(o2, i2, p2, t2, g2)
        BY <3>5
      <4> QED
        BY ONLY <1>6, <3>7, <4>1, TxtChanged
    <3>9. res.txt = t
      BY ONLY <3>8, RecParts
    <3>10. res' = [res EXCEPT !.txt = t2]
      BY <3>1, <3>2, <3>3, <3>6, <3>9
    <3>11. res' = Rec(o2, i2, p2, t2, g2)
      BY ONLY <3>8, <3>10, TxtChanged
    <3>12. at' = data + 9
      BY <2>1, <3>1
    <3> QED
      BY <1>1, <3>1, <3>5, <3>11, <3>12 DEF AtEntries, AtRecordNumber, a, data
  <2> QED
    BY <2>2, <2>3
<1>7. CASE at = data + 9 /\ res = Read(answers, n + 1)
  <2>1. B(at) = 49 /\ at + 1 + 49 > pos
    BY <1>3, <1>4, <1>5, <1>7
  <2>2. at + 1 + 49 \in Nat /\ pos \in Nat
    BY <1>3, <1>4, <1>7
  <2>3. ~ReadEntry
    <3>1. ReadEntry => at + 1 + 49 <= pos
      BY <2>1 DEF ReadEntry
    <3> QED
      BY <2>1, <2>2, <3>1
  <2>4. EndEntries => AtAnswers(s, answers)'
    <3> SUFFICES ASSUME EndEntries
                 PROVE  AtAnswers(s, answers)'
      OBVIOUS
    <3>1. left' = left /\ pos' = pos /\ res' = res
      BY DEF EndEntries
    <3>2. n + 1 \in Nat /\ n + 1 <= Len(answers) /\ left' = Len(answers) - (n + 1)
      BY <1>1, <1>2, <3>1 DEF AtRecordNumber
    <3> QED
      BY <1>1, <1>7, <3>1, <3>2 DEF AtAnswers
  <2> QED
    BY <2>3, <2>4
<1> QED
  BY <1>1, <1>6, <1>7

------------------------------------------------------------------------------
(* The question, and its answer                                               *)

\* The labels of the question name up to here, none of them in a pointer.
Trail(V, p) ==
    /\ 12 \in V \cup {p}
    /\ \A q \in V : /\ q \in Nat /\ 12 <= q /\ q < p
                    /\ B(q) \in 1..191 /\ q + 1 + B(q) \in V \cup {p}

\* What skip_name will find where the question name is.
AtQuestion ==
    /\ start = 12
    /\ consumed = 0 => Trail(visited, at)
    /\ consumed # 0 => \E S : SkipSet(pkt, 12 + consumed, S)

\* Where the last of these labels ends, skip_name ends too.
LEMMA TrailSkips ==
    ASSUME NEW V, NEW p \in Nat, Trail(V, p), B(p) \notin 1..191,
           NEW e, e = IF IsPointer(B(p)) THEN p + 2 ELSE p + 1
    PROVE  12 <= p /\ SkipSet(pkt, e, V \cup {p})
<1>1. /\ 12 \in V \cup {p}
      /\ \A q \in V : /\ q \in Nat /\ 12 <= q /\ q < p
                      /\ B(q) \in 1..191 /\ q + 1 + B(q) \in V \cup {p}
  BY DEF Trail
<1>2. 12 <= p
  BY <1>1
<1>3. e \in Nat /\ p < e
  BY DEF IsPointer
<1>4. ASSUME NEW q \in V \cup {p}
      PROVE  /\ q \in Nat /\ 12 <= q /\ q < e
             /\ pkt[q + 1] \in 1..191 => q + 1 + pkt[q + 1] \in V \cup {p}
             /\ pkt[q + 1] \notin 1..191 => e = IF IsPointer(pkt[q + 1]) THEN q + 2 ELSE q + 1
  <2>1. CASE q = p
    <3>1. pkt[q + 1] = B(p)
      BY <2>1 DEF B
    <3> QED
      BY <1>2, <1>3, <2>1, <3>1
  <2>2. CASE q # p
    <3>1. q \in V
      BY <1>4, <2>2
    <3>2. q \in Nat /\ 12 <= q /\ q < p /\ B(q) \in 1..191 /\ q + 1 + B(q) \in V \cup {p}
      BY <1>1, <3>1
    <3>3. pkt[q + 1] = B(q)
      BY DEF B
    <3> QED
      BY <1>3, <3>2, <3>3
  <2> QED
    BY <2>1, <2>2
<1> QED
  BY <1>1, <1>2, <1>4 DEF SkipSet

\* The question name begins behind the header.
LEMMA QuestionStarts ==
    ASSUME BeginName(12)
    PROVE  AtQuestion'
BY DEF AtQuestion, Trail, BeginName

\* A label, or the first pointer, is where skip_name would be.
LEMMA QuestionGoesOn ==
    ASSUME AtQuestion, pc = "question", at \in Nat
    PROVE  (FollowPointer \/ ReadLabel) => AtQuestion'
<1>1. start = 12 /\ (consumed # 0 => \E S : SkipSet(pkt, 12 + consumed, S))
  BY DEF AtQuestion
<1>2. FollowPointer => AtQuestion'
  <2> SUFFICES ASSUME FollowPointer
               PROVE  AtQuestion'
    OBVIOUS
  <2>1. /\ B(at) >= 192 /\ IsPointer(B(at)) /\ start' = start /\ pkt' = pkt
        /\ consumed' = IF consumed = 0 THEN at + 2 - start ELSE consumed
    BY DEF FollowPointer, IsPointer
  <2>2. CASE consumed = 0
    <3>1. Trail(visited, at)
      BY <2>2 DEF AtQuestion
    <3>2. B(at) \notin 1..191
      BY <2>1
    <3>3. 12 <= at /\ SkipSet(pkt, at + 2, visited \cup {at})
      BY <2>1, <3>1, <3>2, TrailSkips
    <3>4. 12 + consumed' = at + 2 /\ consumed' # 0
      BY <1>1, <2>1, <2>2, <3>3
    <3> QED
      BY <1>1, <2>1, <3>3, <3>4 DEF AtQuestion
  <2>3. CASE consumed # 0
    BY <1>1, <2>1, <2>3 DEF AtQuestion
  <2> QED
    BY <2>2, <2>3
<1>3. ReadLabel => AtQuestion'
  <2> SUFFICES ASSUME ReadLabel
               PROVE  AtQuestion'
    OBVIOUS
  <2>1. /\ B(at) \in 1..191 /\ start' = start /\ pkt' = pkt /\ consumed' = consumed
        /\ visited' = visited \cup {at} /\ at' = at + 1 + B(at)
    BY DEF ReadLabel
  <2>2. CASE consumed = 0
    <3> DEFINE V == visited
               W == visited \cup {at}
               e == at + 1 + B(at)
    <3>1. /\ 12 \in V \cup {at}
          /\ \A q \in V : /\ q \in Nat /\ 12 <= q /\ q < at
                          /\ B(q) \in 1..191 /\ q + 1 + B(q) \in V \cup {at}
      BY <2>2 DEF AtQuestion, Trail
    <3>2. 12 <= at
      BY <3>1
    <3>3. at < e /\ e \in Nat
      BY <2>1
    <3>4. \A q \in W : /\ q \in Nat /\ 12 <= q /\ q < e
                       /\ B(q) \in 1..191 /\ q + 1 + B(q) \in W \cup {e}
      BY <2>1, <3>1, <3>2, <3>3
    <3>5. \A q : B(q)' = B(q)
      BY <2>1 DEF B
    <3>6. Trail(visited, at)'
      BY <2>1, <3>1, <3>4, <3>5 DEF Trail
    <3> QED
      BY <1>1, <2>1, <2>2, <3>6 DEF AtQuestion
  <2>3. CASE consumed # 0
    BY <1>1, <2>1, <2>3 DEF AtQuestion
  <2> QED
    BY <2>2, <2>3
<1> QED
  BY <1>2, <1>3

\* skip_name takes the same way through the same bytes in another packet.
LEMMA SkipSetMoves ==
    ASSUME NEW s, NEW t, NEW e, NEW S, SkipSet(s, e, S),
           \A p \in Nat : 12 <= p /\ p < e => s[p + 1] = t[p + 1]
    PROVE  SkipSet(t, e, S)
<1>1. 12 \in S
  BY DEF SkipSet
<1>2. ASSUME NEW p \in S
      PROVE  /\ p \in Nat /\ 12 <= p /\ p < e
             /\ t[p + 1] \in 1..191 => p + 1 + t[p + 1] \in S
             /\ t[p + 1] \notin 1..191 => e = IF IsPointer(t[p + 1]) THEN p + 2 ELSE p + 1
  <2>1. /\ p \in Nat /\ 12 <= p /\ p < e
        /\ s[p + 1] \in 1..191 => p + 1 + s[p + 1] \in S
        /\ s[p + 1] \notin 1..191 => e = IF IsPointer(s[p + 1]) THEN p + 2 ELSE p + 1
    BY DEF SkipSet
  <2>2. s[p + 1] = t[p + 1]
    BY <2>1
  <2> QED
    BY <2>1, <2>2
<1> QED
  BY <1>1, <1>2 DEF SkipSet

\* What is sliced out of a packet.
LEMMA SliceParts ==
    ASSUME pkt \in Seq(Byte), NEW i \in Nat, NEW j \in Nat, i <= j, j <= Size
    PROVE  /\ Slice(i, j) \in Seq(Nat) /\ Len(Slice(i, j)) = j - i
           /\ \A k \in 1..(j - i) : Slice(i, j)[k] = pkt[i + k]
<1>1. Len(pkt) \in Nat /\ j <= Len(pkt) /\ pkt \in Seq(Nat)
  <2>1. Byte \in SUBSET Nat
    BY DEF Byte
  <2> QED
    BY <2>1, NatSeq DEF Size
<1>2. SubSeq(pkt, i + 1, j) \in Seq(Nat) /\ Len(SubSeq(pkt, i + 1, j)) = j - i
  BY <1>1
<1>3. \A k \in 1..(j - i) : SubSeq(pkt, i + 1, j)[k] = pkt[i + k]
  <2>1. SubSeq(pkt, i + 1, j) = [k \in 1..(j - (i + 1) + 1) |-> pkt[k + (i + 1) - 1]]
    BY <1>1
  <2>2. j - (i + 1) + 1 = j - i
    OBVIOUS
  <2>3. \A k \in 1..(j - i) : k + (i + 1) - 1 = i + k
    OBVIOUS
  <2> QED
    BY <2>1, <2>2, <2>3
<1> QED
  BY <1>2, <1>3 DEF Slice

ReplyFramed == reply # NoReply => Framed(reply.bytes, reply.answers)

\* The answer echoes the question that was read, and is a packet of its answers.
LEMMA QuestionAnswered ==
    ASSUME AtQuestion, QuestionRead, pkt \in Seq(Byte), at \in Nat,
           consumed = 0 \/ consumed \in 1..(Size - start)
    PROVE  ReplyFramed'
<1> DEFINE q == 12 + Consumed
           answers == IF q + 4 > Size THEN <<>> ELSE AnswersTo(labels, Word(q))
           s == BuildResponse(Slice(0, 2), Slice(12, q + 4), answers)
<1>1. /\ AtRoot
      /\ reply' = IF answers = <<>> THEN NoReply
                  ELSE [bytes |-> s, answers |-> answers, unicast |-> B(q + 2) >= 128]
  BY DEF QuestionRead
<1>2. CASE answers = <<>>
  BY <1>1, <1>2 DEF ReplyFramed, NoReply
<1>3. CASE answers # <<>>
  <2>1. ~(q + 4 > Size) /\ AnswersTo(labels, Word(q)) # <<>> /\ answers = AnswersTo(labels, Word(q))
    BY <1>3
  <2>2. IsRecords(answers)
    BY <2>1, AnswersRecords
  <2> HIDE DEF answers
  <2>3. start = 12 /\ B(at) = 0
    BY <1>1 DEF AtQuestion, AtRoot
  <2>4. \E S : SkipSet(pkt, q, S)
    <3>1. CASE consumed = 0
      <4>1. Trail(visited, at)
        BY <3>1 DEF AtQuestion
      <4>2. q = at + 1
        BY <2>3, <3>1 DEF Consumed
      <4>3. B(at) \notin 1..191 /\ ~IsPointer(B(at))
        BY <2>3 DEF IsPointer
      <4> HIDE DEF q
      <4> QED
        BY <4>1, <4>2, <4>3, TrailSkips
    <3>2. CASE consumed # 0
      BY <3>2 DEF AtQuestion, Consumed
    <3> QED
      BY <3>1, <3>2
  <2>5. PICK S : SkipSet(pkt, q, S)
    BY <2>4
  <2>6. Size \in Nat
    BY LenProperties DEF Size
  <2>7. q \in Nat /\ 12 < q /\ q + 4 <= Size
    <3>1. q \in Nat
      BY <2>3, <2>6 DEF Consumed
    <3> HIDE DEF q
    <3>2. 12 < q
      BY <2>5 DEF SkipSet
    <3> QED
      BY <2>1, <2>6, <3>1, <3>2
  <2> HIDE DEF q
  <2> DEFINE id == Slice(0, 2)
             question == Slice(12, q + 4)
  <2>8. id \in Seq(Nat) /\ Len(id) = 2
    <3>1. 0 \in Nat /\ 2 \in Nat /\ 0 <= 2 /\ 2 <= Size /\ 2 - 0 = 2
      BY <2>6, <2>7
    <3> QED
      BY <3>1, SliceParts
  <2>9. /\ question \in Seq(Nat) /\ Len(question) = q + 4 - 12
        /\ \A k \in 1..(q + 4 - 12) : question[k] = pkt[12 + k]
    <3> DEFINE j == q + 4
    <3>1. 12 \in Nat /\ j \in Nat /\ 12 <= j /\ j <= Size
      BY <2>7
    <3> HIDE DEF j
    <3>2. /\ Slice(12, j) \in Seq(Nat) /\ Len(Slice(12, j)) = j - 12
          /\ \A k \in 1..(j - 12) : Slice(12, j)[k] = pkt[12 + k]
      BY <3>1, SliceParts
    <3>3. question = Slice(12, j) /\ q + 4 = j
      BY DEF j
    <3> HIDE DEF question
    <3>4. /\ question \in Seq(Nat) /\ Len(question) = j - 12
          /\ \A k \in 1..(j - 12) : question[k] = pkt[12 + k]
      BY <3>2, <3>3
    <3>5. q + 4 - 12 = j - 12
      BY <2>7, <3>3
    <3> QED
      BY <3>4, <3>5, Zenon
  <2> HIDE DEF id, question
  <2>10. Placed(s, 12, question)
    BY <2>2, <2>8, <2>9, ResponseBuilt, RecordsTyped DEF id, question
  <2> HIDE DEF s
  <2>11. \A p \in Nat : 12 <= p /\ p < q => pkt[p + 1] = s[p + 1]
    <3> SUFFICES ASSUME NEW p \in Nat, 12 <= p, p < q
                 PROVE  pkt[p + 1] = s[p + 1]
      OBVIOUS
    <3> DEFINE k == p + 1 - 12
    <3>1. k \in 1..(q + 4 - 12) /\ 12 + k = p + 1
      BY <2>7
    <3>2. question[k] = pkt[12 + k] /\ s[12 + k] = question[k]
      BY <2>9, <2>10, <3>1 DEF Placed
    <3> QED
      BY <3>1, <3>2
  <2>12. SkipSet(s, q, S)
    BY <2>5, <2>11, SkipSetMoves
  <2>13. 12 + Len(question) - 4 = q
    BY <2>7, <2>9
  <2>14. Framed(s, answers)
    <3>1. \E T : SkipSet(s, 12 + Len(question) - 4, T)
      BY <2>12, <2>13
    <3> QED
      BY <1>3, <2>2, <2>8, <2>9, <3>1, BuiltFramed DEF s, id, question
  <2>15. reply'.bytes = s /\ reply'.answers = answers
    BY <1>1, <1>3
  <2> QED
    BY <2>14, <2>15 DEF ReplyFramed
<1> QED
  BY <1>2, <1>3

------------------------------------------------------------------------------
(* Every step                                                                 *)

\* Wherever the reader is, it has collected what the answers before it say.
Reading(s, answers) ==
    /\ pc = "received" => res = Nothing
    /\ pc = "questions" => AtQuestions(s, answers)
    /\ pc = "skip" => AtSkip(s, answers)
    /\ pc = "answers" => AtAnswers(s, answers)
    /\ pc = "owner" => \E n : AtOwner(s, answers, n)
    /\ pc = "record" => \E n : AtRecord(s, answers, n)
    /\ pc = "instance" => \E n : AtInstance(s, answers, n)
    /\ pc = "entries" => \E n : AtEntries(s, answers, n)
    /\ pc = "respond" => AtEnd(answers)

\* Of a query nothing is read.
ReadingNone ==
    /\ made.kind = "whole"
    /\ Size >= 8 => B(6) = 0 /\ B(7) = 0
    /\ pc \in {"received", "questions", "skip", "answers", "respond"} => res = Nothing
    /\ pc = "answers" => left = 0
    /\ pc \notin {"owner", "record", "instance", "entries"}

ReadsBackInv ==
    /\ made.kind # "other" /\ made.answers # <<>> =>
          \E s : Receives(s, made.answers) /\ Reading(s, made.answers)
    /\ made.kind # "other" /\ made.answers = <<>> => ReadingNone
    /\ pc = "question" => AtQuestion
    /\ ReplyFramed

\* The places in the code that a step leads to from each.
LEMMA NameStepReads ==
    ASSUME NEW s, NEW answers, Receives(s, answers), Reading(s, answers), WalkInv, NameStep
    PROVE  Reading(s, answers)'
<1>1. CASE pc = "owner"
  <2>1. PICK n : AtOwner(s, answers, n)
    BY <1>1 DEF Reading
  <2>2. /\ ReadLabel => AtOwner(s, answers, n)'
        /\ OwnerRead => AtRecord(s, answers, n)'
        /\ NameFails => AtEnd(answers)'
        /\ ~FollowPointer
    BY <1>1, <2>1, OwnerReads
  <2>3. CASE ReadLabel
    <3>1. pc' = "owner"
      BY <1>1, <2>3 DEF ReadLabel
    <3> QED
      BY <2>2, <2>3, <3>1 DEF Reading
  <2>4. CASE OwnerRead
    <3>1. pc' = "record"
      BY <2>4 DEF OwnerRead
    <3> QED
      BY <2>2, <2>4, <3>1 DEF Reading
  <2>5. CASE NameFails
    <3>1. pc' = "respond"
      BY <1>1, <2>5 DEF NameFails
    <3> QED
      BY <2>2, <2>5, <3>1 DEF Reading
  <2>6. ~InstanceRead /\ ~QuestionRead
    BY <1>1 DEF InstanceRead, QuestionRead
  <2> QED
    BY <2>2, <2>3, <2>4, <2>5, <2>6 DEF NameStep
<1>2. CASE pc = "instance"
  <2>1. PICK n : AtInstance(s, answers, n)
    BY <1>2 DEF Reading
  <2>2. pos <= Size
    <3>1. pos \in 12..Size
      BY <1>2 DEF WalkInv, Inside, Walking
    <3> QED
      BY <3>1, BytesReceived
  <2>3. /\ ReadLabel => AtInstance(s, answers, n)'
        /\ InstanceRead => AtAnswers(s, answers)'
        /\ ~NameFails
        /\ ~FollowPointer
    BY <1>2, <2>1, <2>2, InstanceReads
  <2>4. CASE ReadLabel
    <3>1. pc' = "instance"
      BY <1>2, <2>4 DEF ReadLabel
    <3> QED
      BY <2>3, <2>4, <3>1 DEF Reading
  <2>5. CASE InstanceRead
    <3>1. pc' = "answers"
      BY <2>5 DEF InstanceRead
    <3> QED
      BY <2>3, <2>5, <3>1 DEF Reading
  <2>6. ~OwnerRead /\ ~QuestionRead
    BY <1>2 DEF OwnerRead, QuestionRead
  <2> QED
    BY <2>3, <2>4, <2>5, <2>6 DEF NameStep
<1>3. CASE pc = "question"
  <2>1. pc' \in {"question", "done"}
    <3>1. FollowPointer => pc' = pc
      BY DEF FollowPointer
    <3>2. ReadLabel => pc' = pc
      BY DEF ReadLabel
    <3>3. QuestionRead => pc' = "done"
      BY DEF QuestionRead
    <3>4. NameFails => pc' = "done"
      BY <1>3 DEF NameFails
    <3>5. ~OwnerRead /\ ~InstanceRead
      BY <1>3 DEF OwnerRead, InstanceRead
    <3> QED
      BY <1>3, <3>1, <3>2, <3>3, <3>4, <3>5 DEF NameStep
  <2> QED
    BY <2>1 DEF Reading
<1>4. pc \in {"owner", "instance", "question"}
  BY DEF NameStep, FollowPointer, ReadLabel, OwnerRead, InstanceRead, QuestionRead, NameFails,
         InName
<1> QED
  BY <1>1, <1>2, <1>3, <1>4

LEMMA StepReads ==
    ASSUME NEW s, NEW answers, Receives(s, answers), Reading(s, answers), WalkInv,
           PacketNext, ~NameStep, ~ReplyArrives
    PROVE  Reading(s, answers)'
<1>0. Walking => pos \in 12..Size /\ pos <= Size
  <2>1. Walking => pos \in 12..Size
    BY DEF WalkInv, Inside
  <2> QED
    BY <2>1, BytesReceived
<1>1. CASE BeginParse
  <2>1. res = Nothing
    BY <1>1 DEF BeginParse, Reading
  <2>2. \/ pc' = "questions" /\ AtQuestions(s, answers)'
        \/ pc' = "respond" /\ AtEnd(answers)'
    BY <1>1, <2>1, BeginParseReads
  <2> QED
    BY <2>2 DEF Reading
<1>2. CASE BeginSkip
  <2>1. AtQuestions(s, answers) /\ pc' = "skip"
    BY <1>2 DEF BeginSkip, Reading
  <2>2. AtSkip(s, answers)'
    BY <1>2, <2>1, BeginSkipReads
  <2> QED
    BY <2>1, <2>2 DEF Reading
<1>3. CASE SkipLabel \/ SkipEnds \/ SkipFails
  <2>1. AtSkip(s, answers)
    BY <1>3 DEF SkipLabel, SkipEnds, SkipFails, Reading
  <2>2. /\ SkipLabel => AtSkip(s, answers)'
        /\ SkipEnds => AtQuestions(s, answers)'
        /\ ~SkipFails
    BY <2>1, SkipReads
  <2>3. /\ SkipLabel => pc' = "skip"
        /\ SkipEnds => pc' = "questions"
    BY DEF SkipLabel, SkipEnds
  <2>4. \/ pc' = "skip" /\ AtSkip(s, answers)'
        \/ pc' = "questions" /\ AtQuestions(s, answers)'
    BY <1>3, <2>2, <2>3
  <2> QED
    BY <2>4 DEF Reading
<1>4. CASE BeginAnswers
  <2>1. AtQuestions(s, answers) /\ pc' = "answers" /\ Walking
    BY <1>4 DEF BeginAnswers, Reading, Walking
  <2>2. AtAnswers(s, answers)'
    BY <1>0, <1>4, <2>1, BeginAnswersReads
  <2> QED
    BY <2>1, <2>2 DEF Reading
<1>5. CASE BeginAnswer
  <2>1. AtAnswers(s, answers) /\ pc' = "owner"
    BY <1>5 DEF BeginAnswer, Reading
  <2>2. \E n : AtOwner(s, answers, n)'
    BY <1>5, <2>1, BeginAnswerReads
  <2> QED
    BY <2>1, <2>2 DEF Reading
<1>6. CASE EndAnswers
  <2>1. AtAnswers(s, answers) /\ pc' = "respond"
    BY <1>6 DEF EndAnswers, Reading
  <2>2. AtEnd(answers)'
    BY <1>6, <2>1, EndAnswersReads
  <2> QED
    BY <2>1, <2>2 DEF Reading
<1>7. CASE ReadRecord
  <2>1. PICK n : AtRecord(s, answers, n)
    BY <1>7 DEF ReadRecord, Reading
  <2>2. \/ pc' = "respond" /\ AtEnd(answers)'
        \/ pc' = "instance" /\ AtInstance(s, answers, n)'
        \/ pc' = "entries" /\ AtEntries(s, answers, n)'
        \/ pc' = "answers" /\ AtAnswers(s, answers)'
    BY <1>7, <2>1, RecordReads
  <2> QED
    BY <2>2 DEF Reading
<1>8. CASE RecordCutOff
  <2>1. PICK n : AtRecord(s, answers, n)
    BY <1>8 DEF RecordCutOff, Reading
  <2>2. AtEnd(answers)' /\ pc' = "respond"
    BY <1>8, <2>1, RecordCutOffReads DEF RecordCutOff
  <2> QED
    BY <2>2 DEF Reading
<1>9. CASE ReadEntry \/ EndEntries
  <2>1. PICK n : AtEntries(s, answers, n)
    BY <1>9 DEF ReadEntry, EndEntries, Reading
  <2>2. pc = "entries" /\ pos <= Size
    BY <1>0, <1>9 DEF ReadEntry, EndEntries, Walking
  <2>3. /\ ReadEntry => AtEntries(s, answers, n)'
        /\ EndEntries => AtAnswers(s, answers)'
    BY <2>1, <2>2, EntriesRead
  <2>4. /\ ReadEntry => pc' = "entries"
        /\ EndEntries => pc' = "answers"
    BY <2>2 DEF ReadEntry, EndEntries
  <2>5. \/ pc' = "entries" /\ AtEntries(s, answers, n)'
        \/ pc' = "answers" /\ AtAnswers(s, answers)'
    BY <1>9, <2>3, <2>4
  <2> QED
    BY <2>5 DEF Reading
<1>10. CASE BeginRespond
  <2>1. pc' \in {"done", "question"}
    BY <1>10 DEF BeginRespond
  <2> QED
    BY <2>1 DEF Reading
<1> QED
  BY <1>1, <1>2, <1>3, <1>4, <1>5, <1>6, <1>7, <1>8, <1>9, <1>10 DEF PacketNext

\* Only an answer that arrives is another packet.
LEMMA KeepsPacket ==
    ASSUME PacketNext, ~ReplyArrives
    PROVE  pkt' = pkt /\ made' = made
<1>1. NameStep => pkt' = pkt /\ made' = made
  BY DEF NameStep, FollowPointer, ReadLabel, OwnerRead, InstanceRead, QuestionRead, NameFails
<1>2. ~NameStep => pkt' = pkt /\ made' = made
  BY DEF PacketNext, BeginParse, BeginSkip, SkipLabel, SkipEnds, SkipFails, BeginAnswers,
         BeginAnswer, EndAnswers, ReadRecord, RecordCutOff, ReadEntry, EndEntries, BeginRespond
<1> QED
  BY <1>1, <1>2

\* A query is read to its end without an answer.
LEMMA NoneRead ==
    ASSUME ReadingNone, WalkInv, PacketNext, ~ReplyArrives
    PROVE  ReadingNone'
<1>1. pkt' = pkt /\ made' = made
  BY KeepsPacket
<1>2. /\ made.kind = "whole"
      /\ Size >= 8 => B(6) = 0 /\ B(7) = 0
      /\ pc \in {"received", "questions", "skip", "answers", "respond"} => res = Nothing
      /\ pc = "answers" => left = 0
      /\ pc \notin {"owner", "record", "instance", "entries"}
  BY DEF ReadingNone
<1>3. made'.kind = "whole" /\ (Size' >= 8 => B(6)' = 0 /\ B(7)' = 0)
  BY <1>1, <1>2 DEF Size, B
<1>4. /\ pc' \in {"received", "questions", "skip", "answers", "respond"} => res' = Nothing
      /\ pc' = "answers" => left' = 0
      /\ pc' \notin {"owner", "record", "instance", "entries"}
  <2>1. CASE NameStep
    <3>1. pc = "question"
      BY <1>2, <2>1 DEF NameStep, FollowPointer, ReadLabel, OwnerRead, InstanceRead,
         QuestionRead, NameFails, InName
    <3>2. pc' \in {"question", "done"}
      BY <2>1, <3>1 DEF NameStep, FollowPointer, ReadLabel, OwnerRead, InstanceRead,
         QuestionRead, NameFails
    <3> QED
      BY <3>2
  <2>2. CASE BeginParse \/ BeginSkip \/ SkipLabel \/ SkipEnds \/ SkipFails
    BY <1>2, <2>2 DEF BeginParse, BeginSkip, SkipLabel, SkipEnds, SkipFails
  <2>3. CASE BeginAnswers
    <3>1. pc = "questions" /\ pc' = "answers" /\ left' = Word(6) /\ res' = res
      BY <2>3 DEF BeginAnswers
    <3>2. pos \in 12..Size
      BY <3>1 DEF WalkInv, Inside, Walking
    <3>3. Size \in Nat
      BY LenProperties DEF WalkInv, Size
    <3>4. Size >= 8
      BY <3>2, <3>3
    <3>5. Word(6) = 0
      <4>1. B(6) = 0 /\ B(6 + 1) = 0
        BY <1>2, <3>4
      <4> QED
        BY <4>1 DEF Word
    <3> QED
      BY <1>2, <3>1, <3>5
  <2>4. CASE EndAnswers \/ BeginRespond
    BY <1>2, <2>4 DEF EndAnswers, BeginRespond
  <2>5. /\ ~BeginAnswer /\ ~ReadRecord /\ ~RecordCutOff /\ ~ReadEntry /\ ~EndEntries
    <3>1. ~BeginAnswer
      <4>1. BeginAnswer => left = 0 /\ left > 0
        BY <1>2 DEF BeginAnswer
      <4> QED
        BY <4>1
    <3> QED
      BY <1>2, <3>1 DEF ReadRecord, RecordCutOff, ReadEntry, EndEntries
  <2> QED
    BY <2>1, <2>2, <2>3, <2>4, <2>5 DEF PacketNext
<1> QED
  BY <1>3, <1>4 DEF ReadingNone

\* What the reader of a question remembers.
LEMMA QuestionNext ==
    ASSUME pc = "question" => AtQuestion, WalkInv, PacketNext
    PROVE  pc' = "question" => AtQuestion'
<1>1. CASE FollowPointer \/ ReadLabel
  <2>1. pc' = pc
    BY <1>1 DEF FollowPointer, ReadLabel
  <2>2. CASE pc = "question"
    <3>1. at \in Nat
      BY <2>2 DEF WalkInv, Inside, InName
    <3> QED
      BY <1>1, <2>2, <3>1, QuestionGoesOn
  <2> QED
    BY <2>1, <2>2
<1>2. CASE BeginRespond
  <2>1. pc' = "question" => BeginName(12)
    BY <1>2 DEF BeginRespond
  <2> QED
    BY <2>1, QuestionStarts
<1>3. CASE OwnerRead \/ InstanceRead \/ QuestionRead
  BY <1>3 DEF OwnerRead, InstanceRead, QuestionRead
<1>4. CASE NameFails
  <2>1. pc \in {"owner", "instance", "question"}
    BY <1>4 DEF NameFails, InName
  <2> QED
    BY <1>4, <2>1 DEF NameFails
<1>5. CASE BeginParse \/ BeginSkip \/ SkipLabel \/ SkipEnds \/ SkipFails \/ BeginAnswers
              \/ BeginAnswer \/ EndAnswers
  BY <1>5 DEF BeginParse, BeginSkip, SkipLabel, SkipEnds, SkipFails, BeginAnswers,
              BeginAnswer, EndAnswers
<1>6. CASE RecordCutOff \/ ReadEntry \/ EndEntries \/ ReplyArrives
  BY <1>6 DEF RecordCutOff, ReadEntry, EndEntries, ReplyArrives
<1>7. CASE ReadRecord
  <2>1. pc' \in {"respond", "instance", "entries", "answers"}
    BY <1>7 DEF ReadRecord
  <2> QED
    BY <2>1
<1> QED
  BY <1>1, <1>2, <1>3, <1>4, <1>5, <1>6, <1>7 DEF PacketNext, NameStep

\* What it answers is a packet of answers.
LEMMA ReplyNext ==
    ASSUME ReplyFramed, pc = "question" => AtQuestion, WalkInv, PacketNext
    PROVE  ReplyFramed'
<1>1. CASE QuestionRead
  <2>1. pc = "question" /\ InName
    BY <1>1 DEF QuestionRead, InName
  <2>2. /\ pkt \in Seq(Byte) /\ at \in Nat
        /\ IF consumed = 0 THEN at \in start..Size ELSE consumed \in 1..(Size - start)
    BY <2>1 DEF WalkInv, Inside
  <2> QED
    BY <1>1, <2>1, <2>2, QuestionAnswered
<1>2. CASE ReplyArrives
  BY <1>2 DEF ReplyArrives, ReplyFramed
<1>3. CASE reply' = reply
  BY <1>3 DEF ReplyFramed
<1>4. NameStep /\ ~QuestionRead => reply' = reply
  BY DEF NameStep, FollowPointer, ReadLabel, OwnerRead, InstanceRead, NameFails
<1>5. ~NameStep /\ ~ReplyArrives => reply' = reply
  BY DEF PacketNext, BeginParse, BeginSkip, SkipLabel, SkipEnds, SkipFails, BeginAnswers,
         BeginAnswer, EndAnswers, ReadRecord, RecordCutOff, ReadEntry, EndEntries, BeginRespond
<1> QED
  BY <1>1, <1>2, <1>3, <1>4, <1>5

\* What is sent begins with what arrives of it.
LEMMA SentArrives ==
    ASSUME NEW a \in Arrivals, a.kind # "other", a.answers # <<>>, made = a, pkt = a.bytes
    PROVE  \E s : Receives(s, a.answers)
<1> DEFINE answers == a.answers
           s == BuildResponse(U16(0), <<>>, answers)
           ttl == answers[1].ttl
<1>1. a.bytes \in Seq(Byte) /\ a.kind \in Wholeness
  BY DnsConstants
<1>2. /\ ttl \in Words /\ answers = ServiceAnswers(Device, ttl)
      /\ a.bytes = SubSeq(s, 1, Len(a.bytes)) /\ Len(a.bytes) <= Len(s)
      /\ a.kind = "whole" => a.bytes = s
  BY ArrivalsAsBuilt
<1>3. IsRecords(answers) /\ answers # <<>>
  <2> HIDE DEF answers, ttl
  <2> QED
    BY <1>2, ServiceAnswersRecords
<1>4. U16(0) \in Seq(Nat) /\ Len(U16(0)) = 2
  BY SmallWords, U16Typed
<1>5. <<>> \in Seq(Nat) /\ Len(<<>>) = 0
  OBVIOUS
<1>6. Framed(s, answers) /\ AnswerAt(s, answers, 0) = 12
  <2>1. Framed(s, answers) /\ AnswerAt(s, answers, 0) = 12 + Len(<<>>)
    <3> HIDE DEF answers
    <3> QED
      BY <1>3, <1>4, <1>5, BuiltFramed
  <2> QED
    BY <1>5, <2>1
<1>7. Placed(s, 0, pkt)
  <2>1. s \in Seq(Nat)
    BY <1>6 DEF Framed
  <2>2. Len(s) \in Nat /\ Len(pkt) \in Nat
    BY <1>1, <2>1, LenProperties
  <2>3. Len(pkt) <= Len(s) /\ pkt = SubSeq(s, 1, Len(pkt))
    BY <1>2
  <2>4. ASSUME NEW i \in 1..Len(pkt) PROVE s[0 + i] = pkt[i]
    <3> HIDE DEF s
    <3>1. i <= Len(pkt) /\ i \in Nat /\ 1 <= i
      BY <2>2
    <3>2. SubSeq(s, 1, Len(pkt))[i] = s[i]
      <4>1. \A k \in 1..Len(pkt) : SubSeq(s, 1, Len(pkt))[k] = s[1 + k - 1]
        BY <2>1, <2>2, <2>3
      <4>2. SubSeq(s, 1, Len(pkt))[i] = s[1 + i - 1] /\ 1 + i - 1 = i
        BY <4>1, <3>1
      <4> QED
        BY <4>2
    <3> QED
      BY <2>3, <3>1, <3>2
  <2> HIDE DEF s
  <2> QED
    BY <2>2, <2>3, <2>4 DEF Placed
<1>8. Made
  BY <1>1 DEF Made, Wholeness
<1> HIDE DEF s
<1>9. Receives(s, a.answers)
  BY <1>1, <1>2, <1>6, <1>7, <1>8 DEF Receives
<1> QED
  BY <1>9

\* The invariant holds of every arrival.
LEMMA ReadsBackBegins == PacketInit => ReadsBackInv
<1> SUFFICES ASSUME PacketInit
             PROVE  ReadsBackInv
  OBVIOUS
<1>1. made \in Arrivals /\ pkt = made.bytes /\ pc = "received" /\ res = Nothing /\ reply = NoReply
  BY DEF PacketInit
<1>2. ASSUME made.kind # "other", made.answers # <<>>
      PROVE  \E s : Receives(s, made.answers) /\ Reading(s, made.answers)
  <2>1. PICK s : Receives(s, made.answers)
    BY <1>1, <1>2, SentArrives
  <2>2. Reading(s, made.answers)
    BY <1>1 DEF Reading
  <2> QED
    BY <2>1, <2>2
<1>3. ASSUME made.kind # "other", made.answers = <<>>
      PROVE  ReadingNone
  <2>1. made.kind = "whole" /\ (Len(made.bytes) >= 8 => made.bytes[7] = 0 /\ made.bytes[8] = 0)
    BY <1>1, <1>3, ArrivalsAsBuilt
  <2>2. Size >= 8 => B(6) = 0 /\ B(7) = 0
    BY <1>1, <2>1 DEF Size, B
  <2> QED
    BY <1>1, <2>1, <2>2 DEF ReadingNone
<1> QED
  BY <1>1, <1>2, <1>3 DEF ReadsBackInv, ReplyFramed

\* Every step keeps it.
LEMMA ReadsBackNext == ReadsBackInv /\ WalkInv /\ [PacketNext]_packetVars => ReadsBackInv'
<1> SUFFICES ASSUME ReadsBackInv, WalkInv, [PacketNext]_packetVars
             PROVE  ReadsBackInv'
  OBVIOUS
<1>1. /\ made.kind # "other" /\ made.answers # <<>> =>
            \E s : Receives(s, made.answers) /\ Reading(s, made.answers)
      /\ made.kind # "other" /\ made.answers = <<>> => ReadingNone
      /\ pc = "question" => AtQuestion
      /\ ReplyFramed
  BY DEF ReadsBackInv
<1>2. CASE PacketNext /\ ~ReplyArrives
  <2>1. pkt' = pkt /\ made' = made
    BY <1>2, KeepsPacket
  <2>2. (pc = "question" => AtQuestion)' /\ ReplyFramed'
    BY <1>1, <1>2, QuestionNext, ReplyNext
  <2>3. ASSUME made.kind # "other", made.answers # <<>>
        PROVE  (\E s : Receives(s, made.answers) /\ Reading(s, made.answers))'
    <3>1. PICK s : Receives(s, made.answers) /\ Reading(s, made.answers)
      BY <1>1, <2>3
    <3>2. PICK answers : answers = made.answers
      OBVIOUS
    <3>3. Reading(s, answers)'
      BY <1>2, <3>1, <3>2, NameStepReads, StepReads
    <3>4. Receives(s, answers)'
      BY <2>1, <3>1, <3>2 DEF Receives, Made
    <3> QED
      BY <2>1, <3>2, <3>3, <3>4
  <2>4. ASSUME made.kind # "other", made.answers = <<>>
        PROVE  ReadingNone'
    BY <1>1, <1>2, <2>4, NoneRead
  <2> QED
    BY <2>1, <2>2, <2>3, <2>4 DEF ReadsBackInv
<1>3. CASE ReplyArrives
  <2>1. /\ reply # NoReply /\ reply.bytes \in Seq(Byte) /\ pkt' = reply.bytes
        /\ made' = [bytes |-> reply.bytes, kind |-> "whole", answers |-> reply.answers]
        /\ res' = Nothing /\ pc' = "received" /\ reply' = NoReply
    BY <1>3 DEF ReplyArrives
  <2>2. Framed(reply.bytes, reply.answers)
    BY <1>1, <2>1 DEF ReplyFramed
  <2>3. made'.kind = "whole" /\ made'.answers = reply.answers
    BY <2>1
  <2>4. Placed(reply.bytes, 0, reply.bytes)
    BY <2>1, PlacedFirst
  <2>5. PICK s, answers : s = reply.bytes /\ answers = reply.answers
    OBVIOUS
  <2>6. Receives(s, answers)'
    BY <2>1, <2>2, <2>3, <2>4, <2>5 DEF Receives, Made
  <2>7. Reading(s, answers)'
    BY <2>1 DEF Reading
  <2>8. answers # <<>> /\ made'.answers = answers
    BY <2>2, <2>3, <2>5 DEF Framed
  <2>9. (\E t : Receives(t, made.answers) /\ Reading(t, made.answers))'
    BY <2>6, <2>7, <2>8
  <2> QED
    BY <2>1, <2>8, <2>9 DEF ReadsBackInv, ReplyFramed
<1>4. CASE UNCHANGED packetVars
  <2>1. UNCHANGED <<pkt, made, pc, left, pos, start, at, visited, labels, consumed, res, reply>>
    BY <1>4 DEF packetVars, walk
  <2>2. Size' = Size /\ \A i : B(i)' = B(i)
    BY <2>1 DEF Size, B
  <2>3. ReadingNone => ReadingNone'
    BY <2>1, <2>2 DEF ReadingNone
  <2>4. AtQuestion => AtQuestion'
    BY <2>1, <2>2 DEF AtQuestion, Trail
  <2>5. ReplyFramed'
    BY <1>1, <2>1 DEF ReplyFramed
  <2>6. ASSUME NEW s, NEW answers, Receives(s, answers), Reading(s, answers)
        PROVE  Receives(s, answers)' /\ Reading(s, answers)'
    <3>1. Receives(s, answers)'
      BY <2>1, <2>6 DEF Receives, Made
    <3>2. Reading(s, answers)'
      BY <2>1, <2>6 DEF Reading, AtQuestions, AtSkip, AtAnswers, AtOwner, AtRecord, AtInstance,
         AtEntries, AtRecordNumber, AtEnd, NameAt
    <3> QED
      BY <3>1, <3>2
  <2>7. ASSUME made.kind # "other", made.answers # <<>>
        PROVE  (\E s : Receives(s, made.answers) /\ Reading(s, made.answers))'
    <3>1. PICK s : Receives(s, made.answers) /\ Reading(s, made.answers)
      BY <1>1, <2>7
    <3>2. PICK answers : answers = made.answers
      OBVIOUS
    <3>3. Receives(s, answers)' /\ Reading(s, answers)'
      BY <2>6, <3>1, <3>2
    <3> QED
      BY <2>1, <3>2, <3>3
  <2> QED
    BY <1>1, <2>1, <2>3, <2>4, <2>5, <2>7 DEF ReadsBackInv
<1> QED
  BY <1>2, <1>3, <1>4

\* At the end it says what is read.
LEMMA ReadsBackHolds == ReadsBackInv => ReadsBack
<1> SUFFICES ASSUME ReadsBackInv, pc = "respond", made.kind \in {"whole", "part"}
             PROVE  AtEnd(made.answers)
  BY DEF AtEnd, Ends, ReadsBack
<1>1. made.kind # "other"
  OBVIOUS
<1>2. CASE made.answers # <<>>
  BY <1>1, <1>2 DEF ReadsBackInv, Reading
<1>3. CASE made.answers = <<>>
  <2>1. made.kind = "whole" /\ res = Nothing
    BY <1>1, <1>3 DEF ReadsBackInv, ReadingNone
  <2>2. Len(<<>>) = 0
    OBVIOUS
  <2>3. Read(<<>>, 0) = Result(<<>>) /\ Read(<<>>, 0) = Nothing
    BY <2>2, NoRecords, ReadAll, ReadBegin
  <2>4. res = Result(made.answers)
    BY <1>3, <2>1, <2>3
  <2>5. "whole" # "part"
    OBVIOUS
  <2> QED
    BY <2>1, <2>4, <2>5 DEF AtEnd, Ends
<1> QED
  BY <1>2, <1>3

\* A whole packet of this program, an announcement, a goodbye or the answer to any query,
\* reads as what it was built from but for its TXT data, and of a beginning of one no
\* record is read that is not whole (encode_name, build_response, service_answers and
\* txt_record against parse_discovery_response, skip_name and read_name,
\* mdns.rs:125-135, 214-411, 892-985).
THEOREM ReadsBackInvariant == PacketSpec => []ReadsBack
<1>1. PacketInit => WalkInv
  BY DnsConstants DEF PacketInit, WalkInv, Inside, InName, Walking
<1> QED
  BY <1>1, WalkInvNext, ReadsBackBegins, ReadsBackNext, ReadsBackHolds, PTL DEF PacketSpec
=============================================================================
