---------------------------- MODULE ScpSinkProofs ----------------------------
(* Proofs about ScpSink, for sessions of any length and files of any size. *)
EXTENDS ScpSink, SequenceTheorems, FiniteSetTheorems, TLAPS

Kinds == {"C", "B", "D", "E", "T", "W"}

\* The records of a session are records.
LEMMA RecordTyped ==
    ASSUME session \in Seq(Record), NEW i \in 1..Len(session)
    PROVE  session[i].kind \in Kinds /\ session[i].size \in Nat
<1>1. session[i] \in Record
  BY ElementOfSeq
<1> QED
  BY <1>1 DEF Record, Kinds

\* A session begins with the sink about to acknowledge.
LEMMA InitInStep == Init => InStep
<1> SUFFICES ASSUME Init PROVE InStep
  OBVIOUS
<1>1. session \in Seq(Record) /\ Len(session) \in Nat
  BY ScpConstants, LenProperties DEF Init
<1>2. TypeOK
  BY <1>1 DEF Init, TypeOK
<1> QED
  BY <1>2 DEF Init, InStep, Framing, Turns, Counts, Writing, Running

\* Every step keeps the sink in step: one step of the proof per action.
LEMMA NextInStep == InStep /\ [Next]_vars => InStep'
<1> SUFFICES ASSUME TypeOK, Framing, Turns, Counts, Writing, [Next]_vars
             PROVE  InStep'
  BY DEF InStep
<1> USE DEF InStep, TypeOK, source, sink
<1>0. session \in Seq(Record) /\ Len(session) \in Nat
  BY LenProperties
<1>r. \A i \in 1..Len(session) : session[i].kind \in Kinds /\ session[i].size \in Nat
  BY <1>0, RecordTyped
<1>1. CASE PeerWrites
  <2> USE <1>1, <1>0, <1>r DEF PeerWrites
  <2>1. /\ session[at].kind \in Kinds /\ session[at].size \in Nat
        /\ at' \in 1..(Len(session) + 1) /\ off' \in Nat
        /\ off' > 0 => at' <= Len(session)
    BY DEF PeerAdvances
  <2>2. TypeOK'
    BY <2>1
  <2>3. Framing'
    BY DEF Framing, IsFile, AfterText, Rec
  <2>4. Turns'
    <3>1. pc \in {"line", "create", "payload", "flush", "trailer", "ack"}
      BY DEF Turns, Running
    <3>2. pc' = pc /\ byte' = byte /\ item' = item /\ acks' = acks /\ Rec' = Rec
      BY DEF Rec
    <3>3. \/ /\ at' = at /\ off' = off + 1
             /\ mode' = (IF off = 0 THEN "wait" ELSE "write")
             /\ \/ session[at].kind = "C" /\ off # session[at].size + 1
                \/ session[at].kind = "B" /\ off # session[at].size + 2
                \/ session[at].kind \in {"D", "E", "T", "W"} /\ off # 0
          \/ /\ at' = at + 1 /\ off' = 0
             /\ mode' = (IF session[at].kind = "W" THEN "write" ELSE "wait")
             /\ \/ session[at].kind = "C" /\ off = session[at].size + 1
                \/ session[at].kind = "B" /\ off = session[at].size + 2
                \/ session[at].kind \in {"D", "E", "T", "W"} /\ off = 0
      BY ONLY <1>1, <2>1 DEF PeerWrites, PeerAdvances, AtEnd, Kinds
    <3>k. /\ session[at].kind \in Kinds /\ session[at].size \in Nat
          /\ at <= Len(session) /\ session' = session /\ mode = "write" /\ Len(session) \in Nat
          /\ at \in Nat /\ off \in Nat /\ item \in Nat /\ byte \in Nat /\ acks \in {0, 1}
      BY <2>1
    <3>4. ASSUME pc = "line", byte = 0
          PROVE  Turns'
      <4>1. CASE at = item /\ off = 0 /\ acks = 0
        BY ONLY <4>1, <3>2, <3>3, <3>4, <3>k DEF Turns, IsFile, Rec, Kinds
      <4>2. CASE at > item /\ Rec.kind = "W" /\ acks = 0
        BY ONLY <4>2, <3>2, <3>3, <3>4, <3>k DEF Turns
      <4> QED
        BY ONLY <4>1, <4>2, <3>4, <3>k, Turns DEF Turns
    <3>5. ASSUME pc = "line", byte # 0
          PROVE  Turns'
      <4>1. CASE at = item /\ off = byte /\ acks = 1
        BY ONLY <4>1, <3>2, <3>3, <3>5, <3>k, Framing DEF Turns, Framing, AfterText, Rec
      <4>2. CASE at > item /\ acks = 0
        BY ONLY <4>2, <3>2, <3>3, <3>5, <3>k DEF Turns
      <4> QED
        BY ONLY <4>1, <4>2, <3>5, <3>k, Turns DEF Turns
    <3>6. ASSUME pc = "ack"
          PROVE  Turns'
      <4>1. byte # 0 /\ at = item /\ off = byte /\ acks = 0
        BY ONLY <3>6, <3>k, Turns DEF Turns
      <4> QED
        BY ONLY <4>1, <3>2, <3>3, <3>6, <3>k, Framing DEF Turns, Framing, AfterText, Rec
    <3>7. ASSUME pc \in {"create", "payload", "flush", "trailer"}
          PROVE  Turns'
      <4>1. /\ at = item /\ acks = 0 /\ Rec = session[at] /\ byte \in Nat \ {0}
            /\ off \in byte..(Rec.size + 1) \/ (off = Rec.size + 2 /\ Rec.kind = "B")
            /\ IsFile
        BY ONLY <3>7, <3>k, <1>1, Turns, Framing DEF Turns, PeerWrites, Framing, Rec
      <4>2. \/ off' = off + 1 /\ at' = item /\ mode' = "write" /\ acks' = 0
               /\ off + 1 \in byte..(Rec.size + 1)
            \/ off' = off + 1 /\ at' = item /\ mode' = "write" /\ acks' = 0
               /\ off + 1 = Rec.size + 2 /\ Rec.kind = "B"
            \/ at' = item + 1 /\ off' = 0 /\ mode' = "wait" /\ acks' = 0
        <5>1. off # 0 /\ Rec.kind \in {"C", "B"} /\ Rec.size \in Nat
          BY ONLY <4>1, <3>k DEF IsFile
        <5>2. CASE at' = at /\ off' = off + 1
          <6>1. /\ mode' = "write"
                /\ \/ Rec.kind = "C" /\ off # Rec.size + 1
                   \/ Rec.kind = "B" /\ off # Rec.size + 2
            BY ONLY <4>1, <3>3, <3>k, <5>1, <5>2
          <6>2. \/ off + 1 \in byte..(Rec.size + 1)
                \/ off + 1 = Rec.size + 2 /\ Rec.kind = "B"
            BY ONLY <4>1, <3>k, <5>1, <6>1
          <6> QED
            BY ONLY <4>1, <3>2, <5>2, <6>1, <6>2
        <5>3. CASE at' = at + 1 /\ off' = 0
          BY ONLY <4>1, <3>2, <3>3, <3>k, <5>1, <5>3
        <5> QED
          BY ONLY <3>3, <5>2, <5>3
      <4> QED
        BY ONLY <4>2, <3>2, <3>7, <3>k DEF Turns
    <3> QED
      BY <3>1, <3>4, <3>5, <3>6, <3>7
  <2>5. Counts'
    <3>1. UNCHANGED <<pc, byte, item, acks, taken, confirmed>>
      OBVIOUS
    <3>2. ASSUME acks = 1
          PROVE  off # 0 /\ off # 1
      <4>1. pc = "line" /\ byte # 0 /\ at = item /\ off = byte
        BY <3>2 DEF Turns, Running
      <4>2. byte = session[item].size + 2 /\ session[item].size \in Nat
        BY <4>1 DEF Framing, AfterText, Rec
      <4> QED
        BY ONLY <4>1, <4>2
    <3>3. acks = 1 => confirmed < taken
      BY <3>2 DEF Counts
    <3> QED
      BY ONLY <3>1, <3>3, Counts, TypeOK DEF Counts, Running, TypeOK
  <2>6. Writing'
    BY DEF Writing, Running, Dest, Rec, Join
  <2> QED
    BY <2>2, <2>3, <2>4, <2>5, <2>6
<1>2. CASE PeerReadsAck
  <2> USE <1>2, <1>0, <1>r DEF PeerReadsAck
  <2>2. TypeOK'
    BY DEF Counts, Turns
  <2>3. Framing'
    BY DEF Framing, IsFile, AfterText, Rec
  <2>4. Turns'
    BY DEF Turns, Framing, IsFile, AfterText, Rec, Running
  <2>5. Counts'
    BY DEF Counts, Turns, Running, Rec
  <2>6. Writing'
    BY DEF Writing, Running, Dest, Rec, Join
  <2> QED
    BY <2>2, <2>3, <2>4, <2>5, <2>6
<1>3. CASE PeerFinishes \/ PeerGivesUp \/ PeerLost
  <2>1. /\ UNCHANGED <<session, at, off, mode, confirmed, acks, sink>>
        /\ peer' \in {"finished", "gone"}
    BY <1>3 DEF PeerFinishes, PeerGivesUp, PeerLost
  <2>2. TypeOK'
    BY <2>1
  <2>3. Framing' /\ Turns' /\ Counts'
    BY <2>1 DEF Framing, Turns, Counts, IsFile, AfterText, Rec, Running
  <2>4. Writing'
    BY <2>1 DEF Writing, Rec, Running, Dest, Join
  <2> QED
    BY <2>2, <2>3, <2>4
<1>4. CASE Ack
  <2> USE <1>4, <1>0, <1>r DEF Ack
  <2>2. TypeOK'
    BY DEF Turns
  <2>3. Framing'
    BY DEF Framing, IsFile, AfterText, Rec
  <2>4. Turns'
    BY DEF Turns, Framing, IsFile, AfterText, Rec
  <2>5. Counts'
    BY DEF Counts, Turns, Framing, Running, Rec
  <2>6. Writing'
    BY DEF Writing, Running, Dest, Rec, Join
  <2> QED
    BY <2>2, <2>3, <2>4, <2>5, <2>6
<1>l. ASSUME NEW k \in Kinds, ReadLine(k)
      PROVE  /\ pc = "line" /\ byte = 0 /\ Rec.kind = k
             /\ item \in 1..Len(session) /\ item' \in 1..(Len(session) + 1) /\ byte' \in Nat
             /\ taken = item - 1
             /\ IF k \in {"C", "B"} THEN item' = item /\ byte' = 1
                                ELSE item' = item + 1 /\ byte' = 0
             /\ k \in {"C", "B"} => at = item /\ off = 1 /\ mode = "wait" /\ acks = 0
             /\ k \in {"D", "E", "T"} => at = item + 1 /\ off = 0 /\ mode = "wait" /\ acks = 0
  <2> USE <1>l, <1>0, <1>r DEF ReadLine
  <2>1. byte = 0
    OBVIOUS
  <2>2. item \in 1..Len(session)
    BY <2>1 DEF Turns, Arrived
  <2>3. Rec.kind = k /\ Rec.size \in Nat
    BY <2>2 DEF Rec
  <2>4. IF k \in {"C", "B"} THEN item' = item /\ byte' = 1 ELSE item' = item + 1 /\ byte' = 0
    BY <2>1, <2>2, <2>3 DEF SinkAdvances, AtEnd, Rec, Kinds
  <2>5. taken = item - 1
    BY <2>1 DEF Counts, Running
  <2>6. /\ k \in {"C", "B"} => at = item /\ off = 1 /\ mode = "wait" /\ acks = 0
        /\ k \in {"D", "E", "T"} => at = item + 1 /\ off = 0 /\ mode = "wait" /\ acks = 0
    BY <2>1, <2>3 DEF Turns, Arrived, IsFile
  <2> QED
    BY <2>1, <2>2, <2>3, <2>4, <2>5, <2>6
<1>5. CASE ReadFile
  <2> USE <1>5, <1>0, <1>r, <1>l DEF ReadFile
  <2>1. PICK k \in {"C", "B"} : ReadLine(k)
    BY DEF Kinds
  <2>2. /\ pc = "line" /\ byte = 0 /\ Rec.kind = k /\ item \in 1..Len(session) /\ taken = item - 1
        /\ item' = item /\ byte' = 1 /\ at = item /\ off = 1 /\ mode = "wait" /\ acks = 0
        /\ Rec' = Rec /\ Rec.size \in Nat
    BY <2>1 DEF Kinds, Rec
  <2>3. TypeOK'
    BY <2>2
  <2>4. Framing' /\ Turns' /\ Counts'
    BY <2>2 DEF Framing, Turns, Counts, IsFile, AfterText, Running
  <2>5. Writing'
    BY <2>2 DEF Writing, Running
  <2> QED
    BY <2>3, <2>4, <2>5
<1>6. CASE EnterDir \/ LeaveDir \/ ReadTimes
  <2> USE <1>6, <1>0, <1>r, <1>l DEF EnterDir, LeaveDir, ReadTimes
  <2>1. PICK k \in {"D", "E", "T"} : ReadLine(k)
    BY DEF Kinds
  <2>2. /\ pc = "line" /\ byte = 0 /\ item \in 1..Len(session) /\ taken = item - 1
        /\ item' = item + 1 /\ byte' = 0 /\ at = item + 1 /\ off = 0 /\ mode = "wait" /\ acks = 0
    BY <2>1 DEF Kinds
  <2>3. /\ pc' = "ack" /\ taken' = taken + 1 /\ left' = left /\ partial' = partial
        /\ UNCHANGED <<source, acks>>
    OBVIOUS
  <2>4. TypeOK'
    BY <2>2, <2>3
  <2>5. Framing' /\ Turns' /\ Counts'
    BY <2>2, <2>3 DEF Framing, Turns, Counts, IsFile, AfterText, Running
  <2>6. Writing'
    BY <2>2, <2>3 DEF Writing, Running
  <2> QED
    BY <2>4, <2>5, <2>6
<1>f. ASSUME Fail, item' \in 1..(Len(session) + 1), byte' \in Nat
      PROVE  InStep'
  BY <1>f, <1>0 DEF Fail, Framing, Turns, Counts, Writing, Running
<1>7. CASE LineRefused
  <2>1. PICK k \in Kinds : ReadLine(k)
    BY <1>7 DEF LineRefused, Kinds
  <2> QED
    BY <2>1, <1>7, <1>l, <1>f DEF LineRefused
<1>8. CASE UnexpectedByte
  <2> USE <1>8, <1>0, <1>r DEF UnexpectedByte
  <2>1. item \in 1..Len(session)
    BY DEF Framing, AfterText
  <2>2. item' \in 1..(Len(session) + 1) /\ byte' \in Nat
    BY <2>1 DEF SinkAdvances
  <2> QED
    BY <2>2, <1>f
<1>s. pc \in {"create", "payload", "flush", "trailer"} =>
         /\ item \in 1..Len(session) /\ IsFile /\ Rec.kind \in {"C", "B"} /\ Rec.size \in Nat
         /\ byte \in Nat /\ taken \in Nat /\ confirmed \in Nat /\ acks \in {0, 1}
  BY <1>0, <1>r DEF Framing, IsFile, Rec
<1>9. CASE CreateFile
  <2>1. /\ pc = "create" /\ left \in Nat /\ Rec' = Rec /\ Dest' = Dest
        /\ UNCHANGED <<session, at, off, mode, confirmed, acks, item, byte, left, cur, taken>>
        /\ pc' = (IF left > 0 THEN "payload" ELSE "flush")
        /\ partial' = {Dest} /\ Put(Dest, <<item, 0>>)
    BY <1>9 DEF CreateFile, Rec, Dest, Join
  <2>2. TypeOK'
    BY <1>9 DEF CreateFile
  <2>3. Framing'
    BY ONLY <2>1, <1>s, Framing DEF Framing, IsFile
  <2>4. Turns'
    BY ONLY <2>1, Turns DEF Turns
  <2>5. Counts'
    BY ONLY <2>1, Counts DEF Counts, Running
  <2>6. Clean[Rec.name] # Bad /\ left = Rec.size
    BY ONLY <2>1, Framing, Writing DEF Framing, Writing
  <2>7. Writing'
    BY ONLY <2>1, <2>6, <1>s DEF Writing, Running, Put
  <2> QED
    BY <2>2, <2>3, <2>4, <2>5, <2>7
<1>10. CASE ReadPayload
  <2>1. /\ pc = "payload" /\ Arrived /\ SinkAdvances
        /\ UNCHANGED <<session, at, off, mode, confirmed, acks, cur, partial, taken>>
        /\ left' = left - 1
        /\ pc' = (IF left = 1 THEN "flush" ELSE "payload")
        /\ Put(Dest, <<item, IF IsContents(item, byte) THEN disk[Dest][2] + 1 ELSE 0>>)
    BY <1>10 DEF ReadPayload
  <2>2. left \in 1..Rec.size /\ byte + left = Rec.size + 1
    BY ONLY <2>1, Framing DEF Framing
  <2>3. ~AtEnd(item, byte) /\ IsContents(item, byte)
    BY ONLY <2>1, <2>2, <1>s DEF AtEnd, IsContents, Rec
  <2>4. item' = item /\ byte' = byte + 1 /\ Rec' = Rec /\ Dest' = Dest
    BY ONLY <2>1, <2>3 DEF SinkAdvances, Rec, Dest, Join
  <2>5. TypeOK'
    <3>1. /\ left' \in Nat /\ item' \in 1..(Len(session) + 1) /\ byte' \in Nat
          /\ pc' \in {"payload", "flush"}
      BY <2>1, <2>2, <2>4, <1>s
    <3> QED
      BY ONLY TypeOK, <1>10, <2>4, <3>1 DEF ReadPayload, TypeOK, source
  <2>6. Framing'
    BY ONLY <2>1, <2>2, <2>4, <1>s DEF Framing, IsFile
  <2>7. Turns'
    <3>1. \/ at = item /\ off \in (byte + 1)..(Rec.size + 1) /\ mode = "write" /\ acks = 0
          \/ at = item /\ off = Rec.size + 2 /\ Rec.kind = "B" /\ mode = "write" /\ acks = 0
          \/ at = item + 1 /\ off = 0 /\ mode = "wait" /\ acks = 0
      BY ONLY <2>1, <1>s, Turns DEF Turns, Arrived
    <3> QED
      BY ONLY <2>1, <2>4, <3>1 DEF Turns
  <2>8. Counts'
    BY ONLY <2>1, <2>4, Counts DEF Counts, Running
  <2>9. Writing'
    <3>1. /\ Clean[Rec.name] # Bad /\ partial = {Dest} /\ Dest \in DOMAIN disk
          /\ disk[Dest] = <<item, Rec.size - left>>
      BY ONLY <2>1, Writing DEF Writing
    <3>2. Rec.size - left + 1 = Rec.size - (left - 1)
      BY ONLY <2>1, <2>2, <1>s
    <3>3. Put(Dest, <<item, Rec.size - (left - 1)>>)
      BY ONLY <2>1, <2>3, <3>1, <3>2
    <3> QED
      BY ONLY <2>1, <2>4, <3>1, <3>3 DEF Writing, Running, Put
  <2> QED
    BY <2>5, <2>6, <2>7, <2>8, <2>9
<1>11. CASE FlushFile
  <2>1. /\ pc = "flush" /\ pc' = "trailer" /\ Rec' = Rec /\ Dest' = Dest /\ partial' = {}
        /\ UNCHANGED <<session, at, off, mode, confirmed, acks, item, byte, left, cur>>
        /\ taken' = taken + 1
    BY <1>11 DEF FlushFile, Rec, Dest, Join
  <2>2. taken = item - 1 /\ confirmed <= taken
    BY <2>1 DEF Counts, Running
  <2>3. TypeOK'
    BY <1>11, <2>2, <1>s DEF FlushFile
  <2>4. Framing' /\ Turns'
    BY ONLY <2>1, <1>s, Framing, Turns DEF Framing, Turns, IsFile
  <2>5. Counts'
    BY ONLY <2>1, <2>2, <1>s DEF Counts, Running
  <2>6. Writing'
    BY ONLY <2>1 DEF Writing, Running
  <2> QED
    BY <2>3, <2>4, <2>5, <2>6
<1>12. CASE ReadTrailer
  <2>1. /\ pc = "trailer" /\ Arrived /\ SinkAdvances /\ pc' = "ack" /\ session' = session
        /\ UNCHANGED <<at, off, mode, confirmed, acks, left, cur, partial, disk, taken>>
    BY <1>12 DEF ReadTrailer
  <2>2. byte = Rec.size + 1 /\ taken = item /\ confirmed < taken /\ partial = {} /\ left = 0
    BY ONLY <2>1, Framing, Counts, Writing DEF Framing, Counts, Writing, Running
  <2>3. \/ Rec.kind = "C" /\ item' = item + 1 /\ byte' = 0
        \/ Rec.kind = "B" /\ item' = item /\ byte' = Rec.size + 2 /\ Rec' = Rec
    BY ONLY <2>1, <2>2, <1>s DEF SinkAdvances, AtEnd, Rec
  <2>4. TypeOK'
    BY <1>12, <2>2, <2>3, <1>s DEF ReadTrailer
  <2>5. Framing'
    BY ONLY <2>1, <2>3, <1>s DEF Framing, IsFile, AfterText
  <2>6. Turns'
    <3>1. \/ at = item /\ off = Rec.size + 2 /\ Rec.kind = "B" /\ mode = "write" /\ acks = 0
          \/ at = item + 1 /\ off = 0 /\ mode = "wait" /\ acks = 0
      BY ONLY <2>1, <2>2, <1>s, Turns DEF Turns, Arrived
    <3> QED
      BY ONLY <2>1, <2>3, <3>1, <1>s DEF Turns
  <2>7. Counts'
    BY ONLY <2>1, <2>2, <2>3, <1>s DEF Counts, Running
  <2>8. Writing'
    BY ONLY <2>1, <2>2 DEF Writing, Running
  <2> QED
    BY <2>4, <2>5, <2>6, <2>7, <2>8
<1>13. CASE DiskFails \/ AckFails
  BY <1>13, <1>f DEF DiskFails, AckFails
<1>14. CASE EndOfStream
  BY <1>14, <1>0 DEF EndOfStream, Framing, Turns, Counts, Writing, Running
<1>15. CASE UNCHANGED vars
  <2> USE <1>15 DEF vars
  <2>1. TypeOK'
    OBVIOUS
  <2>2. Framing'
    BY DEF Framing, IsFile, AfterText, Rec
  <2>3. Turns'
    BY DEF Turns, IsFile, Rec
  <2>4. Counts'
    BY DEF Counts, Running
  <2>5. Writing'
    BY DEF Writing, Rec, Running, Dest, Join
  <2> QED
    BY <2>1, <2>2, <2>3, <2>4, <2>5
<1> QED
  BY <1>1, <1>2, <1>3, <1>4, <1>5, <1>6, <1>7, <1>8, <1>9, <1>10, <1>11, <1>12, <1>13,
     <1>14, <1>15 DEF Next, PeerStep, SinkStep

\* In sessions of any length with files of any size, the sink reads every token
\* for what it is, but for the error byte that a peer puts in the place of a
\* terminator: that one it takes for the terminator (ssh_server.rs:966),
\* acknowledges it, and ends the session at the text behind it.  It acknowledges
\* what the peer waits for and writes each file's own bytes (scp_receive,
\* ssh_server.rs:902).
THEOREM InStepInvariant == Spec => []InStep
<1> QED
  BY InitInStep, NextInStep, PTL DEF Spec

\* Peer and sink of scp never wait for each other (ssh_server.rs:907-1003).
THEOREM NoStandstillInvariant == Spec => []NoStandstill
<1>1. ASSUME InStep, peer = "sending", pc \in {"line", "payload", "trailer"},
             mode = "wait", acks = 0
      PROVE  <<item, byte>> # <<at, off>>
  <2>1. /\ at \in Nat /\ item \in Nat /\ byte \in Nat /\ off \in Nat
        /\ pc \in {"payload", "trailer"} => byte # 0
    <3>1. session \in Seq(Record) /\ Len(session) \in Nat
      BY <1>1, LenProperties DEF InStep, TypeOK
    <3>2. at \in Nat /\ item \in Nat /\ byte \in Nat /\ off \in Nat
      BY <1>1, <3>1 DEF InStep, TypeOK
    <3>3. IsFile => Rec.size \in Nat
      BY <1>1, <3>1, RecordTyped DEF InStep, TypeOK, IsFile, Rec
    <3>4. pc \in {"payload", "trailer"} => byte # 0
      BY <1>1, <3>2, <3>3 DEF InStep, Framing
    <3> QED
      BY <3>2, <3>4
  <2> QED
    BY <1>1, <2>1 DEF InStep, Turns, Framing, AfterText
<1>2. InStep => NoStandstill
  BY <1>1 DEF NoStandstill, Arrived, InStep, TypeOK
<1> QED
  BY <1>2, InStepInvariant, PTL

\* Every step of a session is a step of the copy it promises, or none of it.
LEMMA StepCopies == InStep /\ [Next]_vars => [Copy!Next]_(Copy!vars)
<1> SUFFICES ASSUME TypeOK, Framing, Turns, Counts, Writing, [Next]_vars
             PROVE  [Copy!Next]_(Copy!vars)
  BY DEF InStep
<1> DEFINE Received == [p \in DOMAIN disk \ partial |-> disk[p]]
<1>0. session \in Seq(Record) /\ Len(session) \in Nat /\ item \in Nat /\ byte \in Nat
  BY LenProperties DEF TypeOK
<1>r. \A i \in 1..Len(session) : session[i].kind \in Kinds /\ session[i].size \in Nat
  BY <1>0, RecordTyped
<1>u. ASSUME UNCHANGED <<session, taken, confirmed, cur, disk, partial>>
      PROVE  UNCHANGED Copy!vars
  BY <1>u DEF Copy!vars
<1>1. CASE PeerReadsAck
  <2>1. UNCHANGED <<session, taken, cur, disk, partial>>
    BY <1>1 DEF PeerReadsAck, sink
  <2>2. CASE off = 0 /\ at > 1
    <3>1. confirmed < taken /\ confirmed' = confirmed + 1
      BY <1>1, <2>2 DEF PeerReadsAck, Counts, TypeOK
    <3> QED
      BY <2>1, <3>1 DEF Copy!Next, Copy!Confirm
  <2>3. CASE ~(off = 0 /\ at > 1)
    BY <1>1, <2>1, <2>3, <1>u DEF PeerReadsAck
  <2> QED
    BY <2>2, <2>3
<1>2. CASE PeerWrites \/ PeerFinishes \/ PeerGivesUp \/ PeerLost
  BY <1>2, <1>u DEF PeerWrites, PeerFinishes, PeerGivesUp, PeerLost, sink
<1>3. CASE Ack \/ ReadFile \/ LineRefused \/ UnexpectedByte \/ ReadTrailer \/ DiskFails
           \/ EndOfStream \/ AckFails
  BY <1>3, <1>u DEF Ack, ReadFile, LineRefused, UnexpectedByte, ReadTrailer, DiskFails,
     EndOfStream, AckFails, Fail, source
<1>l. ASSUME NEW k \in {"D", "E", "T"}, ReadLine(k)
      PROVE  /\ taken = item - 1 /\ taken < Len(session) /\ taken + 1 = item
             /\ Rec = Copy!Rec /\ Rec.kind = k /\ partial = {}
  <2>1. pc = "line" /\ byte = 0 /\ Rec.kind = k /\ <<item, byte>> # <<at, off>>
    BY <1>l DEF ReadLine, Arrived
  <2>2. item \in 1..Len(session)
    BY <2>1, <1>0 DEF Turns, TypeOK, IsFile
  <2>3. taken = item - 1 /\ partial = {}
    BY <2>1 DEF Counts, Writing, Running
  <2> QED
    BY <2>1, <2>2, <2>3 DEF Rec, Copy!Rec
<1>4. CASE EnterDir
  <2>1. /\ ReadLine("D") /\ Clean[Rec.name] # Bad /\ cur' = Dest /\ Put(Dest, Dir)
        /\ taken' = taken + 1 /\ UNCHANGED <<session, confirmed, partial>>
    BY <1>4 DEF EnterDir, source
  <2>2. Dest = Copy!Child(cur, Copy!Rec.name)
    BY <2>1, <1>l DEF Dest, Join, Copy!Child
  <2>3. Received' = Copy!Put(Received, Dest, Copy!Dir)
    BY <2>1, <1>l DEF Put, Copy!Put, Dir, Copy!Dir
  <2>4. Copy!Effect(Copy!Rec)
    BY <2>1, <2>2, <2>3, <1>l DEF Copy!Effect
  <2> QED
    BY <2>1, <2>4, <1>l DEF Copy!Next, Copy!TakeEffect
<1>5. CASE LeaveDir \/ ReadTimes
  <2>1. /\ \/ ReadLine("E") /\ cur' = Parent(cur)
           \/ ReadLine("T") /\ cur' = cur
        /\ taken' = taken + 1 /\ UNCHANGED <<session, confirmed, disk, partial>>
    BY <1>5 DEF LeaveDir, ReadTimes, source
  <2>2. Received' = Received
    BY <2>1
  <2>3. Copy!Effect(Copy!Rec)
    BY <2>1, <2>2, <1>l DEF Copy!Effect, Parent, Copy!Parent
  <2> QED
    BY <2>1, <2>3, <1>l DEF Copy!Next, Copy!TakeEffect
<1>f. ASSUME pc \in {"create", "payload", "flush"}
      PROVE  /\ taken + 1 = item /\ taken < Len(session)
             /\ Rec = Copy!Rec /\ Rec.kind \in {"C", "B"} /\ Clean[Rec.name] # Bad
             /\ Dest = Copy!Child(cur, Copy!Rec.name)
  <2>1. IsFile /\ taken = item - 1 /\ Clean[Rec.name] # Bad
    BY <1>f DEF Framing, Counts, Running, Writing
  <2> QED
    BY <2>1, <1>0 DEF IsFile, Rec, Copy!Rec, Dest, Join, Copy!Child
<1>6. CASE CreateFile
  <2>1. /\ pc = "create" /\ Put(Dest, <<item, 0>>) /\ partial' = {Dest}
        /\ UNCHANGED <<session, taken, confirmed, cur>>
    BY <1>6 DEF CreateFile, source
  <2>2. partial = {}
    BY <2>1 DEF Writing, Running
  <2>3. Received' = Copy!Without(Received, Dest)
    BY <2>1, <2>2 DEF Put, Copy!Without
  <2> QED
    BY <2>1, <2>3, <1>f DEF Copy!Next, Copy!Truncate
<1>7. CASE ReadPayload
  <2>1. /\ pc = "payload" /\ UNCHANGED <<session, taken, confirmed, cur, partial>>
        /\ \E c : Put(Dest, c)
    BY <1>7 DEF ReadPayload, source
  <2>2. partial = {Dest} /\ Dest \in DOMAIN disk
    BY <2>1 DEF Writing
  <2>3. Received' = Received
    BY <2>1, <2>2 DEF Put
  <2> QED
    BY <2>1, <2>3 DEF Copy!vars
<1>8. CASE FlushFile
  <2>1. /\ pc = "flush" /\ partial' = {} /\ taken' = taken + 1
        /\ UNCHANGED <<session, confirmed, cur, disk>>
    BY <1>8 DEF FlushFile, source
  <2>2. Rec.size \in Nat /\ left = 0
    BY <2>1, <1>r, <1>0 DEF Framing, IsFile, Rec, TypeOK
  <2>3. partial = {Dest} /\ Dest \in DOMAIN disk /\ disk[Dest] = <<item, Rec.size>>
    BY <2>1, <2>2 DEF Writing
  <2>4. Received' = Copy!Put(Received, Dest, <<item, Rec.size>>)
    BY <2>1, <2>3 DEF Copy!Put
  <2>5. Copy!Effect(Copy!Rec)
    BY <2>1, <2>4, <1>f DEF Copy!Effect, Copy!Whole
  <2> QED
    BY <2>1, <2>5, <1>f DEF Copy!Next, Copy!TakeEffect
<1>9. CASE UNCHANGED vars
  BY <1>9, <1>u DEF vars, source, sink
<1> QED
  BY <1>1, <1>2, <1>3, <1>4, <1>5, <1>6, <1>7, <1>8, <1>9 DEF Next, PeerStep, SinkStep

\* scp_receive implements the copy, which asks no user and may leave the shared
\* folder as the records lead it: records take effect one by one and in order,
\* only the file being written is ever missing or incomplete, and the peer is
\* told of no record that has not taken effect (ssh_server.rs:902-1005).
THEOREM CopyImplemented == Spec => ImplementsCopy
<1>1. Init => Copy!Init
  BY DEF Init, Copy!Init
<1> QED
  BY <1>1, StepCopies, InStepInvariant, PTL DEF Spec, ImplementsCopy, Copy!Spec
------------------------------------------------------------------------------
(* The directories around a record, and the place they name                   *)

\* How many directories begin, and how many end, from record j to record k.
Begun(j, k) == Cardinality(Among("D", j, k))
Closed(j, k) == Cardinality(Among("E", j, k))

\* Directories around record i: those inside j, j included, and those outside k.
Inside(i, j) == {h \in Around(i) : h >= j}
Outside(i, k) == {h \in Around(i) : h <= k}

\* Inside each directory around record i, and in the session as a whole, those
\* that began and have not ended are around i; and they are counted through.
Nest(i) ==
    /\ \A j \in Around(i) \cup {1} : Begun(j, i - 1) = Closed(j, i - 1) + Cardinality(Inside(i, j))
    /\ \A d \in 1..Cardinality(Around(i)) : \E k \in Around(i) : Cardinality(Outside(i, k)) = d

\* One record more counts if it is of that kind.
LEMMA AmongNext ==
    ASSUME NEW i \in Nat \ {0}, NEW j \in 1..i, NEW kind
    PROVE  /\ Cardinality(Among(kind, j, i - 1)) \in Nat
           /\ Cardinality(Among(kind, j, i)) =
                 Cardinality(Among(kind, j, i - 1)) + (IF session[i].kind = kind THEN 1 ELSE 0)
           /\ j = i => Cardinality(Among(kind, j, i - 1)) = 0
<1>1. Among(kind, j, i - 1) \subseteq j..(i - 1) /\ IsFiniteSet(j..(i - 1))
  BY FS_Interval DEF Among
<1>2. IsFiniteSet(Among(kind, j, i - 1)) /\ Cardinality(Among(kind, j, i - 1)) \in Nat
  BY <1>1, FS_Subset, FS_CardinalityType
<1>3. i \notin Among(kind, j, i - 1)
  BY DEF Among
<1>4. session[i].kind = kind => Among(kind, j, i) = Among(kind, j, i - 1) \cup {i}
  BY DEF Among
<1>5. session[i].kind # kind => Among(kind, j, i) = Among(kind, j, i - 1)
  BY DEF Among
<1>6. j = i => Among(kind, j, i - 1) = {}
  BY DEF Among
<1> QED BY <1>2, <1>3, <1>4, <1>5, <1>6, FS_AddElement, FS_EmptySet

\* The directories around the next record: those around this one that it does
\* not end, and itself when it begins one.
LEMMA AroundNext ==
    ASSUME NEW i \in Nat \ {0}
    PROVE  /\ Around(i) \subseteq 1..(i - 1) /\ Around(i + 1) \subseteq 1..i
           /\ \A j \in 1..(i - 1) :
                 j \in Around(i + 1) <=> j \in Around(i) /\ Closed(j, i) < Begun(j, i)
           /\ i \in Around(i + 1) <=> session[i].kind = "D"
<1>1. Around(i) \subseteq 1..(i - 1) /\ Around(i + 1) \subseteq 1..i
  BY DEF Around, Among
<1>2. ASSUME NEW j \in 1..(i - 1)
      PROVE  j \in Around(i + 1) <=> j \in Around(i) /\ Closed(j, i) < Begun(j, i)
  <2>1. j..i = j..(i - 1) \cup {i} /\ (i + 1) - 1 = i
    OBVIOUS
  <2>2. j \in Among("D", 1, i) <=> j \in Among("D", 1, i - 1)
    BY DEF Among
  <2>3. j \in Around(i + 1) <=>
            j \in Among("D", 1, i) /\ \A k \in j..i : Closed(j, k) < Begun(j, k)
    BY <2>1 DEF Around, Closed, Begun
  <2>4. j \in Around(i) <=>
            j \in Among("D", 1, i - 1) /\ \A k \in j..(i - 1) : Closed(j, k) < Begun(j, k)
    BY DEF Around, Closed, Begun
  <2> QED BY <2>1, <2>2, <2>3, <2>4
<1>3. i \in Around(i + 1) <=> session[i].kind = "D"
  <2>1. i..i = {i} /\ (i + 1) - 1 = i /\ i \in 1..i
    OBVIOUS
  <2>2. i \in Among("D", 1, i) <=> session[i].kind = "D"
    BY DEF Among
  <2>3. i \in Around(i + 1) <=> i \in Among("D", 1, i) /\ Closed(i, i) < Begun(i, i)
    BY <2>1 DEF Around, Closed, Begun
  <2>4. session[i].kind = "D" => Closed(i, i) = 0 /\ Begun(i, i) = 1
    BY <2>1, AmongNext DEF Closed, Begun
  <2> QED BY <2>2, <2>3, <2>4
<1> QED BY <1>1, <1>2, <1>3

\* The counts of one record more.
LEMMA CountsNext ==
    ASSUME NEW i \in Nat \ {0}, NEW j \in 1..i
    PROVE  /\ Begun(j, i - 1) \in Nat /\ Closed(j, i - 1) \in Nat
           /\ Begun(j, i) = Begun(j, i - 1) + (IF session[i].kind = "D" THEN 1 ELSE 0)
           /\ Closed(j, i) = Closed(j, i - 1) + (IF session[i].kind = "E" THEN 1 ELSE 0)
           /\ j = i => Begun(j, i - 1) = 0 /\ Closed(j, i - 1) = 0
  BY AmongNext DEF Begun, Closed

LEMMA AroundFinite ==
    ASSUME NEW i \in Nat \ {0}
    PROVE  /\ IsFiniteSet(Around(i)) /\ Cardinality(Around(i)) \in Nat
           /\ \A j : IsFiniteSet(Inside(i, j)) /\ Cardinality(Inside(i, j)) \in Nat
           /\ \A k : IsFiniteSet(Outside(i, k)) /\ Cardinality(Outside(i, k)) \in Nat
<1>1. IsFiniteSet(1..(i - 1))
  BY FS_Interval
<1>2. Around(i) \subseteq 1..(i - 1)
  BY AroundNext
<1>3. /\ \A j : Inside(i, j) \subseteq 1..(i - 1)
      /\ \A k : Outside(i, k) \subseteq 1..(i - 1)
  BY <1>2 DEF Inside, Outside
<1> QED BY <1>1, <1>2, <1>3, FS_Subset, FS_CardinalityType

\* Of two directories around a record the later one has more outside.
LEMMA OutsideGrows ==
    ASSUME NEW i \in Nat \ {0}, NEW k \in Around(i), NEW l \in Around(i), k < l
    PROVE  Cardinality(Outside(i, k)) < Cardinality(Outside(i, l))
<1>1. Around(i) \subseteq 1..(i - 1)
  BY AroundNext
<1>2. Outside(i, k) \subseteq Outside(i, l) /\ l \in Outside(i, l) /\ l \notin Outside(i, k)
  BY <1>1 DEF Outside
<1>3. Outside(i, k) # Outside(i, l)
  BY <1>2
<1>4. /\ IsFiniteSet(Outside(i, l)) /\ Cardinality(Outside(i, l)) \in Nat
      /\ Cardinality(Outside(i, k)) \in Nat
  BY AroundFinite
<1> QED BY <1>2, <1>3, <1>4, FS_Subset

\* The innermost directory around a record.
LEMMA Innermost ==
    ASSUME NEW i \in Nat \ {0}, Nest(i), Around(i) # {}
    PROVE  \E top \in Around(i) :
              /\ \A h \in Around(i) : h <= top
              /\ Cardinality(Outside(i, top)) = Cardinality(Around(i))
<1>1. Cardinality(Around(i)) \in 1..Cardinality(Around(i))
  BY AroundFinite, FS_EmptySet
<1>2. PICK top \in Around(i) : Cardinality(Outside(i, top)) = Cardinality(Around(i))
  BY <1>1 DEF Nest
<1>3. Outside(i, top) \subseteq Around(i)
  BY DEF Outside
<1>4. Outside(i, top) = Around(i)
  BY <1>2, <1>3, AroundFinite, FS_Subset
<1>5. \A h \in Around(i) : h <= top
  BY <1>4 DEF Outside
<1> QED BY <1>2, <1>5

\* A record that neither begins nor ends a directory.
LEMMA NestPlain ==
    ASSUME NEW i \in Nat \ {0}, Nest(i), session[i].kind \notin {"D", "E"}
    PROVE  Around(i + 1) = Around(i) /\ Nest(i + 1)
<1>1. Around(i + 1) = Around(i)
  <2>1. ASSUME NEW j \in 1..(i - 1)
        PROVE  j \in Around(i + 1) <=> j \in Around(i)
    <3>1. /\ Closed(j, i) = Closed(j, i - 1) /\ Begun(j, i) = Begun(j, i - 1)
          /\ Closed(j, i - 1) \in Nat /\ Begun(j, i - 1) \in Nat
      BY CountsNext
    <3>2. j \in Around(i) => Closed(j, i - 1) < Begun(j, i - 1)
      BY DEF Around, Closed, Begun
    <3>3. j \in Around(i + 1) <=> j \in Around(i) /\ Closed(j, i) < Begun(j, i)
      BY AroundNext
    <3> QED BY <3>1, <3>2, <3>3
  <2>2. /\ Around(i) \subseteq 1..(i - 1) /\ Around(i + 1) \subseteq 1..i
        /\ i \notin Around(i + 1)
    BY AroundNext
  <2>3. Around(i + 1) \subseteq 1..(i - 1)
    BY <2>2
  <2> QED BY <2>1, <2>2, <2>3
<1>2. \A j : Inside(i + 1, j) = Inside(i, j) /\ Outside(i + 1, j) = Outside(i, j)
  BY <1>1 DEF Inside, Outside
<1>3. ASSUME NEW j \in Around(i) \cup {1}
      PROVE  Begun(j, i) = Closed(j, i) + Cardinality(Inside(i, j))
  <2>1. j \in 1..i
    BY AroundNext
  <2>2. Closed(j, i) = Closed(j, i - 1) /\ Begun(j, i) = Begun(j, i - 1)
    BY <2>1, CountsNext
  <2> QED BY <2>2 DEF Nest
<1>4. (i + 1) - 1 = i
  OBVIOUS
<1> QED BY <1>1, <1>2, <1>3, <1>4 DEF Nest

\* A record that begins a directory is the innermost around the next one.
LEMMA NestEnter ==
    ASSUME NEW i \in Nat \ {0}, Nest(i), session[i].kind = "D"
    PROVE  /\ Around(i + 1) = Around(i) \cup {i} /\ Nest(i + 1)
           /\ Cardinality(Around(i + 1)) = Cardinality(Around(i)) + 1
           /\ \A k \in Around(i) : Outside(i + 1, k) = Outside(i, k)
           /\ Outside(i + 1, i) = Around(i + 1)
<1>0. Around(i) \subseteq 1..(i - 1) /\ (i + 1) - 1 = i
  BY AroundNext
<1>1. Around(i + 1) = Around(i) \cup {i}
  <2>1. ASSUME NEW j \in 1..(i - 1)
        PROVE  j \in Around(i + 1) <=> j \in Around(i)
    <3>1. /\ Closed(j, i) = Closed(j, i - 1) /\ Begun(j, i) = Begun(j, i - 1) + 1
          /\ Closed(j, i - 1) \in Nat /\ Begun(j, i - 1) \in Nat
      BY CountsNext
    <3>2. j \in Around(i) => Closed(j, i - 1) < Begun(j, i - 1)
      BY DEF Around, Closed, Begun
    <3> QED BY <3>1, <3>2, AroundNext
  <2> QED BY <2>1, AroundNext
<1>2. /\ \A j \in 1..i : Inside(i + 1, j) = Inside(i, j) \cup {i} /\ i \notin Inside(i, j)
      /\ \A k \in Around(i) : Outside(i + 1, k) = Outside(i, k)
      /\ Outside(i + 1, i) = Around(i) \cup {i}
  BY <1>0, <1>1 DEF Inside, Outside
<1>3. ASSUME NEW j \in Around(i) \cup {1, i}
      PROVE  Begun(j, i) = Closed(j, i) + Cardinality(Inside(i + 1, j))
  <2>1. j \in 1..i
    BY <1>0
  <2>2. /\ Closed(j, i) = Closed(j, i - 1) /\ Begun(j, i) = Begun(j, i - 1) + 1
        /\ Closed(j, i - 1) \in Nat
        /\ j = i => Begun(j, i - 1) = 0 /\ Closed(j, i - 1) = 0
    BY <2>1, CountsNext
  <2>3. /\ Cardinality(Inside(i, j)) \in Nat
        /\ Cardinality(Inside(i + 1, j)) = Cardinality(Inside(i, j)) + 1
    BY <1>2, <2>1, AroundFinite, FS_AddElement
  <2>4. j = i => Inside(i, j) = {}
    BY <1>0 DEF Inside
  <2>5. j = i => Cardinality(Inside(i, j)) = 0
    BY <2>4, FS_EmptySet
  <2>6. j # i => Begun(j, i - 1) = Closed(j, i - 1) + Cardinality(Inside(i, j))
    BY DEF Nest
  <2> QED BY <2>2, <2>3, <2>5, <2>6
<1>4. Cardinality(Around(i + 1)) = Cardinality(Around(i)) + 1 /\ Cardinality(Around(i)) \in Nat
  <2>1. i \notin Around(i)
    BY <1>0
  <2> QED BY <1>1, <2>1, AroundFinite, FS_AddElement
<1>5. ASSUME NEW d \in 1..Cardinality(Around(i + 1))
      PROVE  \E k \in Around(i + 1) : Cardinality(Outside(i + 1, k)) = d
  <2>1. CASE d = Cardinality(Around(i + 1))
    BY <1>1, <1>2, <2>1
  <2>2. CASE d # Cardinality(Around(i + 1))
    <3>1. d \in 1..Cardinality(Around(i))
      BY <1>4, <2>2
    <3> QED BY <1>1, <1>2, <3>1 DEF Nest
  <2> QED BY <2>1, <2>2
<1>6. Nest(i + 1)
  BY <1>0, <1>1, <1>3, <1>5 DEF Nest
<1> QED BY <1>1, <1>2, <1>4, <1>6

\* A record that ends a directory ends the innermost one.
LEMMA NestLeave ==
    ASSUME NEW i \in Nat \ {0}, Nest(i), session[i].kind = "E", Closed(1, i) <= Begun(1, i)
    PROVE  /\ Around(i + 1) \subseteq Around(i) /\ Nest(i + 1)
           /\ Cardinality(Around(i)) # 0
           /\ Cardinality(Around(i + 1)) = Cardinality(Around(i)) - 1
           /\ \A k \in Around(i + 1) : Outside(i + 1, k) = Outside(i, k)
<1>0. Around(i) \subseteq 1..(i - 1) /\ (i + 1) - 1 = i
  BY AroundNext
<1>1. Around(i) # {}
  <2>1. /\ Closed(1, i) = Closed(1, i - 1) + 1 /\ Begun(1, i) = Begun(1, i - 1)
        /\ Closed(1, i - 1) \in Nat
    BY CountsNext
  <2>2. Begun(1, i - 1) = Closed(1, i - 1) + Cardinality(Inside(i, 1))
    BY DEF Nest
  <2>3. Cardinality(Inside(i, 1)) # 0
    BY <2>1, <2>2
  <2>4. Inside(i, 1) # {}
    BY <2>3, FS_EmptySet
  <2> QED BY <2>4 DEF Inside
<1>2. PICK top \in Around(i) : /\ \A h \in Around(i) : h <= top
                               /\ Cardinality(Outside(i, top)) = Cardinality(Around(i))
  BY <1>1, Innermost
<1>3. Around(i + 1) = Around(i) \ {top}
  <2>1. ASSUME NEW j \in Around(i)
        PROVE  j \in Around(i + 1) <=> j # top
    <3>1. j \in 1..(i - 1)
      BY <1>0
    <3>2. /\ Closed(j, i) = Closed(j, i - 1) + 1 /\ Begun(j, i) = Begun(j, i - 1)
          /\ Closed(j, i - 1) \in Nat
      BY <3>1, CountsNext
    <3>3. Begun(j, i - 1) = Closed(j, i - 1) + Cardinality(Inside(i, j))
      BY DEF Nest
    <3>4. IsFiniteSet(Inside(i, j)) /\ Cardinality(Inside(i, j)) \in Nat
      BY AroundFinite
    <3>5. j \in Around(i + 1) <=> Cardinality(Inside(i, j)) > 1
      BY <3>1, <3>2, <3>3, <3>4, AroundNext
    <3>6. CASE j = top
      <4>1. Inside(i, j) = {top}
        BY <1>0, <1>2, <3>6 DEF Inside
      <4>2. Cardinality(Inside(i, j)) = 1
        BY <4>1, FS_Singleton
      <4> QED BY <4>2, <3>5, <3>6
    <3>7. CASE j # top
      <4>1. j \in Inside(i, j) \ {top} /\ top \in Inside(i, j)
        BY <1>0, <1>2, <3>7 DEF Inside
      <4>2. /\ IsFiniteSet(Inside(i, j) \ {top})
            /\ Cardinality(Inside(i, j) \ {top}) = Cardinality(Inside(i, j)) - 1
        BY <3>4, <4>1, FS_RemoveElement
      <4>3. Cardinality(Inside(i, j) \ {top}) # 0
        BY <4>1, <4>2, FS_EmptySet
      <4>4. Cardinality(Inside(i, j) \ {top}) \in Nat
        BY <4>2, FS_CardinalityType
      <4> QED BY <3>4, <3>5, <3>7, <4>2, <4>3, <4>4
    <3> QED BY <3>6, <3>7
  <2>2. \A j \in Around(i + 1) : j \in Around(i)
    <3>1. i \notin Around(i + 1) /\ Around(i + 1) \subseteq 1..i
      BY AroundNext
    <3> QED BY <3>1, AroundNext
  <2> QED BY <2>1, <2>2
<1>4. /\ \A j \in Around(i) \cup {1} :
            Inside(i + 1, j) = Inside(i, j) \ {top} /\ top \in Inside(i, j)
      /\ \A k \in Around(i + 1) : Outside(i + 1, k) = Outside(i, k)
  BY <1>0, <1>2, <1>3 DEF Inside, Outside
<1>5. ASSUME NEW j \in Around(i + 1) \cup {1}
      PROVE  Begun(j, i) = Closed(j, i) + Cardinality(Inside(i + 1, j))
  <2>1. j \in 1..i /\ j \in Around(i) \cup {1}
    BY <1>0, <1>3
  <2>2. /\ Closed(j, i) = Closed(j, i - 1) + 1 /\ Begun(j, i) = Begun(j, i - 1)
        /\ Closed(j, i - 1) \in Nat
    BY <2>1, CountsNext
  <2>3. /\ Cardinality(Inside(i, j)) \in Nat
        /\ Cardinality(Inside(i + 1, j)) = Cardinality(Inside(i, j)) - 1
    BY <1>4, <2>1, AroundFinite, FS_RemoveElement
  <2>4. Begun(j, i - 1) = Closed(j, i - 1) + Cardinality(Inside(i, j))
    BY <2>1 DEF Nest
  <2> QED BY <2>2, <2>3, <2>4
<1>6. /\ Cardinality(Around(i)) \in Nat /\ Cardinality(Around(i)) # 0
      /\ Cardinality(Around(i + 1)) = Cardinality(Around(i)) - 1
  BY <1>1, <1>3, AroundFinite, FS_RemoveElement, FS_EmptySet
<1>7. ASSUME NEW d \in 1..Cardinality(Around(i + 1))
      PROVE  \E k \in Around(i + 1) : Cardinality(Outside(i + 1, k)) = d
  <2>1. d \in 1..Cardinality(Around(i)) /\ d # Cardinality(Around(i))
    BY <1>6
  <2>2. PICK k \in Around(i) : Cardinality(Outside(i, k)) = d
    BY <2>1 DEF Nest
  <2>3. k # top
    BY <1>2, <2>1, <2>2
  <2> QED BY <1>3, <1>4, <2>2, <2>3
<1>8. Nest(i + 1)
  BY <1>0, <1>5, <1>7 DEF Nest
<1> QED BY <1>3, <1>4, <1>6, <1>8

\* The d-th directory around record i, from outside.
Nth(i, d) == CHOOSE k \in Around(i) : Cardinality({h \in Around(i) : h <= k}) = d

LEMMA NthIs ==
    ASSUME NEW i \in Nat \ {0}, Nest(i), NEW d \in 1..Cardinality(Around(i))
    PROVE  /\ Nth(i, d) \in Around(i) /\ Cardinality(Outside(i, Nth(i, d))) = d
           /\ \A k \in Around(i) : Cardinality(Outside(i, k)) = d => k = Nth(i, d)
<1>1. \E k \in Around(i) : Cardinality({h \in Around(i) : h <= k}) = d
  BY DEF Nest, Outside
<1>2. Nth(i, d) \in Around(i) /\ Cardinality(Outside(i, Nth(i, d))) = d
  BY <1>1 DEF Nth, Outside
<1>3. ASSUME NEW k \in Around(i), Cardinality(Outside(i, k)) = d
      PROVE  k = Nth(i, d)
  <2> DEFINE l == Nth(i, d)
  <2>1. k \in Nat /\ l \in Nat /\ l \in Around(i) /\ Cardinality(Outside(i, l)) = d
    BY <1>2, AroundNext
  <2> HIDE DEF l
  <2>2. ~(k < l)
    BY <1>3, <2>1, OutsideGrows
  <2>3. ~(l < k)
    BY <1>3, <2>1, OutsideGrows
  <2>4. k = l
    BY <2>1, <2>2, <2>3
  <2> QED BY <2>4 DEF l
<1> QED BY <1>2, <1>3

\* The names on the paths of a session.
Steps == {Root[k] : k \in DOMAIN Root} \cup {Clean[n] : n \in Names}

LEMMA RootSteps == Root \in Seq(Steps)
  BY ScpConstants, SeqMonotonic DEF Steps

\* A place is the root and below it, by name, the directories around the record.
LEMMA PlaceIs ==
    ASSUME session \in Seq(Record), NEW i \in 1..(Len(session) + 1), Nest(i)
    PROVE  /\ Place(i) \in Seq(Steps)
           /\ Len(Place(i)) = Len(Root) + Cardinality(Around(i))
           /\ \A n \in 1..Len(Root) : Place(i)[n] = Root[n]
           /\ \A d \in 1..Cardinality(Around(i)) :
                 Place(i)[Len(Root) + d] = Clean[session[Nth(i, d)].name]
<1> DEFINE m == Cardinality(Around(i))
           inner == [d \in 1..m |-> Clean[session[Nth(i, d)].name]]
<1>0. Len(session) \in Nat /\ i \in Nat \ {0} /\ m \in Nat
  BY LenProperties, AroundFinite
<1>1. Place(i) = Root \o inner
  BY DEF Place, Nth
<1>2. ASSUME NEW d \in 1..m
      PROVE  Clean[session[Nth(i, d)].name] \in Steps
  <2>1. Nth(i, d) \in 1..Len(session)
    <3>1. Nth(i, d) \in Around(i)
      BY <1>0, NthIs
    <3>2. Around(i) \subseteq 1..(i - 1)
      BY <1>0, AroundNext
    <3> QED BY <1>0, <3>1, <3>2
  <2>2. session[Nth(i, d)] \in Record
    BY <2>1, ElementOfSeq
  <2> QED BY <2>2 DEF Record, Steps
<1>3. inner \in [1..m -> Steps]
  BY <1>2
<1>5. \A d \in 1..m : inner[d] = Clean[session[Nth(i, d)].name]
  OBVIOUS
<1> HIDE DEF m, inner
<1>4. inner \in Seq(Steps) /\ Len(inner) = m
  <2>1. inner \in Seq(Steps)
    BY <1>0, <1>3, SeqDef
  <2>2. DOMAIN inner = 1..m /\ DOMAIN inner = 1..Len(inner) /\ Len(inner) \in Nat
    BY <1>3, <2>1, LenProperties
  <2> QED BY <1>0, <2>1, <2>2
<1>6. /\ Root \o inner \in Seq(Steps)
      /\ Len(Root \o inner) = Len(Root) + Len(inner)
      /\ \A n \in 1..(Len(Root) + Len(inner)) :
            (Root \o inner)[n] = IF n <= Len(Root) THEN Root[n] ELSE inner[n - Len(Root)]
  BY <1>4, RootSteps, ConcatProperties
<1>7. Len(Root) \in Nat
  BY RootSteps, LenProperties
<1>8. \A n \in 1..Len(Root) : Place(i)[n] = Root[n]
  BY <1>0, <1>1, <1>4, <1>6, <1>7
<1>9. ASSUME NEW d \in 1..m
      PROVE  Place(i)[Len(Root) + d] = inner[d]
  <2>1. Len(Root) + d \in 1..(Len(Root) + Len(inner)) /\ ~(Len(Root) + d <= Len(Root))
        /\ (Len(Root) + d) - Len(Root) = d
    BY <1>0, <1>4, <1>7
  <2> QED BY <1>1, <1>6, <2>1
<1> QED BY <1>1, <1>4, <1>5, <1>6, <1>8, <1>9 DEF m

\* As long as no directory begins or ends the place stays the same.
LEMMA PlacePlain ==
    ASSUME session \in Seq(Record), NEW i \in 1..Len(session), Nest(i),
           session[i].kind \notin {"D", "E"}
    PROVE  Place(i + 1) = Place(i)
<1>0. Len(session) \in Nat /\ i \in Nat \ {0} /\ i + 1 \in 1..(Len(session) + 1)
      /\ i \in 1..(Len(session) + 1) /\ i + 1 \in Nat \ {0}
  BY LenProperties
<1>1. Around(i + 1) = Around(i) /\ Nest(i + 1)
  BY <1>0, NestPlain
<1>2. \A d : Nth(i + 1, d) = Nth(i, d)
  BY <1>1 DEF Nth
<1>3. ASSUME NEW k \in Nat
      PROVE  Place(k) = Root \o [d \in 1..Cardinality(Around(k)) |->
                                    Clean[session[Nth(k, d)].name]]
  BY DEF Place, Nth
<1>4. [d \in 1..Cardinality(Around(i)) |-> Clean[session[Nth(i + 1, d)].name]] =
          [d \in 1..Cardinality(Around(i)) |-> Clean[session[Nth(i, d)].name]]
  BY <1>2
<1> QED BY <1>0, <1>1, <1>3, <1>4

\* A directory that begins adds its name.
LEMMA PlaceEnter ==
    ASSUME session \in Seq(Record), NEW i \in 1..Len(session), Nest(i), session[i].kind = "D",
           session[i].name \notin DOMAIN Drive
    PROVE  Place(i + 1) = Join(Place(i), session[i].name)
<1> DEFINE m == Cardinality(Around(i))
           r == Len(Root)
           name == Clean[session[i].name]
<1>0. /\ Len(session) \in Nat /\ i \in Nat \ {0} /\ i + 1 \in 1..(Len(session) + 1)
      /\ i \in 1..(Len(session) + 1) /\ i + 1 \in Nat \ {0} /\ m \in Nat /\ r \in Nat
  BY LenProperties, RootSteps, AroundFinite
<1>1. /\ Around(i + 1) = Around(i) \cup {i} /\ Nest(i + 1)
      /\ Cardinality(Around(i + 1)) = m + 1
      /\ \A k \in Around(i) : Outside(i + 1, k) = Outside(i, k)
      /\ Outside(i + 1, i) = Around(i + 1)
  BY <1>0, NestEnter
<1>2. name \in Steps
  <2>1. session[i] \in Record
    BY ElementOfSeq
  <2> QED BY <2>1 DEF Record, Steps
<1>3. /\ Place(i) \in Seq(Steps) /\ Len(Place(i)) = r + m
      /\ Place(i + 1) \in Seq(Steps) /\ Len(Place(i + 1)) = r + (m + 1)
      /\ \A n \in 1..r : Place(i)[n] = Root[n] /\ Place(i + 1)[n] = Root[n]
      /\ \A d \in 1..m : Place(i)[r + d] = Clean[session[Nth(i, d)].name]
      /\ \A d \in 1..(m + 1) : Place(i + 1)[r + d] = Clean[session[Nth(i + 1, d)].name]
  BY <1>0, <1>1, PlaceIs
<1>4. ASSUME NEW d \in 1..m
      PROVE  Nth(i + 1, d) = Nth(i, d)
  <2>1. Nth(i, d) \in Around(i) /\ Cardinality(Outside(i, Nth(i, d))) = d
    BY <1>0, NthIs
  <2>2. d \in 1..Cardinality(Around(i + 1))
    BY <1>0, <1>1
  <2> QED BY <1>0, <1>1, <2>1, <2>2, NthIs
<1>5. Nth(i + 1, m + 1) = i
  <2>1. m + 1 \in 1..Cardinality(Around(i + 1)) /\ i \in Around(i + 1)
    BY <1>0, <1>1
  <2> QED BY <1>0, <1>1, <2>1, NthIs
<1> HIDE DEF m, r, name
<1>6. /\ Append(Place(i), name) \in Seq(Steps) /\ Len(Append(Place(i), name)) = r + m + 1
      /\ \A n \in 1..(r + m) : Append(Place(i), name)[n] = Place(i)[n]
      /\ Append(Place(i), name)[r + m + 1] = name
  <2>1. Place(i) \in Seq(Steps) /\ Len(Place(i)) = r + m
    BY <1>3
  <2>2. /\ Append(Place(i), name) \in Seq(Steps)
        /\ Len(Append(Place(i), name)) = Len(Place(i)) + 1
        /\ \A n \in 1..Len(Place(i)) : Append(Place(i), name)[n] = Place(i)[n]
        /\ Append(Place(i), name)[Len(Place(i)) + 1] = name
    BY <1>2, <2>1, AppendProperties
  <2> QED BY ONLY <1>0, <2>1, <2>2
<1>7. ASSUME NEW n \in 1..(r + m + 1)
      PROVE  Place(i + 1)[n] = Append(Place(i), name)[n]
  <2>1. CASE n \in 1..r
    BY <1>0, <1>3, <1>6, <2>1
  <2>2. CASE n \in (r + 1)..(r + m)
    <3>1. PICK d \in 1..m : n = r + d
      <4>1. n - r \in 1..m /\ n = r + (n - r)
        BY <1>0, <2>2
      <4> QED BY <4>1
    <3>2. d \in 1..(m + 1) /\ n \in 1..(r + m)
      BY <1>0, <3>1
    <3>3. Place(i + 1)[r + d] = Clean[session[Nth(i, d)].name]
      BY ONLY <1>3, <1>4, <3>1, <3>2
    <3>4. Place(i)[r + d] = Clean[session[Nth(i, d)].name]
      BY ONLY <1>3, <3>1
    <3>5. Append(Place(i), name)[n] = Place(i)[n]
      BY ONLY <1>6, <3>2
    <3> QED BY ONLY <3>1, <3>3, <3>4, <3>5
  <2>3. CASE n = r + (m + 1)
    <3>1. m + 1 \in 1..(m + 1) /\ r + (m + 1) = r + m + 1
      BY <1>0
    <3>2. Place(i + 1)[r + (m + 1)] = Clean[session[i].name]
      BY <1>3, <1>5, <3>1
    <3> QED BY <1>6, <2>3, <3>1, <3>2 DEF name
  <2>4. n \in 1..r \/ n \in (r + 1)..(r + m) \/ n = r + (m + 1)
    BY <1>0
  <2> QED BY <2>1, <2>2, <2>3, <2>4
<1>8. Len(Place(i + 1)) = Len(Append(Place(i), name)) /\ Len(Place(i + 1)) = r + m + 1
  BY <1>0, <1>3, <1>6
<1>9. Place(i + 1) = Append(Place(i), name)
  BY <1>3, <1>6, <1>7, <1>8, SeqEqual
<1> QED BY <1>9 DEF Join, name

\* A directory that ends takes its name away.
LEMMA PlaceLeave ==
    ASSUME session \in Seq(Record), NEW i \in 1..Len(session), Nest(i), session[i].kind = "E",
           Closed(1, i) <= Begun(1, i)
    PROVE  Place(i + 1) = Parent(Place(i))
<1> DEFINE m == Cardinality(Around(i))
           r == Len(Root)
<1>0. /\ Len(session) \in Nat /\ i \in Nat \ {0} /\ i + 1 \in 1..(Len(session) + 1)
      /\ i \in 1..(Len(session) + 1) /\ i + 1 \in Nat \ {0} /\ m \in Nat /\ r \in Nat
  BY LenProperties, RootSteps, AroundFinite
<1>1. /\ Around(i + 1) \subseteq Around(i) /\ Nest(i + 1) /\ m # 0
      /\ Cardinality(Around(i + 1)) = m - 1
      /\ \A k \in Around(i + 1) : Outside(i + 1, k) = Outside(i, k)
  BY <1>0, NestLeave
<1>3. /\ Place(i) \in Seq(Steps) /\ Len(Place(i)) = r + m
      /\ Place(i + 1) \in Seq(Steps) /\ Len(Place(i + 1)) = r + (m - 1)
      /\ \A n \in 1..r : Place(i)[n] = Root[n] /\ Place(i + 1)[n] = Root[n]
      /\ \A d \in 1..m : Place(i)[r + d] = Clean[session[Nth(i, d)].name]
      /\ \A d \in 1..(m - 1) : Place(i + 1)[r + d] = Clean[session[Nth(i + 1, d)].name]
  BY <1>0, <1>1, PlaceIs
<1>4. ASSUME NEW d \in 1..(m - 1)
      PROVE  Nth(i + 1, d) = Nth(i, d)
  <2>1. /\ Nth(i + 1, d) \in Around(i + 1)
        /\ Cardinality(Outside(i + 1, Nth(i + 1, d))) = d
    BY <1>0, <1>1, NthIs
  <2>2. d \in 1..Cardinality(Around(i))
    BY <1>0
  <2> QED BY <1>0, <1>1, <2>1, <2>2, NthIs
<1> HIDE DEF m, r
<1>5. Place(i) # <<>> /\ Place(i) \notin {<<Drive[d]>> : d \in DOMAIN Drive}
  <2>1. Place(i) # <<>>
    BY <1>0, <1>1, <1>3, EmptySeq
  <2>2. Place(i)[1] \in Steps
    BY <1>0, <1>1, <1>3, ElementOfSeq
  <2>3. \A d \in DOMAIN Drive : Drive[d] \notin Steps /\ <<Drive[d]>>[1] = Drive[d]
    BY ScpConstants DEF Steps
  <2> QED BY <2>1, <2>2, <2>3
<1>6. Parent(Place(i)) = SubSeq(Place(i), 1, r + m - 1)
  <2>1. Parent(Place(i)) = SubSeq(Place(i), 1, Len(Place(i)) - 1)
    BY <1>5 DEF Parent
  <2>2. Len(Place(i)) - 1 = r + m - 1
    BY <1>0, <1>3
  <2> QED BY ONLY <2>1, <2>2
<1>7. \A n \in 1..(r + m - 1) : Place(i)[n] \in Steps
  BY <1>0, <1>3, ElementOfSeq
<1>8. /\ SubSeq(Place(i), 1, r + m - 1) \in Seq(Steps)
      /\ Len(SubSeq(Place(i), 1, r + m - 1)) = r + m - 1
      /\ \A n \in 1..(r + m - 1) : SubSeq(Place(i), 1, r + m - 1)[n] = Place(i)[n]
  <2>1. r + m - 1 \in Int /\ 1 \in Int /\ (1 <= r + m - 1 \/ r + m - 1 = 0)
        /\ (r + m - 1) - 1 + 1 = r + m - 1
    BY <1>0, <1>1
  <2> QED BY <1>7, <2>1, SubSeqProperties
<1>9. ASSUME NEW n \in 1..(r + m - 1)
      PROVE  Place(i + 1)[n] = Place(i)[n]
  <2>1. CASE n \in 1..r
    BY <1>3, <2>1
  <2>2. CASE n \in (r + 1)..(r + m - 1)
    <3>1. PICK d \in 1..(m - 1) : n = r + d
      <4>1. n - r \in 1..(m - 1) /\ n = r + (n - r)
        BY <1>0, <2>2
      <4> QED BY <4>1
    <3>2. d \in 1..m
      BY <1>0, <3>1
    <3> QED BY <1>3, <1>4, <3>1, <3>2
  <2> QED BY <1>0, <2>1, <2>2
<1>10. Len(Place(i + 1)) = r + m - 1
  BY <1>0, <1>3
<1>11. Place(i + 1) = SubSeq(Place(i), 1, r + m - 1)
  BY <1>3, <1>8, <1>9, <1>10, SeqEqual
<1> QED BY <1>6, <1>11
------------------------------------------------------------------------------
(* Files land in place                                                        *)

\* `current` is the place of the record that is read next, as long as none led
\* out of the shared folder.
InPlace == Running => \A i \in {item} : StaysInside(i) => cur = Place(i) /\ Nest(i)

\* What depends on the session alone stays as long as the session does.
LEMMA SameSession ==
    ASSUME session' = session
    PROVE  \A i : Place(i)' = Place(i) /\ (Nest(i)' <=> Nest(i)) /\ (StaysInside(i)' <=> StaysInside(i))
<1>1. \A k, i, j : Among(k, i, j)' = Among(k, i, j)
  BY DEF Among
<1>2. \A i : Around(i)' = Around(i)
  BY DEF Around, Among
<1>3. \A i : Place(i)' = Place(i)
  <2> TAKE i
  <2> QED BY DEF Place, Around, Among
<1>4. /\ \A i, j : Begun(i, j)' = Begun(i, j) /\ Closed(i, j)' = Closed(i, j)
      /\ \A i, j : Inside(i, j)' = Inside(i, j) /\ Outside(i, j)' = Outside(i, j)
  BY <1>1, <1>2 DEF Begun, Closed, Inside, Outside
<1>5. \A i : Nest(i)' <=> Nest(i)
  <2> TAKE i
  <2> QED BY <1>2, <1>4 DEF Nest
<1>6. \A i : StaysInside(i)' <=> StaysInside(i)
  <2> TAKE i
  <2> QED BY <1>1 DEF StaysInside
<1> QED BY <1>3, <1>5, <1>6

\* Who has stayed inside up to a record had done so before it.
LEMMA StayedInside ==
    ASSUME NEW i \in Nat, NEW k \in Nat, i <= k, StaysInside(k)
    PROVE  StaysInside(i)
  BY DEF StaysInside

\* A line that is read is the line of the next record, and there is one.
LEMMA LineRead ==
    ASSUME InStep, NEW k \in Kinds, ReadLine(k)
    PROVE  /\ item \in 1..Len(session) /\ Rec.kind = k /\ taken = item - 1 /\ pc = "line"
           /\ item' = IF k \in {"C", "B"} THEN item ELSE item + 1
<1>0. session \in Seq(Record) /\ Len(session) \in Nat
  BY LenProperties DEF InStep, TypeOK
<1>1. pc = "line" /\ byte = 0 /\ Rec.kind = k /\ Arrived /\ SinkAdvances
  BY DEF ReadLine
<1>2. item \in 1..Len(session)
  BY <1>0, <1>1 DEF InStep, TypeOK, Turns, Arrived
<1>3. taken = item - 1
  BY <1>1 DEF InStep, Counts, Running
<1>4. session[item].kind = k /\ session[item].size \in Nat
  BY <1>0, <1>1, <1>2, RecordTyped DEF Rec
<1>5. item' = IF k \in {"C", "B"} THEN item ELSE item + 1
  BY <1>1, <1>4 DEF SinkAdvances, AtEnd, Kinds
<1> QED BY <1>1, <1>2, <1>3, <1>5

\* A byte of the contents does not end the record; the terminator of a file
\* that was read to its end does, and it is no directory.
LEMMA FileRead ==
    ASSUME InStep
    PROVE  /\ pc \in {"create", "payload", "flush", "trailer"} =>
                 item \in 1..Len(session) /\ Rec.kind \in {"C", "B"} /\ Rec.size \in Nat
           /\ ReadPayload => item' = item
           /\ ReadTrailer => item' = IF Rec.kind = "C" THEN item + 1 ELSE item
<1>0. session \in Seq(Record) /\ Len(session) \in Nat
  BY LenProperties DEF InStep, TypeOK
<1>1. ASSUME pc \in {"create", "payload", "flush", "trailer"}
      PROVE  item \in 1..Len(session) /\ Rec.kind \in {"C", "B"} /\ Rec.size \in Nat
  <2>1. IsFile /\ item \in 1..Len(session)
    BY <1>0, <1>1 DEF InStep, TypeOK, Framing, IsFile
  <2> QED BY <1>0, <2>1, RecordTyped DEF IsFile, Rec
<1>2. ASSUME ReadPayload PROVE item' = item
  <2>1. /\ pc = "payload" /\ SinkAdvances /\ left \in 1..Rec.size
        /\ byte + left = Rec.size + 1 /\ byte \in Nat
    BY <1>2 DEF ReadPayload, InStep, TypeOK, Framing
  <2>2. session[item].kind \in {"C", "B"} /\ session[item].size \in Nat
    BY <1>1, <2>1 DEF Rec
  <2>3. ~AtEnd(item, byte)
    BY <2>1, <2>2 DEF AtEnd, Rec
  <2> QED BY <2>1, <2>3 DEF SinkAdvances
<1>3. ASSUME ReadTrailer PROVE item' = IF Rec.kind = "C" THEN item + 1 ELSE item
  <2>1. pc = "trailer" /\ SinkAdvances /\ byte = Rec.size + 1
    BY <1>3 DEF ReadTrailer, InStep, Framing
  <2>2. session[item].kind \in {"C", "B"} /\ session[item].size \in Nat
    BY <1>1, <2>1 DEF Rec
  <2>3. AtEnd(item, byte) <=> Rec.kind = "C"
    BY <2>1, <2>2 DEF AtEnd, Rec
  <2> QED BY <2>1, <2>3 DEF SinkAdvances
<1> QED BY <1>1, <1>2, <1>3

\* No step writes the records again, and the sink never goes back.
LEMMA Onwards ==
    ASSUME InStep, [Next]_vars
    PROVE  session' = session /\ item <= item' /\ item \in Nat /\ item' \in Nat
<1>1. session' = session
  BY DEF Next, PeerStep, SinkStep, PeerWrites, PeerReadsAck, PeerFinishes, PeerGivesUp,
     PeerLost, Ack, ReadFile, EnterDir, LeaveDir, ReadTimes, LineRefused, UnexpectedByte,
     CreateFile, ReadPayload, FlushFile, ReadTrailer, DiskFails, EndOfStream, AckFails,
     Fail, vars, source
<1>2. item' = item \/ item' = item + 1
  BY DEF Next, PeerStep, SinkStep, PeerWrites, PeerReadsAck, PeerFinishes, PeerGivesUp,
     PeerLost, Ack, ReadFile, EnterDir, LeaveDir, ReadTimes, LineRefused, UnexpectedByte,
     CreateFile, ReadPayload, FlushFile, ReadTrailer, DiskFails, EndOfStream, AckFails,
     ReadLine, SinkAdvances, vars, sink
<1>3. item \in Nat
  BY LenProperties DEF InStep, TypeOK
<1> QED BY <1>1, <1>2, <1>3

\* Every step keeps the sink in the place of the record it reads next.
LEMMA NextInPlace ==
    ASSUME InStep, InPlace, [Next]_vars
    PROVE  InPlace'
<1>1. session' = session
  BY Onwards
<1>2. session \in Seq(Record) /\ Len(session) \in Nat
  BY LenProperties DEF InStep, TypeOK
<1>3. ASSUME ~Running' PROVE InPlace'
  BY <1>3 DEF InPlace
<1>4. ASSUME Running, cur' = cur, item' = item PROVE InPlace'
  BY <1>1, <1>4, SameSession DEF InPlace
<1>5. ASSUME Running, item' = item + 1,
             StaysInside(item + 1) => cur' = Place(item + 1) /\ Nest(item + 1)
      PROVE  InPlace'
  BY <1>1, <1>5, SameSession DEF InPlace
<1>6. CASE PeerStep \/ PeerLost \/ UNCHANGED vars
  <2>1. UNCHANGED <<pc, cur, item>>
    BY <1>6 DEF PeerStep, PeerWrites, PeerReadsAck, PeerFinishes, PeerGivesUp, PeerLost, sink,
       vars
  <2> QED BY <2>1, <1>3, <1>4 DEF Running
<1>7. CASE Ack \/ CreateFile \/ FlushFile
  BY <1>7, <1>4 DEF Ack, CreateFile, FlushFile, Running
<1>8. CASE ReadPayload
  BY <1>8, <1>4, FileRead DEF ReadPayload, Running
<1>9. CASE LineRefused \/ UnexpectedByte \/ DiskFails \/ EndOfStream \/ AckFails
  BY <1>9, <1>3 DEF LineRefused, UnexpectedByte, DiskFails, EndOfStream, AckFails, Fail, Running
<1>10. CASE ReadFile
  <2>1. PICK k \in {"C", "B"} : ReadLine(k)
    BY <1>10 DEF ReadFile
  <2>2. item' = item /\ pc = "line"
    BY <2>1, LineRead DEF Kinds
  <2> QED BY <1>4, <1>10, <2>2 DEF ReadFile, Running
<1>11. ASSUME NEW k \in {"D", "E", "T"}, ReadLine(k)
       PROVE  /\ Running /\ item \in 1..Len(session) /\ session[item].kind = k
              /\ item \in Nat \ {0} /\ item' = item + 1
              /\ StaysInside(item + 1) => StaysInside(item) /\ cur = Place(item) /\ Nest(item)
  <2>1. item \in 1..Len(session) /\ Rec.kind = k /\ pc = "line" /\ item' = item + 1
    BY <1>11, LineRead DEF Kinds
  <2>2. item \in Nat /\ item + 1 \in Nat /\ item <= item + 1 /\ item # 0
    BY <1>2, <2>1
  <2> QED BY <1>2, <2>1, <2>2, StayedInside DEF Rec, Running, InPlace
<1>12. CASE EnterDir
  <2>1. ReadLine("D") /\ cur' = Join(cur, session[item].name)
    BY <1>12 DEF EnterDir, Dest, Rec
  <2>2. /\ Running /\ item \in 1..Len(session) /\ session[item].kind = "D"
        /\ item \in Nat \ {0} /\ item' = item + 1
        /\ StaysInside(item + 1) => StaysInside(item) /\ cur = Place(item) /\ Nest(item)
    BY <1>11, <2>1
  <2>3. ASSUME StaysInside(item + 1)
        PROVE  Nest(item + 1) /\ Place(item + 1) = cur'
    <3>1. session[item].name \notin DOMAIN Drive
      BY <2>2, <2>3 DEF StaysInside
    <3> QED BY <1>2, <2>1, <2>2, <2>3, <3>1, NestEnter, PlaceEnter
  <2> QED BY <1>5, <2>2, <2>3
<1>13. CASE LeaveDir
  <2>1. ReadLine("E") /\ cur' = Parent(cur)
    BY <1>13 DEF LeaveDir
  <2>2. /\ Running /\ item \in 1..Len(session) /\ session[item].kind = "E"
        /\ item \in Nat \ {0} /\ item' = item + 1
        /\ StaysInside(item + 1) => StaysInside(item) /\ cur = Place(item) /\ Nest(item)
    BY <1>11, <2>1
  <2>4. ASSUME StaysInside(item + 1)
        PROVE  Nest(item + 1) /\ Place(item + 1) = cur'
    <3>1. Closed(1, item) <= Begun(1, item)
      BY <2>2, <2>4 DEF StaysInside, Closed, Begun
    <3> QED BY <1>2, <2>1, <2>2, <2>4, <3>1, NestLeave, PlaceLeave
  <2> QED BY <1>5, <2>2, <2>4
<1>14. CASE ReadTimes
  <2>1. ReadLine("T") /\ cur' = cur
    BY <1>14 DEF ReadTimes
  <2>2. /\ Running /\ item \in 1..Len(session) /\ session[item].kind = "T"
        /\ item \in Nat \ {0} /\ item' = item + 1
        /\ StaysInside(item + 1) => StaysInside(item) /\ cur = Place(item) /\ Nest(item)
    BY <1>11, <2>1
  <2>3. ASSUME StaysInside(item + 1)
        PROVE  Nest(item + 1) /\ Place(item + 1) = cur'
    BY <1>2, <2>1, <2>2, <2>3, NestPlain, PlacePlain
  <2> QED BY <1>5, <2>2, <2>3
<1>15. CASE ReadTrailer
  <2>1. pc = "trailer" /\ cur' = cur /\ Running
    BY <1>15 DEF ReadTrailer, Running
  <2>2. item \in 1..Len(session) /\ item \in Nat \ {0} /\ Rec.kind \in {"C", "B"}
    BY <1>2, <2>1, FileRead
  <2>3. CASE Rec.kind = "B"
    BY <1>4, <1>15, <2>1, <2>3, FileRead
  <2>4. CASE Rec.kind = "C"
    <3>1. item' = item + 1 /\ session[item].kind = "C"
      BY <1>15, <2>4, FileRead DEF Rec
    <3>3. ASSUME StaysInside(item + 1)
          PROVE  Nest(item + 1) /\ Place(item + 1) = cur
      <4>1. StaysInside(item)
        BY <2>2, <3>3, StayedInside
      <4>2. cur = Place(item) /\ Nest(item)
        BY <2>1, <4>1 DEF InPlace
      <4> QED BY <1>2, <2>2, <3>1, <4>2, NestPlain, PlacePlain
    <3> QED BY <1>5, <2>1, <3>1, <3>3
  <2> QED BY <2>2, <2>3, <2>4
<1> QED
  BY <1>6, <1>7, <1>8, <1>9, <1>10, <1>12, <1>13, <1>14, <1>15 DEF Next, SinkStep

\* Where record i lands, that it lies there whole, and that a later record of
\* the same place was begun.
Landing(i) == Join(Place(i), session[i].name)
Whole(i) == Landing(i) \in DOMAIN disk /\ disk[Landing(i)] = <<i, session[i].size>>
Replaced(i) ==
    \E k \in (i + 1)..Len(session) :
        session[k].kind \in {"C", "B"} /\ k <= item /\ Landing(k) = Landing(i)

LEMMA Lands ==
    LandsInPlace <=> (StaysInside(item) =>
        \A i \in 1..taken : session[i].kind = "C" => Whole(i) \/ Replaced(i))
  BY DEF LandsInPlace, Whole, Replaced, Landing

\* A file that was received stays where it lies until one replaces it.
LEMMA NextLands ==
    ASSUME InStep, InPlace, LandsInPlace, [Next]_vars
    PROVE  LandsInPlace'
<1> SUFFICES ASSUME StaysInside(item)'
             PROVE  LandsInPlace'
  BY DEF LandsInPlace
<1>1. session' = session /\ item <= item' /\ item \in Nat /\ item' \in Nat
  BY Onwards
<1>2. /\ session \in Seq(Record) /\ Len(session) \in Nat /\ taken \in Nat
      /\ taken <= Len(session)
  BY LenProperties DEF InStep, TypeOK
<1>i. StaysInside(item)
  <2>1. StaysInside(item')
    BY <1>1, SameSession DEF StaysInside
  <2> QED BY <1>1, <2>1, StayedInside
<1>3. \A i : Landing(i)' = Landing(i)
  BY <1>1, SameSession DEF Landing, Join
<1>4. \A i \in Nat : Replaced(i) => Replaced(i)'
  <2> SUFFICES ASSUME NEW i \in Nat, Replaced(i) PROVE Replaced(i)'
    OBVIOUS
  <2>1. PICK k \in (i + 1)..Len(session) :
            session[k].kind \in {"C", "B"} /\ k <= item /\ Landing(k) = Landing(i)
    BY DEF Replaced
  <2>2. k <= item'
    BY <1>1, <1>2, <2>1
  <2> QED BY <1>1, <1>3, <2>1, <2>2 DEF Replaced
<1>5. \A i : Landing(i) \in DOMAIN disk' /\ disk'[Landing(i)] = <<i, session[i].size>> => Whole(i)'
  BY <1>1, <1>3 DEF Whole
<1>6. ASSUME NEW i \in 1..taken, session[i].kind = "C",
             \/ disk' = disk
             \/ \E what : Put(Landing(i), what) /\ Replaced(i)'
             \/ \E path, what : Put(path, what) /\ path # Landing(i)
      PROVE  Whole(i)' \/ Replaced(i)'
  <2>1. Whole(i) \/ Replaced(i)
    BY <1>6, <1>i, Lands
  <2>2. CASE Replaced(i)
    BY <1>2, <1>4, <2>2
  <2>3. CASE Whole(i)
    <3>1. CASE disk' = disk
      BY <1>5, <2>3, <3>1 DEF Whole
    <3>2. CASE \E path, what : Put(path, what) /\ path # Landing(i)
      BY <1>5, <2>3, <3>2 DEF Whole, Put
    <3> QED BY <1>6, <3>1, <3>2
  <2> QED BY <2>1, <2>2, <2>3
<1>7. ASSUME \A i \in 1..taken' : session[i].kind = "C" => Whole(i)' \/ Replaced(i)'
      PROVE  LandsInPlace'
  BY <1>1, <1>7 DEF LandsInPlace, Whole, Replaced, Landing
<1>8. ASSUME disk' = disk,
             \/ taken' = taken
             \/ taken' = taken + 1 /\ session[taken + 1].kind # "C"
      PROVE  LandsInPlace'
  <2>1. ASSUME NEW i \in 1..taken', session[i].kind = "C"
        PROVE  Whole(i)' \/ Replaced(i)'
    <3>1. i \in 1..taken
      BY <1>2, <1>8, <2>1
    <3> QED BY <1>6, <1>8, <2>1, <3>1
  <2> QED BY <1>7, <2>1
<1>9. CASE PeerStep \/ PeerLost \/ UNCHANGED vars
  <2>1. UNCHANGED <<disk, taken>>
    BY <1>9 DEF PeerStep, PeerWrites, PeerReadsAck, PeerFinishes, PeerGivesUp, PeerLost, sink,
       vars
  <2> QED BY <1>8, <2>1
<1>10. CASE \/ Ack \/ ReadFile \/ LineRefused \/ UnexpectedByte \/ ReadTrailer \/ DiskFails
            \/ EndOfStream \/ AckFails
  BY <1>8, <1>10 DEF Ack, ReadFile, LineRefused, UnexpectedByte, ReadTrailer, DiskFails,
     EndOfStream, AckFails, Fail
<1>11. CASE LeaveDir \/ ReadTimes
  <2>1. PICK k \in {"E", "T"} : ReadLine(k)
    BY <1>11 DEF LeaveDir, ReadTimes
  <2>2. Rec.kind = k /\ taken + 1 = item
    BY <1>1, <2>1, LineRead DEF Kinds
  <2> QED BY <1>8, <1>11, <2>2 DEF LeaveDir, ReadTimes, Rec
<1>12. CASE EnterDir
  <2>1. /\ ReadLine("D") /\ ~IsPlainFile(Dest) /\ Put(Dest, Dir) /\ taken' = taken + 1
    BY <1>12 DEF EnterDir
  <2>2. session[item].kind = "D" /\ taken + 1 = item
    BY <1>1, <2>1, LineRead DEF Kinds, Rec
  <2>3. ASSUME NEW i \in 1..taken', session[i].kind = "C"
        PROVE  Whole(i)' \/ Replaced(i)'
    <3>1. i \in 1..taken /\ i # 0
      BY <1>2, <2>1, <2>2, <2>3
    <3>2. CASE Replaced(i)
      BY <1>2, <1>4, <3>1, <3>2
    <3>3. CASE Whole(i)
      <4>1. Dest # Landing(i)
        BY <2>1, <3>1, <3>3 DEF Whole, IsPlainFile, Dir
      <4> QED BY <1>6, <2>1, <2>3, <3>1, <4>1
    <3> QED BY <2>3, <3>1, <3>2, <3>3, <1>i, Lands
  <2> QED BY <1>7, <2>3
<1>13. ASSUME pc \in {"create", "payload", "flush"}
       PROVE  /\ item \in 1..Len(session) /\ session[item].kind \in {"C", "B"}
              /\ taken + 1 = item /\ Dest = Landing(item) /\ session[item].size \in Nat
  <2>1. item \in 1..Len(session) /\ Rec.kind \in {"C", "B"} /\ Rec.size \in Nat
    BY <1>13, FileRead
  <2>2. taken = item - 1
    BY <1>13 DEF InStep, Counts, Running
  <2>3. cur = Place(item)
    BY <1>13, <1>i DEF InPlace, Running
  <2> QED BY <1>1, <2>1, <2>2, <2>3 DEF Rec, Dest, Landing
<1>14. CASE CreateFile
  <2>1. pc = "create" /\ Put(Dest, <<item, 0>>) /\ item' = item /\ taken' = taken
    BY <1>14 DEF CreateFile
  <2>2. ASSUME NEW i \in 1..taken', session[i].kind = "C"
        PROVE  Whole(i)' \/ Replaced(i)'
    <3>1. i \in 1..taken /\ item \in (i + 1)..Len(session)
      BY <1>1, <1>2, <1>13, <2>1, <2>2
    <3>2. CASE Dest = Landing(i)
      <4>1. Landing(item) = Landing(i) /\ session[item].kind \in {"C", "B"} /\ item <= item'
        BY <1>1, <1>13, <2>1, <3>2
      <4>2. Landing(item)' = Landing(i)'
        BY <1>3, <2>1, <4>1
      <4> QED BY <1>1, <1>3, <3>1, <4>1 DEF Replaced
    <3>3. CASE Dest # Landing(i)
      BY <1>6, <2>1, <2>2, <3>1, <3>3
    <3> QED BY <3>2, <3>3
  <2> QED BY <1>7, <2>2
<1>15. CASE ReadPayload
  <2>1. pc = "payload" /\ taken' = taken /\ \E what : Put(Dest, what)
    BY <1>15 DEF ReadPayload
  <2>2. disk[Dest][1] = item
    BY <2>1 DEF InStep, Writing
  <2>3. ASSUME NEW i \in 1..taken', session[i].kind = "C"
        PROVE  Whole(i)' \/ Replaced(i)'
    <3>1. i \in 1..taken /\ i # item
      BY <1>1, <1>2, <1>13, <2>1, <2>3
    <3>2. CASE Replaced(i)
      BY <1>2, <1>4, <3>1, <3>2
    <3>3. CASE Whole(i)
      <4>1. Dest # Landing(i)
        BY <2>2, <3>1, <3>3 DEF Whole
      <4> QED BY <1>6, <2>1, <2>3, <3>1, <4>1
    <3> QED BY <2>3, <3>1, <3>2, <3>3, <1>i, Lands
  <2> QED BY <1>7, <2>3
<1>16. CASE FlushFile
  <2>1. pc = "flush" /\ disk' = disk /\ taken' = taken + 1
    BY <1>16 DEF FlushFile
  <2>2. Whole(item)
    <3>1. left = 0 /\ Dest \in DOMAIN disk /\ disk[Dest] = <<item, Rec.size - left>>
      BY <2>1 DEF InStep, Framing, Writing
    <3>2. Rec.size - left = session[item].size
      BY <1>13, <2>1, <3>1 DEF Rec
    <3> QED BY <1>13, <2>1, <3>1, <3>2 DEF Whole
  <2>4. ASSUME NEW i \in 1..taken', session[i].kind = "C"
        PROVE  Whole(i)' \/ Replaced(i)'
    <3>1. CASE i = item
      BY <1>5, <2>1, <2>2, <3>1 DEF Whole
    <3>2. CASE i # item
      <4>1. i \in 1..taken
        BY <1>1, <1>2, <1>13, <2>1, <2>4, <3>2
      <4> QED BY <1>6, <2>1, <2>4, <4>1
    <3> QED BY <3>1, <3>2
  <2> QED BY <1>7, <2>4
<1> QED
  BY <1>9, <1>10, <1>11, <1>12, <1>14, <1>15, <1>16 DEF Next, SinkStep

\* At first the sink is in the shared folder, around nothing.
LEMMA InitInPlace == Init => InPlace /\ LandsInPlace
<1> SUFFICES ASSUME Init PROVE InPlace /\ LandsInPlace
  OBVIOUS
<1>1. /\ Among("D", 1, 0) = {} /\ Among("E", 1, 0) = {} /\ Around(1) = {}
      /\ Inside(1, 1) = {}
  BY DEF Around, Among, Inside
<1>2. /\ Cardinality({}) = 0 /\ 1 - 1 = 0
  BY FS_EmptySet
<1>3. Nest(1)
  BY <1>1, <1>2 DEF Nest, Begun, Closed
<1>4. Place(1) = Root
  <2>1. session \in Seq(Record) /\ Len(session) \in Nat /\ 1 \in 1..(Len(session) + 1)
    BY ScpConstants, LenProperties DEF Init
  <2>2. Place(1) \in Seq(Steps) /\ Len(Place(1)) = Len(Root) + 0
        /\ \A n \in 1..Len(Root) : Place(1)[n] = Root[n]
    BY <1>1, <1>2, <1>3, <2>1, PlaceIs
  <2>3. Root \in Seq(Steps) /\ Len(Root) \in Nat
    BY RootSteps, LenProperties
  <2>4. Len(Place(1)) = Len(Root)
    BY <2>2, <2>3
  <2> QED BY <2>2, <2>3, <2>4, SeqEqual
<1>5. InPlace
  BY <1>3, <1>4 DEF Init, InPlace
<1>6. LandsInPlace
  BY DEF Init, LandsInPlace
<1> QED BY <1>5, <1>6

\* In every session, as long as no directory with a drive in its name and no end
\* of a directory that was not begun has led out of the shared folder, every file
\* that was received lies where its name and the directory records around it say,
\* with all its bytes, unless a later record of the same place replaced it
\* (scp_receive, ssh_server.rs:902-1003).
THEOREM LandsInvariant == Spec => []LandsInPlace
<1> QED
  BY InitInPlace, NextInPlace, NextLands, InStepInvariant, PTL DEF Spec
=============================================================================
