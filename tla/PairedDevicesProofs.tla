------------------------- MODULE PairedDevicesProofs -------------------------
(* Proofs about PairedDevices, for any phones, sessions and bounds: who       *)
(* registers, and that the two files agree with what phones were told.        *)
EXTENDS PairedDevices, TLAPS

\* Where the key of a session is in the file, or could not be written.
KeyDone == {"end key", "read ips", "append ip", "end ip", "reply", "told"}
KeyTried == KeyDone \cup {"gone"}

Covered == Authorized \cup overlap

\* A token that is current now was current when the session connected.
TokensAge ==
    /\ \A p \in Phones : scanned[p] <= token
    /\ \A s \in Sessions :
          /\ user[s] <= token
          /\ user[s] = token => s \in fresh
          /\ s \in pairing => s \in fresh
          /\ pc[s] \in Registering => s \in fresh

KeysKept ==
    \A s \in Sessions :
        /\ pc[s] \in KeyDone => PhoneOf[s] \in Covered \/ s \in failed
        /\ s \in failed => pc[s] \in KeyTried \ {"end key"}

PairedInv == TypeOK /\ TokensAge /\ KeysKept /\ PairedIsAuthorized

\* What a line that was just appended to can be.
LEMMA AppendOne ==
    ASSUME NEW o \in Seq(Phones), NEW p \in Phones, NEW q \in Phones
    PROVE  Append(o, p) = <<q>> <=> (o = <<>> /\ p = q)
<1>1. Len(Append(o, p)) = Len(o) + 1 /\ Append(o, p)[Len(o) + 1] = p
  OBVIOUS
<1>2. Len(<<q>>) = 1 /\ <<q>>[1] = q
  OBVIOUS
<1>3. Len(o) = 0 <=> o = <<>>
  OBVIOUS
<1>4. CASE Append(o, p) = <<q>>
  BY <1>1, <1>2, <1>3, <1>4
<1>5. CASE o = <<>> /\ p = q
  BY <1>5
<1> QED BY <1>4, <1>5

\* An appended text keeps the lines of other phones that are complete.
LEMMA TextHas ==
    ASSUME NEW f \in File, NEW p \in Phones, NEW q \in Phones
    PROVE  /\ Text(f, p) \in File
           /\ Has(Text(f, p), q) <=> (<<q>> \in f.lines \/ (f.open = <<>> /\ p = q))
<1>1. f.open \in Seq(Phones) /\ f.lines \in SUBSET Seq(Phones)
  BY DEF File
<1>2. Text(f, p).open = Append(f.open, p) /\ Text(f, p).lines = f.lines
  BY DEF Text
<1>3. Append(f.open, p) \in Seq(Phones)
  BY <1>1
<1>5. Text(f, p) \in File
  BY <1>1, <1>3 DEF Text, File
<1>6. Has(Text(f, p), q) <=> (<<q>> \in f.lines \/ <<q>> = Append(f.open, p))
  BY <1>2 DEF Has
<1> QED BY <1>1, <1>5, <1>6, AppendOne

\* The end of a line changes nothing of what is read.
LEMMA NewLineHas ==
    ASSUME NEW f \in File, NEW q \in Phones
    PROVE  NewLine(f) \in File /\ (Has(NewLine(f), q) <=> Has(f, q))
<1>1. f.open \in Seq(Phones) /\ f.lines \in SUBSET Seq(Phones)
  BY DEF File
<1>2. CASE f.open = <<>>
  BY <1>2 DEF NewLine
<1>3. CASE f.open # <<>>
  <2>1. NewLine(f) = [lines |-> f.lines \cup {f.open}, open |-> <<>>]
    BY <1>3 DEF NewLine
  <2>2. <<>> \in Seq(Phones) /\ f.lines \cup {f.open} \in SUBSET Seq(Phones)
    BY <1>1
  <2>3. <<q>> # <<>>
    OBVIOUS
  <2> QED BY <2>1, <2>2, <2>3 DEF File, Has
<1> QED BY <1>2, <1>3






\* The actions of a step, one by one.
LEMMA StepCases ==
    ASSUME [Next]_vars
    PROVE  \/ Regenerate \/ Restart
           \/ \E p \in Phones : Scan(p) \/ Move(p) \/ PingHangs(p) \/ Ping(p)
           \/ BeginRound \/ EndRound
           \/ \E s \in Sessions : Connect(s) \/ Handler(s)
           \/ UNCHANGED vars
BY DEF Next, Checker

\* Of the steps of a handler two append to the file of the keys.
LEMMA KeysTouched ==
    ASSUME [Next]_vars
    PROVE  \/ \E s \in Sessions : AppendKey(s) \/ EndKey(s)
           \/ UNCHANGED <<keys, overlap>>
<1> USE DEF files, session, checker, vars, Outside, Elsewhere, Others, ReadFile
<1>1. CASE Regenerate \/ Restart
  BY <1>1 DEF Regenerate, Restart
<1>2. CASE \E p \in Phones : Scan(p) \/ Move(p) \/ PingHangs(p) \/ Ping(p)
  BY <1>2 DEF Scan, Move, PingHangs, Ping
<1>3. CASE BeginRound \/ EndRound \/ UNCHANGED vars
  BY <1>3 DEF BeginRound, EndRound
<1>4. ASSUME NEW s \in Sessions, Connect(s) \/ Handler(s)
      PROVE  AppendKey(s) \/ EndKey(s) \/ UNCHANGED <<keys, overlap>>
  BY <1>4 DEF Connect, Handler, Authenticate, TakePairing, AddKey, ReadKeys, KeyFails,
              ReadIps, AppendIp, EndIp, IpFails, Reply
<1> QED BY <1>1, <1>2, <1>3, <1>4, StepCases

\* A key that is in the file, or shares a line of it, stays so.
LEMMA CoveredGrows ==
    ASSUME TypeOK, [Next]_vars, NEW q \in Covered
    PROVE  q \in Covered'
<1>0. q \in Phones /\ keys \in File /\ keys.open \in Seq(Phones)
  BY DEF TypeOK, Covered, Authorized, File
<1>1. ASSUME NEW s \in Sessions, AppendKey(s)
      PROVE  q \in Covered'
  <2>0. PhoneOf[s] \in Phones
    BY PairedConstants
  <2>1. keys' = Text(keys, PhoneOf[s])
    BY <1>1 DEF AppendKey
  <2>2. CASE keys.open = <<q>>
    <3>1. keys.open # <<>> /\ 1 \in 1..Len(keys.open) /\ keys.open[1] = q
      BY <2>2
    <3>2. q \in overlap'
      BY <1>1, <3>1 DEF AppendKey
    <3> QED BY <3>2 DEF Covered
  <2>3. CASE <<q>> \in keys.lines
    <3>1. Has(Text(keys, PhoneOf[s]), q)
      BY <1>0, <2>0, <2>3, TextHas
    <3> QED BY <1>0, <2>1, <3>1 DEF Covered, Authorized
  <2>4. CASE q \in overlap
    BY <1>1, <2>4 DEF AppendKey, Covered
  <2>5. q \in overlap \/ <<q>> \in keys.lines \/ keys.open = <<q>>
    BY DEF Covered, Authorized, Has
  <2> QED BY <2>2, <2>3, <2>4, <2>5
<1>2. ASSUME NEW s \in Sessions, EndKey(s)
      PROVE  q \in Covered'
  <2>1. keys' = NewLine(keys) /\ overlap' = overlap
    BY <1>2 DEF EndKey
  <2>2. Has(NewLine(keys), q) <=> Has(keys, q)
    BY <1>0, NewLineHas
  <2> QED BY <1>0, <2>1, <2>2 DEF Covered, Authorized
<1>3. CASE UNCHANGED <<keys, overlap>>
  BY <1>3 DEF Covered, Authorized
<1> QED BY <1>1, <1>2, <1>3, KeysTouched

LEMMA TypeNext ==
    ASSUME TypeOK, [Next]_vars
    PROVE  TypeOK'
<1> USE DEF files, session, checker, vars, Outside, TypeOK
<1>1. CASE Regenerate
  <2>1. token \in Nat /\ token > 0 /\ token' = token + 1
    BY <1>1 DEF Regenerate
  <2>2. token' \in Nat /\ token' > 0
    BY ONLY <2>1
  <2>3. UNCHANGED <<scanned, keys, ips, pc, user, pairing, fresh, failed, overlap>>
    BY <1>1 DEF Regenerate
  <2> QED BY ONLY TypeOK, <2>2, <2>3 DEF TypeOK
<1>2. CASE Restart
  BY <1>2 DEF Restart
<1>3. ASSUME NEW p \in Phones, Scan(p)
      PROVE  TypeOK'
  BY <1>3 DEF Scan
<1>4. ASSUME NEW p \in Phones, Move(p)
      PROVE  TypeOK'
  BY <1>4 DEF Move
<1>5. ASSUME NEW p \in Phones, PingHangs(p)
      PROVE  TypeOK'
  BY <1>5 DEF PingHangs, Others
<1>6. ASSUME NEW p \in Phones, Ping(p)
      PROVE  TypeOK'
  BY <1>6 DEF Ping, Others
<1>7. CASE BeginRound
  BY <1>7 DEF BeginRound, Others
<1>8. CASE EndRound
  BY <1>8 DEF EndRound, Others
<1>9. ASSUME NEW s \in Sessions, Connect(s)
      PROVE  TypeOK'
  <2>1. PICK u \in {0, scanned[PhoneOf[s]]} :
           /\ user' = [user EXCEPT ![s] = u]
           /\ fresh' = IF u = token THEN fresh \cup {s} ELSE fresh
    BY <1>9 DEF Connect
  <2>2. u \in Nat
    <3>1. scanned[PhoneOf[s]] \in Nat
      <4>1. PhoneOf[s] \in Phones /\ scanned \in [Phones -> Nat]
        BY PairedConstants
      <4> QED BY ONLY <4>1
    <3> QED BY ONLY <3>1
  <2>3. user' \in [Sessions -> Nat] /\ fresh' \subseteq Sessions
    BY <2>1, <2>2
  <2>4. /\ UNCHANGED <<token, scanned, keys, ips, pairing, failed, overlap>>
        /\ pc' = [pc EXCEPT ![s] = "auth"]
    BY <1>9 DEF Connect
  <2> QED BY ONLY TypeOK, <2>3, <2>4 DEF TypeOK
<1>10. ASSUME NEW s \in Sessions, Authenticate(s)
      PROVE  TypeOK'
  BY <1>10 DEF Authenticate, Goes, Elsewhere
<1>11. ASSUME NEW s \in Sessions, TakePairing(s)
      PROVE  TypeOK'
  BY <1>11 DEF TakePairing, Goes, Elsewhere
<1>12. ASSUME NEW s \in Sessions, AddKey(s)
      PROVE  TypeOK'
  BY <1>12 DEF AddKey, Goes, Elsewhere
<1>13. ASSUME NEW s \in Sessions, ReadKeys(s)
      PROVE  TypeOK'
  BY <1>13 DEF ReadKeys, Goes, Elsewhere, ReadFile
<1>14. ASSUME NEW s \in Sessions, AppendKey(s)
      PROVE  TypeOK'
  <2>1. keys' = Text(keys, PhoneOf[s]) /\ keys' \in File
    BY <1>14, PairedConstants, TextHas DEF AppendKey
  <2>2. overlap' \in SUBSET Phones
    <3>1. keys.open \in Seq(Phones)
      BY DEF File
    <3>2. ASSUME NEW i \in 1..Len(keys.open)
          PROVE  keys.open[i] \in Phones
      BY ONLY <3>1, <3>2
    <3> DEFINE Sharing == {keys.open[i] : i \in 1..Len(keys.open)}
    <3>3. Sharing \subseteq Phones
      BY ONLY <3>2
    <3>4. overlap' \in {overlap, overlap \cup {PhoneOf[s]} \cup Sharing}
      BY <1>14 DEF AppendKey
    <3>5. overlap \subseteq Phones /\ PhoneOf[s] \in Phones
      BY PairedConstants
    <3> HIDE DEF Sharing
    <3> QED BY ONLY <3>3, <3>4, <3>5
  <2> QED BY <1>14, <2>1, <2>2 DEF AppendKey, Goes, Elsewhere
<1>15. ASSUME NEW s \in Sessions, EndKey(s)
      PROVE  TypeOK'
  <2>1. keys' \in File
    <3>1. keys' = NewLine(keys)
      BY <1>15 DEF EndKey
    <3>2. PhoneOf[s] \in Phones
      BY PairedConstants
    <3> QED BY <3>1, <3>2, NewLineHas
  <2> QED BY <1>15, <2>1 DEF EndKey, Goes, Elsewhere
<1>16. ASSUME NEW s \in Sessions, KeyFails(s)
      PROVE  TypeOK'
  BY <1>16 DEF KeyFails, Goes, Elsewhere
<1>17. ASSUME NEW s \in Sessions, ReadIps(s)
      PROVE  TypeOK'
  BY <1>17 DEF ReadIps, Goes, Elsewhere, ReadFile
<1>18. ASSUME NEW s \in Sessions, AppendIp(s)
      PROVE  TypeOK'
  <2>1. ips' = Text(ips, PhoneOf[s]) /\ ips' \in File
    BY <1>18, PairedConstants, TextHas DEF AppendIp
  <2> QED BY <1>18, <2>1 DEF AppendIp, Goes, Elsewhere
<1>19. ASSUME NEW s \in Sessions, EndIp(s)
      PROVE  TypeOK'
  <2>1. ips' \in File
    <3>1. ips' = NewLine(ips)
      BY <1>19 DEF EndIp
    <3>2. PhoneOf[s] \in Phones
      BY PairedConstants
    <3> QED BY <3>1, <3>2, NewLineHas
  <2> QED BY <1>19, <2>1 DEF EndIp, Goes, Elsewhere
<1>20. ASSUME NEW s \in Sessions, IpFails(s)
      PROVE  TypeOK'
  BY <1>20 DEF IpFails, Goes, Elsewhere
<1>21. ASSUME NEW s \in Sessions, Reply(s)
      PROVE  TypeOK'
  BY <1>21 DEF Reply, Goes, Elsewhere
<1>22. CASE UNCHANGED vars
  BY <1>22 DEF vars
<1> QED BY <1>1, <1>2, <1>3, <1>4, <1>5, <1>6, <1>7, <1>8, <1>9, <1>10, <1>11, <1>12, <1>13,
    <1>14, <1>15, <1>16, <1>17, <1>18, <1>19, <1>20, <1>21, <1>22,
           StepCases DEF Handler

\* Tokens only grow older, and none that is replaced comes back.
LEMMA AgeNext ==
    ASSUME TypeOK, TokensAge, [Next]_vars
    PROVE  TokensAge'
<1> USE DEF files, session, checker, vars, Outside, TypeOK, TokensAge, Registering
<1>1. CASE Regenerate
  <2>1. token \in Nat /\ token' = token + 1 /\ scanned \in [Phones -> Nat] /\ user \in [Sessions -> Nat]
    BY <1>1 DEF Regenerate
  <2>2. UNCHANGED <<scanned, pc, user, pairing, fresh>>
    BY <1>1 DEF Regenerate
  <2>3. ASSUME NEW p \in Phones
        PROVE  scanned[p] <= token'
    <3>1. scanned[p] \in Nat /\ scanned[p] <= token
      BY <2>1
    <3> QED BY ONLY <2>1, <3>1
  <2>4. ASSUME NEW s \in Sessions
        PROVE  user[s] <= token' /\ user[s] # token'
    <3>1. user[s] \in Nat /\ user[s] <= token
      BY <2>1
    <3> QED BY ONLY <2>1, <3>1
  <2> QED BY ONLY TokensAge, <2>2, <2>3, <2>4 DEF TokensAge
<1>2. CASE Restart
  <2>1. UNCHANGED <<token, scanned, fresh>> /\ pairing' = {}
    BY <1>2 DEF Restart
  <2>2. \A s \in Sessions : /\ user'[s] = 0
                            /\ pc'[s] \in Registering => pc[s] \in Registering
    BY <1>2 DEF Restart
  <2>3. token \in Nat /\ token > 0
    OBVIOUS
  <2>4. ASSUME NEW s \in Sessions
        PROVE  user'[s] <= token /\ user'[s] # token
    <3>1. user'[s] = 0
      BY ONLY <2>2
    <3> QED BY ONLY <2>3, <3>1
  <2> QED BY ONLY TokensAge, <2>1, <2>2, <2>4 DEF TokensAge
<1>3. ASSUME NEW p \in Phones, Scan(p)
      PROVE  TokensAge'
  <2>1. UNCHANGED <<token, pc, user, pairing, fresh>>
    BY <1>3 DEF Scan
  <2>2. \A q \in Phones : scanned'[q] = token \/ scanned'[q] = scanned[q]
    BY <1>3 DEF Scan
  <2>3. token \in Nat /\ scanned \in [Phones -> Nat]
    OBVIOUS
  <2>4. ASSUME NEW q \in Phones
        PROVE  scanned'[q] <= token
    <3>1. scanned[q] \in Nat /\ scanned[q] <= token
      BY <2>3
    <3> QED BY ONLY <2>2, <2>3, <3>1
  <2> QED BY ONLY TokensAge, <2>1, <2>4 DEF TokensAge
<1>4. ASSUME NEW p \in Phones, Move(p)
      PROVE  TokensAge'
  BY <1>4 DEF Move
<1>5. ASSUME NEW p \in Phones, PingHangs(p)
      PROVE  TokensAge'
  BY <1>5 DEF PingHangs, Others
<1>6. ASSUME NEW p \in Phones, Ping(p)
      PROVE  TokensAge'
  <2>1. UNCHANGED <<token, scanned, pc, user, pairing, fresh>>
    BY <1>6 DEF Ping, Others
  <2> QED BY ONLY TokensAge, <2>1 DEF TokensAge
<1>7. CASE BeginRound
  BY <1>7 DEF BeginRound, Others
<1>8. CASE EndRound
  BY <1>8 DEF EndRound, Others
<1>9. ASSUME NEW s \in Sessions, Connect(s)
      PROVE  TokensAge'
  <2>1. PICK u \in {0, scanned[PhoneOf[s]]} :
           /\ user' = [user EXCEPT ![s] = u]
           /\ fresh' = IF u = token THEN fresh \cup {s} ELSE fresh
    BY <1>9 DEF Connect
  <2>2. u <= token
    <3>1. scanned[PhoneOf[s]] <= token
      <4>1. PhoneOf[s] \in Phones
        BY PairedConstants
      <4> QED BY ONLY TokensAge, <4>1 DEF TokensAge
    <3>2. 0 <= token
      <4>1. token \in Nat
        OBVIOUS
      <4> QED BY ONLY <4>1
    <3> QED BY ONLY <3>1, <3>2
  <2>3. UNCHANGED <<token, scanned, pairing>> /\ pc' = [pc EXCEPT ![s] = "auth"]
    BY <1>9 DEF Connect
  <2>4. ASSUME NEW r \in Sessions
        PROVE  user'[r] <= token /\ (user'[r] = token => r \in fresh')
    BY <2>1, <2>2
  <2>5. fresh \subseteq fresh'
    BY <2>1
  <2>6. \A r \in Sessions : pc'[r] \in Registering => pc[r] \in Registering
    BY <2>3
  <2> QED BY ONLY TokensAge, <2>3, <2>4, <2>5, <2>6 DEF TokensAge
<1>10. ASSUME NEW s \in Sessions, Authenticate(s)
      PROVE  TokensAge'
  <2>1. UNCHANGED <<token, scanned, pairing, fresh>>
    BY <1>10 DEF Authenticate, Elsewhere
  <2>2. ASSUME NEW r \in Sessions
        PROVE  /\ user'[r] \in {user[r], 0}
               /\ pc'[r] \in Registering => pc[r] \in Registering
    BY <1>10 DEF Authenticate, Goes
  <2>3. token \in Nat /\ token > 0
    OBVIOUS
  <2>4. ASSUME NEW r \in Sessions
        PROVE  user'[r] <= token /\ (user'[r] = token => r \in fresh)
    <3>1. user[r] \in Nat /\ user[r] <= token /\ (user[r] = token => r \in fresh)
      OBVIOUS
    <3>2. user'[r] = user[r] \/ user'[r] = 0
      BY ONLY <2>2
    <3> QED BY ONLY <2>3, <3>1, <3>2
  <2> QED BY ONLY TokensAge, <2>1, <2>2, <2>4 DEF TokensAge
<1>11. ASSUME NEW s \in Sessions, TakePairing(s)
      PROVE  TokensAge'
  <2>1. UNCHANGED <<token, scanned, fresh>>
    BY <1>11 DEF TakePairing, Elsewhere
  <2>2. ASSUME NEW r \in Sessions
        PROVE  /\ user'[r] \in {user[r], 0}
               /\ pc'[r] \in Registering => pc[r] \in Registering
    BY <1>11 DEF TakePairing, Goes
  <2>3. token \in Nat /\ token > 0
    OBVIOUS
  <2>4. ASSUME NEW r \in Sessions
        PROVE  user'[r] <= token /\ (user'[r] = token => r \in fresh)
    <3>1. user[r] \in Nat /\ user[r] <= token /\ (user[r] = token => r \in fresh)
      OBVIOUS
    <3>2. user'[r] = user[r] \/ user'[r] = 0
      BY ONLY <2>2
    <3> QED BY ONLY <2>3, <3>1, <3>2
  <2>5. \A r \in Sessions : r \in pairing' => r \in fresh
    BY <1>11 DEF TakePairing, HasToken
  <2> QED BY ONLY TokensAge, <2>1, <2>2, <2>4, <2>5 DEF TokensAge
<1>12. ASSUME NEW s \in Sessions, AddKey(s)
      PROVE  TokensAge'
  BY <1>12 DEF AddKey, Goes, Elsewhere
<1>13. ASSUME NEW s \in Sessions, ReadKeys(s)
      PROVE  TokensAge'
  BY <1>13 DEF ReadKeys, Goes, Elsewhere, ReadFile
<1>14. ASSUME NEW s \in Sessions, AppendKey(s)
      PROVE  TokensAge'
  BY <1>14 DEF AppendKey, Goes, Elsewhere
<1>15. ASSUME NEW s \in Sessions, EndKey(s)
      PROVE  TokensAge'
  BY <1>15 DEF EndKey, Goes, Elsewhere
<1>16. ASSUME NEW s \in Sessions, KeyFails(s)
      PROVE  TokensAge'
  BY <1>16 DEF KeyFails, Goes, Elsewhere
<1>17. ASSUME NEW s \in Sessions, ReadIps(s)
      PROVE  TokensAge'
  BY <1>17 DEF ReadIps, Goes, Elsewhere, ReadFile
<1>18. ASSUME NEW s \in Sessions, AppendIp(s)
      PROVE  TokensAge'
  BY <1>18 DEF AppendIp, Goes, Elsewhere
<1>19. ASSUME NEW s \in Sessions, EndIp(s)
      PROVE  TokensAge'
  BY <1>19 DEF EndIp, Goes, Elsewhere
<1>20. ASSUME NEW s \in Sessions, IpFails(s)
      PROVE  TokensAge'
  BY <1>20 DEF IpFails, Goes, Elsewhere
<1>21. ASSUME NEW s \in Sessions, Reply(s)
      PROVE  TokensAge'
  BY <1>21 DEF Reply, Goes, Elsewhere
<1>22. CASE UNCHANGED vars
  BY <1>22 DEF vars
<1> QED BY <1>1, <1>2, <1>3, <1>4, <1>5, <1>6, <1>7, <1>8, <1>9, <1>10, <1>11, <1>12, <1>13,
    <1>14, <1>15, <1>16, <1>17, <1>18, <1>19, <1>20, <1>21, <1>22,
           StepCases DEF Handler

\* Once a session has tried to write its key, the key is in the file.
LEMMA KeptNext ==
    ASSUME TypeOK, KeysKept, [Next]_vars
    PROVE  KeysKept'
<1>c. \A q \in Covered : q \in Covered'
  BY CoveredGrows
<1>p. PhoneOf \in [Sessions -> Phones]
  BY PairedConstants
<1> USE DEF files, session, checker, vars, Outside, TypeOK, KeysKept, KeyDone, KeyTried
<1>1. CASE Regenerate
  BY <1>1, <1>c DEF Regenerate
<1>2. CASE Restart
  BY <1>2, <1>c DEF Restart
<1>3. ASSUME NEW p \in Phones, Scan(p)
      PROVE  KeysKept'
  BY <1>3, <1>c DEF Scan
<1>4. ASSUME NEW p \in Phones, Move(p)
      PROVE  KeysKept'
  BY <1>4, <1>c DEF Move
<1>5. ASSUME NEW p \in Phones, PingHangs(p)
      PROVE  KeysKept'
  BY <1>5, <1>c DEF PingHangs, Others
<1>6. ASSUME NEW p \in Phones, Ping(p)
      PROVE  KeysKept'
  <2>1. UNCHANGED <<pc, failed, keys, overlap>>
    BY <1>6, <1>c DEF Ping, Others
  <2>2. UNCHANGED Covered
    BY ONLY <2>1 DEF Covered, Authorized, Has
  <2> QED BY ONLY KeysKept, <2>1, <2>2 DEF KeysKept
<1>7. CASE BeginRound
  BY <1>7, <1>c DEF BeginRound, Others
<1>8. CASE EndRound
  BY <1>8, <1>c DEF EndRound, Others
<1>9. ASSUME NEW s \in Sessions, Connect(s)
      PROVE  KeysKept'
  BY <1>9, <1>c DEF Connect
<1>10. ASSUME NEW s \in Sessions, Authenticate(s)
      PROVE  KeysKept'
  BY <1>10, <1>c DEF Authenticate, Goes, Elsewhere
<1>11. ASSUME NEW s \in Sessions, TakePairing(s)
      PROVE  KeysKept'
  BY <1>11, <1>c DEF TakePairing, Goes, Elsewhere
<1>12. ASSUME NEW s \in Sessions, AddKey(s)
      PROVE  KeysKept'
  BY <1>12, <1>c DEF AddKey, Goes, Elsewhere
<1>13. ASSUME NEW s \in Sessions, ReadKeys(s)
      PROVE  KeysKept'
  <2>1. CASE Has(keys, PhoneOf[s])
    <3>1. PhoneOf[s] \in Covered
      BY <2>1, <1>p DEF Covered, Authorized
    <3> QED BY <1>13, <2>1, <3>1, <1>c DEF ReadKeys, ReadFile, Goes, Elsewhere
  <2>2. CASE ~Has(keys, PhoneOf[s])
    BY <1>13, <2>2, <1>c DEF ReadKeys, ReadFile, Goes, Elsewhere
  <2> QED BY <2>1, <2>2
<1>14. ASSUME NEW s \in Sessions, AppendKey(s)
      PROVE  KeysKept'
  <2>1. PhoneOf[s] \in Covered'
    <3>1. keys \in File /\ PhoneOf[s] \in Phones
      BY <1>p
    <3>2. CASE keys.open = <<>>
      <4>1. Has(Text(keys, PhoneOf[s]), PhoneOf[s])
        BY <3>1, <3>2, TextHas
      <4> QED BY <1>14, <3>1, <4>1 DEF AppendKey, Covered, Authorized
    <3>3. CASE keys.open # <<>>
      BY <1>14, <3>3 DEF AppendKey, Covered
    <3> QED BY <3>2, <3>3
  <2> QED BY <1>14, <2>1, <1>c DEF AppendKey, Goes, Elsewhere
<1>15. ASSUME NEW s \in Sessions, EndKey(s)
      PROVE  KeysKept'
  BY <1>15, <1>c DEF EndKey, Goes, Elsewhere
<1>16. ASSUME NEW s \in Sessions, KeyFails(s)
      PROVE  KeysKept'
  BY <1>16, <1>c DEF KeyFails, Goes, Elsewhere
<1>17. ASSUME NEW s \in Sessions, ReadIps(s)
      PROVE  KeysKept'
  BY <1>17, <1>c DEF ReadIps, Goes, Elsewhere, ReadFile
<1>18. ASSUME NEW s \in Sessions, AppendIp(s)
      PROVE  KeysKept'
  BY <1>18, <1>c DEF AppendIp, Goes, Elsewhere
<1>19. ASSUME NEW s \in Sessions, EndIp(s)
      PROVE  KeysKept'
  BY <1>19, <1>c DEF EndIp, Goes, Elsewhere
<1>20. ASSUME NEW s \in Sessions, IpFails(s)
      PROVE  KeysKept'
  BY <1>20, <1>c DEF IpFails, Goes, Elsewhere
<1>21. ASSUME NEW s \in Sessions, Reply(s)
      PROVE  KeysKept'
  BY <1>21, <1>c DEF Reply, Goes, Elsewhere
<1>22. CASE UNCHANGED vars
  BY <1>22, <1>c DEF vars
<1> QED BY <1>1, <1>2, <1>3, <1>4, <1>5, <1>6, <1>7, <1>8, <1>9, <1>10, <1>11, <1>12, <1>13,
    <1>14, <1>15, <1>16, <1>17, <1>18, <1>19, <1>20, <1>21, <1>22,
           StepCases DEF Handler

\* Of the steps two change the file of the addresses, and none forgets a failure.
LEMMA IpsTouched ==
    ASSUME [Next]_vars
    PROVE  /\ \/ \E s \in Sessions : AppendIp(s) \/ EndIp(s)
              \/ UNCHANGED ips
           /\ failed \subseteq failed'
<1> USE DEF files, session, checker, vars, Outside, Elsewhere, Others, ReadFile
<1>1. CASE Regenerate \/ Restart
  BY <1>1 DEF Regenerate, Restart
<1>2. CASE \E p \in Phones : Scan(p) \/ Move(p) \/ PingHangs(p) \/ Ping(p)
  BY <1>2 DEF Scan, Move, PingHangs, Ping
<1>3. CASE BeginRound \/ EndRound \/ UNCHANGED vars
  BY <1>3 DEF BeginRound, EndRound
<1>4. ASSUME NEW s \in Sessions, Connect(s) \/ Handler(s)
      PROVE  (AppendIp(s) \/ EndIp(s) \/ UNCHANGED ips) /\ failed \subseteq failed'
  BY <1>4 DEF Connect, Handler, Authenticate, TakePairing, AddKey, ReadKeys, AppendKey, EndKey,
              KeyFails, ReadIps, AppendIp, EndIp, IpFails, Reply
<1> QED BY <1>1, <1>2, <1>3, <1>4, StepCases

\* Whoever is added to the paired devices has tried to write its key before.
LEMMA ListedNext ==
    ASSUME TypeOK, KeysKept, PairedIsAuthorized, [Next]_vars
    PROVE  PairedIsAuthorized'
<1> SUFFICES ASSUME NEW q \in Listed'
             PROVE  q \in Covered' \/ \E s \in Sessions : PhoneOf[s] = q /\ s \in failed'
  BY DEF PairedIsAuthorized, Covered
<1>0. q \in Phones /\ ips \in File /\ Has(ips', q) /\ failed \subseteq failed'
  BY IpsTouched DEF Listed, TypeOK
<1>1. CASE q \in Listed
  <2>1. q \in Covered \/ \E s \in Sessions : PhoneOf[s] = q /\ s \in failed
    BY <1>1 DEF PairedIsAuthorized, Covered
  <2> QED BY <1>0, <2>1, CoveredGrows
<1>2. ASSUME NEW s \in Sessions, AppendIp(s), q \notin Listed
      PROVE  PhoneOf[s] = q /\ (PhoneOf[s] \in Covered \/ s \in failed)
  <2>1. PhoneOf[s] \in Phones /\ ips' = Text(ips, PhoneOf[s])
    BY <1>2, PairedConstants DEF AppendIp
  <2>2. <<q>> \in ips.lines \/ PhoneOf[s] = q
    BY <1>0, <2>1, TextHas
  <2>3. <<q>> \notin ips.lines
    BY <1>0, <1>2 DEF Listed, Has
  <2>4. pc[s] \in KeyDone
    BY <1>2 DEF AppendIp, KeyDone
  <2> QED BY <2>2, <2>3, <2>4 DEF KeysKept
<1>3. ASSUME NEW s \in Sessions, EndIp(s)
      PROVE  q \in Listed
  BY <1>0, <1>3, NewLineHas DEF EndIp, Listed
<1>4. CASE UNCHANGED ips
  BY <1>0, <1>1, <1>4 DEF Listed
<1>5. CASE q \notin Listed /\ \E s \in Sessions : AppendIp(s)
  BY <1>0, <1>2, <1>5, CoveredGrows
<1> QED BY <1>1, <1>3, <1>4, <1>5, IpsTouched

LEMMA PairedNext == PairedInv /\ [Next]_vars => PairedInv'
BY TypeNext, AgeNext, KeptNext, ListedNext DEF PairedInv

LEMMA PairedInit == Init => PairedInv
<1> SUFFICES ASSUME Init
             PROVE  PairedInv
  OBVIOUS
<1>1. Empty \in File
  <2>1. <<>> \in Seq(Phones)
    OBVIOUS
  <2> QED BY <2>1 DEF Empty, File
<1>2. TypeOK
  BY <1>1 DEF Init, TypeOK
<1>3. TokensAge
  BY DEF Init, TokensAge, Registering
<1>4. KeysKept
  BY DEF Init, KeysKept, KeyDone
<1>5. PairedIsAuthorized
  <2>1. \A p \in Phones : <<p>> # <<>>
    OBVIOUS
  <2> QED BY <2>1 DEF Init, Empty, PairedIsAuthorized, Listed, Has
<1> QED BY <1>2, <1>3, <1>4, <1>5 DEF PairedInv

LEMMA PairedInvariant == Spec => []PairedInv
BY PairedInit, PairedNext, PTL DEF Spec

\* Every reachable state has the values the handlers expect: files of lines of
\* keys, tokens that are numbers, sessions at one of their places.
THEOREM TypeInvariant == Spec => []TypeOK
<1>1. PairedInv => TypeOK
  BY DEF PairedInv
<1> QED BY <1>1, PairedInvariant, PTL

\* For any phones and sessions: a phone that was answered "registered" is
\* known by its key from then on (add_authorized_key, authorized_keys).
THEOREM RegisteredInvariant == Spec => []RegisteredCanReturn
<1>1. PairedInv => RegisteredCanReturn
  BY DEF PairedInv, KeysKept, KeyDone, RegisteredCanReturn, Covered
<1> QED BY <1>1, PairedInvariant, PTL

\* For any phones and sessions, and any number of tokens: whoever connects with
\* a token that was replaced registers nothing (is_authorized, auth_publickey).
THEOREM StaleTokenInvariant == Spec => []StaleTokenRegistersNobody
<1>1. PairedInv => StaleTokenRegistersNobody
  BY DEF PairedInv, TokensAge, StaleTokenRegistersNobody
<1> QED BY <1>1, PairedInvariant, PTL

\* For any phones and sessions, and any number of restarts: a phone listed as
\* paired has its key in the other file (exec_request, record_paired_ip).
THEOREM PairedKeyInvariant == Spec => []PairedIsAuthorized
<1>1. PairedInv => PairedIsAuthorized
  BY DEF PairedInv
<1> QED BY <1>1, PairedInvariant, PTL
=============================================================================
