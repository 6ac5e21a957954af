------------------------- MODULE SizeAnnounceProofs -------------------------
(* Proofs about SizeAnnounce, for any transfers and names.                    *)
EXTENDS SizeAnnounce, TLAPS

\* A transfer whose open still has to find its size.
Active(f) == sender[f] \in {"announced", "polling"}

\* The sender, its request and the reader of its announcement go together.
InOrder ==
    \A f \in Transfers :
        /\ f \in acked <=> reader[f] # "none"
        /\ f \in acked => sender[f] # "idle"
        /\ sender[f] \in {"polling", "opened"} => f \in acked
        /\ total[f] # Unknown => sender[f] = "opened"

OneActive ==
    \A f, g \in Transfers : NameOf[f] = NameOf[g] /\ Active(f) /\ Active(g) => f = g

\* A size is in one place only, and in none before it is recorded.
OnePlace ==
    /\ \A n \in Names : sizes[n] # Unknown =>
          /\ reader[sizes[n]] = "recorded"
          /\ \A f \in Transfers : total[f] # sizes[n]
    /\ \A f \in Transfers : total[f] # Unknown => reader[total[f]] = "recorded"

\* Under an undisturbed key the map holds the active transfer's size, and the
\* opened ones have taken theirs.
CleanSize ==
    \A f \in Transfers : Undisturbed(LookedUp(f)) /\ Straight(f) =>
        /\ sizes[NameOf[f]] # Unknown => Active(sizes[NameOf[f]])
        /\ Active(f) /\ reader[f] = "recorded" => sizes[NameOf[f]] = f
        /\ sender[f] = "opened" =>
              /\ reader[f] # "reading"
              /\ total[f] = IF reader[f] = "failed" THEN Unknown ELSE f

AnnInv == TypeOK /\ InOrder /\ OneActive /\ OnePlace /\ NoSizeTwice /\ CleanSize



Step(f) ==
    \/ Announce(f) \/ ExecRequest(f) \/ RecordSize(f) \/ ReadFails(f)
    \/ Open(f) \/ PollFinds(f) \/ PollEnds(f)

\* Sizes are kept and taken by name.
LEMMA TypeNext ==
    ASSUME TypeOK, NEW f \in Transfers, Step(f)
    PROVE  TypeOK'
<1> USE AnnounceConstants DEF TypeOK, Recorded, LookedUp
<1>1. CASE Announce(f)
  BY <1>1 DEF Announce
<1>2. CASE ExecRequest(f)
  BY <1>2 DEF ExecRequest
<1>3. CASE RecordSize(f)
  BY <1>3 DEF RecordSize
<1>4. CASE ReadFails(f)
  BY <1>4 DEF ReadFails
<1>5. CASE Open(f)
  BY <1>5 DEF Open, Take
<1>6. CASE PollFinds(f)
  BY <1>6 DEF PollFinds, Take
<1>7. CASE PollEnds(f)
  BY <1>7 DEF PollEnds
<1> QED BY <1>1, <1>2, <1>3, <1>4, <1>5, <1>6, <1>7 DEF Step

\* A reader is there once the request was answered, and only then an open.
LEMMA InOrderNext ==
    ASSUME TypeOK, InOrder, NEW f \in Transfers, Step(f)
    PROVE  InOrder'
<1> USE AnnounceConstants DEF TypeOK, InOrder, Recorded, LookedUp
<1>1. CASE Announce(f)
  BY <1>1 DEF Announce
<1>2. CASE ExecRequest(f)
  BY <1>2 DEF ExecRequest
<1>3. CASE RecordSize(f)
  BY <1>3 DEF RecordSize
<1>4. CASE ReadFails(f)
  BY <1>4 DEF ReadFails
<1>5. CASE Open(f)
  BY <1>5 DEF Open, Take
<1>6. CASE PollFinds(f)
  BY <1>6 DEF PollFinds, Take
<1>7. CASE PollEnds(f)
  BY <1>7 DEF PollEnds
<1> QED BY <1>1, <1>2, <1>3, <1>4, <1>5, <1>6, <1>7 DEF Step

\* A sender sends a name again only when its last transfer is through.
LEMMA OneActiveNext ==
    ASSUME TypeOK, OneActive, NEW f \in Transfers, Step(f)
    PROVE  OneActive'
<1> USE AnnounceConstants DEF TypeOK, OneActive, Active, Recorded, LookedUp
<1>1. CASE Announce(f)
  BY <1>1 DEF Announce
<1>2. CASE ExecRequest(f)
  BY <1>2 DEF ExecRequest
<1>3. CASE RecordSize(f)
  BY <1>3 DEF RecordSize
<1>4. CASE ReadFails(f)
  BY <1>4 DEF ReadFails
<1>5. CASE Open(f)
  BY <1>5 DEF Open, Take
<1>6. CASE PollFinds(f)
  BY <1>6 DEF PollFinds, Take
<1>7. CASE PollEnds(f)
  BY <1>7 DEF PollEnds
<1> QED BY <1>1, <1>2, <1>3, <1>4, <1>5, <1>6, <1>7 DEF Step

\* A size that is taken leaves the map.
LEMMA OnePlaceNext ==
    ASSUME TypeOK, InOrder, OnePlace, NEW f \in Transfers, Step(f)
    PROVE  OnePlace'
<1> USE AnnounceConstants DEF TypeOK, InOrder, OnePlace, Recorded, LookedUp
<1>1. CASE Announce(f)
  BY <1>1 DEF Announce
<1>2. CASE ExecRequest(f)
  BY <1>2 DEF ExecRequest
<1>3. CASE RecordSize(f)
  BY <1>3 DEF RecordSize
<1>4. CASE ReadFails(f)
  BY <1>4 DEF ReadFails
<1>5. CASE Open(f)
  BY <1>5 DEF Open, Take
<1>6. CASE PollFinds(f)
  BY <1>6 DEF PollFinds, Take
<1>7. CASE PollEnds(f)
  BY <1>7 DEF PollEnds
<1> QED BY <1>1, <1>2, <1>3, <1>4, <1>5, <1>6, <1>7 DEF Step

\* The size an open takes from the map is one that no other open has taken.
LEMMA TakeOnce ==
    ASSUME TypeOK, OnePlace, NoSizeTwice, NEW f \in Transfers, Take(f)
    PROVE  NoSizeTwice'
<1> SUFFICES ASSUME NEW g \in Transfers, NEW h \in Transfers,
                    total'[g] = total'[h], total'[g] # Unknown
             PROVE  g = h
  BY DEF NoSizeTwice
<1>1. LookedUp(f) \in Names
  BY AnnounceConstants DEF LookedUp
<1>2. total'[f] = sizes[LookedUp(f)] /\ \A k \in Transfers : k # f => total'[k] = total[k]
  BY DEF Take, TypeOK
<1>3. \A k \in Transfers : sizes[LookedUp(f)] # Unknown => total[k] # sizes[LookedUp(f)]
  BY <1>1 DEF OnePlace
<1>4. CASE g = f \/ h = f
  BY <1>2, <1>3, <1>4
<1>5. CASE g # f /\ h # f
  BY <1>2, <1>5 DEF NoSizeTwice
<1> QED BY <1>4, <1>5

\* The map holds no size that was taken.
LEMMA NoSizeTwiceNext ==
    ASSUME TypeOK, OnePlace, NoSizeTwice, NEW f \in Transfers, Step(f)
    PROVE  NoSizeTwice'
<1> USE AnnounceConstants DEF TypeOK, OnePlace, NoSizeTwice, Recorded, LookedUp
<1>1. CASE Announce(f)
  BY <1>1 DEF Announce
<1>2. CASE ExecRequest(f)
  BY <1>2 DEF ExecRequest
<1>3. CASE RecordSize(f)
  BY <1>3 DEF RecordSize
<1>4. CASE ReadFails(f)
  BY <1>4 DEF ReadFails
<1>5. CASE Open(f)
  <2>1. CASE sizes[LookedUp(f)] # Unknown
    BY <1>5, <2>1, TakeOnce DEF Open
  <2>2. CASE sizes[LookedUp(f)] = Unknown
    BY <1>5, <2>2 DEF Open
  <2> QED BY <2>1, <2>2
<1>6. CASE PollFinds(f)
  BY <1>6, TakeOnce DEF PollFinds
<1>7. CASE PollEnds(f)
  BY <1>7 DEF PollEnds
<1> QED BY <1>1, <1>2, <1>3, <1>4, <1>5, <1>6, <1>7 DEF Step

\* Straight transfers with one key are of one name, which is that key.
LEMMA OneName ==
    ASSUME NEW f \in Transfers, Straight(f)
    PROVE  /\ NameOf[f] \in Names /\ LookedUp(f) = NameOf[f] /\ Recorded(f) = NameOf[f]
  BY AnnounceConstants DEF Straight, Recorded, LookedUp

\* Who records or looks up under an undisturbed key is straight or still idle.
LEMMA NoStranger ==
    ASSUME NEW f \in Transfers, NEW n, Undisturbed(n), n \in {Recorded(f), LookedUp(f)},
           sender[f] # "idle"
    PROVE  Straight(f) /\ NameOf[f] = n
  BY OneName DEF Undisturbed

\* A key undisturbed after a step was so before it.
LEMMA UndisturbedBefore ==
    ASSUME TypeOK, NEW f \in Transfers, Step(f), NEW n, Undisturbed(n)'
    PROVE  Undisturbed(n)
<1> SUFFICES ASSUME NEW g \in Transfers, n \in {Recorded(g), LookedUp(g)}
             PROVE  (Straight(g) \/ sender[g] = "idle") /\ g \notin late
  BY DEF Undisturbed
<1>1. (Straight(g) \/ sender'[g] = "idle") /\ g \notin late'
  BY DEF Undisturbed, Straight, Recorded, LookedUp
<1>2. late \subseteq late'
  BY DEF Step, Announce, ExecRequest, RecordSize, ReadFails, Open, PollFinds, PollEnds
<1>3. sender'[g] = "idle" => sender[g] = "idle"
  BY DEF TypeOK, Step, Announce, ExecRequest, RecordSize, ReadFails, Open, PollFinds, PollEnds
<1> QED BY <1>1, <1>2, <1>3

\* What a step of f must leave CleanSize with, stated for one transfer g.
CleanAt(g) ==
    /\ sizes[NameOf[g]] # Unknown => Active(sizes[NameOf[g]])
    /\ Active(g) /\ reader[g] = "recorded" => sizes[NameOf[g]] = g
    /\ sender[g] = "opened" =>
          /\ reader[g] # "reading"
          /\ total[g] = IF reader[g] = "failed" THEN Unknown ELSE g

\* An open that takes a size from an undisturbed key takes its own.
LEMMA TakeOwn ==
    ASSUME TypeOK, OneActive, OnePlace, CleanSize, NEW f \in Transfers, Active(f),
           sizes[LookedUp(f)] # Unknown, sender' = [sender EXCEPT ![f] = "opened"], Take(f),
           UNCHANGED <<acked, reader, late>>,
           NEW g \in Transfers, Straight(g), Undisturbed(LookedUp(g))
    PROVE  CleanAt(g)'
<1>0. NameOf[g] \in Names /\ LookedUp(g) = NameOf[g] /\ Recorded(g) = NameOf[g] /\ LookedUp(f) \in Names
  BY OneName, AnnounceConstants DEF LookedUp
<1>1. /\ sender'[f] = "opened" /\ sizes'[LookedUp(f)] = Unknown
      /\ total'[f] = sizes[LookedUp(f)]
      /\ \A k \in Transfers : k # f => sender'[k] = sender[k] /\ total'[k] = total[k]
      /\ \A n \in Names : n # LookedUp(f) => sizes'[n] = sizes[n]
  BY <1>0 DEF TypeOK, Take
<1>2. CleanAt(g)
  BY DEF CleanSize, CleanAt
<1>3. sender[f] # "idle"
  BY DEF Active
<1>4. CASE LookedUp(f) # NameOf[g]
  <2>1. f # g
    BY <1>0, <1>4
  <2>2. sizes[NameOf[g]] # Unknown => sizes[NameOf[g]] \in Transfers \ {f}
    <3>1. ASSUME sizes[NameOf[g]] = f, f # Unknown
          PROVE  FALSE
      <4>1. Recorded(f) = NameOf[g]
        BY <1>0, <3>1 DEF TypeOK
      <4>2. Straight(f) /\ NameOf[f] = NameOf[g]
        BY <1>0, <1>3, <4>1, NoStranger
      <4> QED BY <1>4, <4>2, OneName
    <3> QED BY <1>0, <3>1 DEF TypeOK
  <2> QED BY <1>0, <1>1, <1>2, <1>4, <2>1, <2>2 DEF CleanAt, Active
<1>5. CASE LookedUp(f) = NameOf[g]
  <2>1. Straight(f) /\ NameOf[f] = NameOf[g]
    BY <1>0, <1>3, <1>5, NoStranger
  <2>2. sizes[NameOf[g]] \in Transfers /\ Active(sizes[NameOf[g]]) /\ Recorded(sizes[NameOf[g]]) = NameOf[g]
    BY <1>0, <1>2, <1>5 DEF TypeOK, CleanAt
  <2>3. NameOf[sizes[NameOf[g]]] = NameOf[g]
    BY <1>0, <2>2, NoStranger DEF Active
  <2>4. sizes[NameOf[g]] = f
    BY <2>1, <2>2, <2>3 DEF OneActive
  <2>5. reader[f] = "recorded" /\ f # Unknown
    BY <1>0, <2>4, <2>2, AnnounceConstants DEF OnePlace
  <2>6. g # f => ~Active(g)
    BY <2>1 DEF OneActive
  <2> QED BY <1>0, <1>1, <1>2, <1>5, <2>4, <2>5, <2>6 DEF CleanAt, Active
<1> QED BY <1>4, <1>5

\* The open under an undisturbed key finds the size of its own transfer.
LEMMA CleanSizeNext ==
    ASSUME TypeOK, InOrder, OneActive, OnePlace, CleanSize, NEW f \in Transfers, Step(f)
    PROVE  CleanSize'
<1> SUFFICES ASSUME NEW g \in Transfers, Undisturbed(LookedUp(g))', Straight(g)
             PROVE  CleanAt(g)'
  BY DEF CleanSize, CleanAt, Straight, LookedUp, Recorded
<1>a. Undisturbed(LookedUp(g)) /\ g \notin late'
  BY UndisturbedBefore DEF Undisturbed, Straight, LookedUp, Recorded
<1>b. CleanAt(g)
  BY <1>a DEF CleanSize, CleanAt
<1>c. NameOf[g] \in Names /\ LookedUp(g) = NameOf[g] /\ Recorded(g) = NameOf[g]
  BY OneName
<1>d. /\ Recorded(f) \in Names /\ LookedUp(f) \in Names
      /\ NameOf[g] \in {Recorded(f), LookedUp(f)} /\ sender[f] # "idle" =>
           NameOf[f] = NameOf[g] /\ Recorded(f) = NameOf[g] /\ LookedUp(f) = NameOf[g]
  BY <1>a, <1>c, NoStranger, OneName, AnnounceConstants DEF Recorded, LookedUp
<1> USE AnnounceConstants DEF TypeOK, InOrder, OneActive, CleanAt, Active
<1>1. CASE Announce(f)
  BY <1>1, <1>b, <1>c DEF Announce
<1>2. CASE ExecRequest(f)
  BY <1>2, <1>b, <1>c DEF ExecRequest
<1>3. CASE RecordSize(f)
  <2>1. sizes' = [sizes EXCEPT ![Recorded(f)] = f] /\ reader' = [reader EXCEPT ![f] = "recorded"]
        /\ reader[f] = "reading" /\ UNCHANGED <<sender, acked, total, late>>
    BY <1>3 DEF RecordSize
  <2>2. sender[f] # "idle"
    BY <2>1
  <2>3. CASE Recorded(f) = NameOf[g]
    <3>1. NameOf[f] = NameOf[g] /\ Straight(f) /\ LookedUp(f) = LookedUp(g)
      BY <1>a, <1>c, <1>d, <2>2, <2>3 DEF Straight
    <3>2. CleanAt(f)
      BY <3>1, <1>a DEF CleanSize, CleanAt
    <3>3. Active(f)
      BY <2>1, <2>2, <3>2
    <3>4. Active(g) => g = f
      BY <3>1, <3>3
    <3>5. sizes'[NameOf[g]] = f /\ f # Unknown
      BY <1>c, <2>1, <2>3
    <3> QED BY <1>b, <1>c, <2>1, <3>3, <3>4, <3>5
  <2>4. CASE Recorded(f) # NameOf[g]
    <3>1. f # g /\ sizes'[NameOf[g]] = sizes[NameOf[g]]
      BY <1>c, <1>d, <2>1, <2>4
    <3> QED BY <1>b, <1>c, <2>1, <3>1
  <2> QED BY <2>3, <2>4
<1>4. CASE ReadFails(f)
  BY <1>4, <1>b, <1>c DEF ReadFails
<1>5. CASE Open(f)
  <2>1. CASE sizes[LookedUp(f)] # Unknown
    BY <1>5, <2>1, <1>a, TakeOwn DEF Open
  <2>2. CASE sizes[LookedUp(f)] = Unknown
    BY <1>5, <2>2, <1>b, <1>c DEF Open
  <2> QED BY <2>1, <2>2
<1>6. CASE PollFinds(f)
  BY <1>6, <1>a, TakeOwn DEF PollFinds
<1>7. CASE PollEnds(f)
  <2>1. /\ sender[f] = "polling" /\ sizes[LookedUp(f)] = Unknown
        /\ sender' = [sender EXCEPT ![f] = "opened"]
        /\ reader[f] = "reading" => f \in late'
        /\ UNCHANGED <<acked, reader, sizes, total>>
    BY <1>7 DEF PollEnds
  <2>2. CASE f = g
    <3>1. sizes[NameOf[g]] = Unknown /\ reader[g] \notin {"recorded", "reading", "none"}
      BY <1>a, <1>b, <1>c, <2>1, <2>2
    <3>2. reader[g] = "failed" /\ total[g] = Unknown
      BY <2>1, <2>2, <3>1
    <3> QED BY <2>1, <2>2, <3>1, <3>2
  <2>3. CASE f # g
    <3>1. sizes[NameOf[g]] # f
      BY <1>c, <1>d, <2>1
    <3> QED BY <1>b, <1>c, <2>1, <2>3, <3>1
  <2> QED BY <2>2, <2>3
<1> QED BY <1>1, <1>2, <1>3, <1>4, <1>5, <1>6, <1>7 DEF Step

LEMMA AnnNext == AnnInv /\ [Next]_vars => AnnInv'
<1> SUFFICES ASSUME AnnInv, [Next]_vars
             PROVE  AnnInv'
  OBVIOUS
<1>1. ASSUME NEW f \in Transfers, Step(f)
      PROVE  AnnInv'
  BY <1>1, TypeNext, InOrderNext, OneActiveNext, OnePlaceNext, NoSizeTwiceNext, CleanSizeNext
     DEF AnnInv
<1>2. CASE UNCHANGED vars
  BY <1>2 DEF vars, AnnInv, TypeOK, InOrder, OneActive, Active, OnePlace, NoSizeTwice,
      CleanSize, Undisturbed
<1> QED BY <1>1, <1>2 DEF Next, Step

LEMMA AnnounceInvariant == Spec => []AnnInv
<1>1. Init => AnnInv
  BY AnnounceConstants
     DEF Init, AnnInv, TypeOK, InOrder, OneActive, Active, OnePlace, NoSizeTwice, CleanSize
<1> QED BY <1>1, AnnNext, PTL DEF Spec

\* For any transfers and names: what pending_sizes keeps under a key, and what
\* an open takes for one, was recorded under that key (exec_request, open).
THEOREM TypeInvariant == Spec => []TypeOK
<1>1. AnnInv => TypeOK
  BY DEF AnnInv
<1> QED BY <1>1, AnnounceInvariant, PTL

\* For any transfers and names: a size announced once is given to one open
\* only (`remove` on pending_sizes).
THEOREM NoSizeTwiceInvariant == Spec => []NoSizeTwice
<1>1. AnnInv => NoSizeTwice
  BY DEF AnnInv
<1> QED BY <1>1, AnnounceInvariant, PTL

\* For any transfers and names, and any way to trim and to split these: an open
\* finds the size of its own transfer, unless its key is disturbed by an open
\* that gave up early or by a name that is recorded under another key than it
\* is looked up with (exec_request, SftpSession::open).
THEOREM OpenFindsInvariant == Spec => []OpenFindsItsSize
<1>1. AnnInv => OpenFindsItsSize
  BY OneName DEF AnnInv, CleanSize, Undisturbed, OpenFindsItsSize
<1> QED BY <1>1, AnnounceInvariant, PTL
=============================================================================
