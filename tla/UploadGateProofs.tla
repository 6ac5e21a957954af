--------------------------- MODULE UploadGateProofs ---------------------------
(* Proofs about UploadGate, for any set of uploads and folders. *)
EXTENDS UploadGate, SequenceTheorems, TLAPS

------------------------------------------------------------------------------
(* What the sequence operators of the gate do to the members of a sequence.   *)

\* Appending adds one member.
LEMMA MembersOfAppend ==
    ASSUME NEW S, NEW s \in Seq(S), NEW e \in S
    PROVE  /\ Append(s, e) \in Seq(S)
           /\ ToSet(Append(s, e)) = ToSet(s) \cup {e}
BY AppendProperties DEF ToSet

\* The head is a member, and the tail has no members of its own.
LEMMA MembersOfHeadTail ==
    ASSUME NEW S, NEW s \in Seq(S), s # <<>>
    PROVE  /\ Head(s) \in S
           /\ Head(s) \in ToSet(s)
           /\ Head(s) = s[1]
           /\ s[1] \in ToSet(s)
           /\ Tail(s) \in Seq(S)
           /\ ToSet(Tail(s)) \subseteq ToSet(s)
BY HeadTailProperties DEF ToSet

\* Removing a position leaves no members but those that were there.
LEMMA MembersOfRemoveAt ==
    ASSUME NEW S, NEW s \in Seq(S), NEW i \in DOMAIN s
    PROVE  /\ RemoveAt(s, i) \in Seq(S)
           /\ ToSet(RemoveAt(s, i)) \subseteq ToSet(s)
<1>1. i \in 1..Len(s) /\ Len(s) \in Nat
  BY LenProperties
<1>2. ASSUME NEW m \in 1..(Len(s) + 1), NEW n \in 0..Len(s)
      PROVE  SubSeq(s, m, n) \in Seq(S) /\ Range(SubSeq(s, m, n)) \subseteq Range(s)
  BY <1>1, SubSeqProperties DEF Range
<1>3. i + 1 \in 1..(Len(s) + 1) /\ i - 1 \in 0..Len(s) /\ 1 \in 1..(Len(s) + 1) /\ Len(s) \in 0..Len(s)
  BY <1>1
<1>4. /\ SubSeq(s, 1, i - 1) \in Seq(S) /\ Range(SubSeq(s, 1, i - 1)) \subseteq Range(s)
      /\ SubSeq(s, i + 1, Len(s)) \in Seq(S) /\ Range(SubSeq(s, i + 1, Len(s))) \subseteq Range(s)
  BY <1>2, <1>3
<1>5. /\ RemoveAt(s, i) \in Seq(S)
      /\ Range(RemoveAt(s, i)) = Range(SubSeq(s, 1, i - 1)) \cup Range(SubSeq(s, i + 1, Len(s)))
  <2> DEFINE a == SubSeq(s, 1, i - 1)
             b == SubSeq(s, i + 1, Len(s))
  <2>1. a \in Seq(S) /\ b \in Seq(S)
    BY <1>4
  <2>2. RemoveAt(s, i) = a \o b
    BY DEF RemoveAt
  <2> HIDE DEF a, b
  <2>3. a \o b \in Seq(S)
    BY ONLY <2>1, ConcatProperties
  <2>4. Range(a \o b) = Range(a) \cup Range(b)
    BY ONLY <2>1, RangeConcatenation
  <2> QED
    BY <2>2, <2>3, <2>4 DEF a, b
<1>6. ToSet(s) = Range(s) /\ ToSet(RemoveAt(s, i)) = Range(RemoveAt(s, i))
  BY DEF ToSet, Range
<1> QED
  BY <1>4, <1>5, <1>6
------------------------------------------------------------------------------
(* Types *)

\* The initial state, all queues empty and no upload begun, is well typed.
LEMMA InitType == Init => TypeOK
<1>1. <<>> \in Seq(Uploads) /\ <<>> \in Seq(Seq(Uploads)) /\ <<>> \in Seq(Decisions)
  BY EmptySeq
<1> SUFFICES ASSUME Init PROVE TypeOK
  OBVIOUS
<1>2. /\ pc \in [Uploads -> OpenStates] /\ replies \in SUBSET Uploads
      /\ decision \in [Uploads -> Decisions \cup {NoDecision}]
      /\ pushing \in [Threads -> {"no", "read", "post"}]
  BY DEF Init, OpenStates
<1>3. chan \in [Uploads -> Seq(Decisions)] /\ answers \in [Uploads -> Seq(Decisions)]
  BY <1>1 DEF Init
<1>4. snap \in [Threads -> Seq(Uploads)] /\ inbox \in Seq(Seq(Uploads))
  BY <1>1 DEF Init
<1>5. pending \in Seq(Uploads) /\ incoming \in Seq(Uploads)
  BY <1>1 DEF Init
<1> QED
  BY <1>2, <1>3, <1>4, <1>5 DEF Init, TypeOK

\* Every step keeps the types: one step of the proof per action.
LEMMA NextType == TypeOK /\ [Next]_vars => TypeOK'
<1> SUFFICES ASSUME TypeOK, [Next]_vars PROVE TypeOK'
  OBVIOUS
<1> USE DEF TypeOK, OpenStates, Threads, Decisions, server, screen, thread, Goto
<1>1. ASSUME NEW t \in Threads, ReadQueue(t) PROVE TypeOK'
  BY <1>1 DEF ReadQueue
<1>2. ASSUME NEW t \in Threads, PostQueue(t) PROVE TypeOK'
  <2>1. snap[t] \in Seq(Uploads)
    OBVIOUS
  <2>2. inbox' \in Seq(Seq(Uploads))
    BY <1>2, <2>1, AppendProperties DEF PostQueue
  <2>3. snap' \in [Threads -> Seq(Uploads)]
    BY <1>2, EmptySeq DEF PostQueue
  <2> QED
    BY <1>2, <2>2, <2>3 DEF PostQueue
<1>3. ASSUME NEW u \in Uploads, Register(u) PROVE TypeOK'
  BY <1>3 DEF Register
<1>4. ASSUME NEW u \in Uploads, SubmitReady(u) PROVE TypeOK'
  <2>1. pending' \in Seq(Uploads)
    BY <1>4, AppendProperties DEF SubmitReady
  <2> QED
    BY <1>4, <2>1, SMTT(60) DEF SubmitReady
<1>5. ASSUME NEW u \in Uploads, SubmitNotReady(u) PROVE TypeOK'
  BY <1>5 DEF SubmitNotReady
<1>6. ASSUME NEW u \in Uploads, OpenDirect(u) PROVE TypeOK'
  BY <1>6 DEF OpenDirect
<1>7. ASSUME NEW u \in Uploads, Receive(u) PROVE TypeOK'
  <2>1. Head(chan[u]) \in Decisions
    BY <1>7, MembersOfHeadTail DEF Receive
  <2> QED
    BY <1>7, <2>1 DEF Receive
<1>8. ASSUME NEW u \in Uploads, Timeout(u) PROVE TypeOK'
  BY <1>8 DEF Timeout
<1>9. ASSUME NEW u \in Uploads, RemoveUpload(u) PROVE TypeOK'
  BY <1>9 DEF RemoveUpload
<1>10. ASSUME NEW u \in Uploads, SaveFile(u) PROVE TypeOK'
  BY <1>10 DEF SaveFile
<1>11. ASSUME NEW u \in Uploads, FailUpload(u) PROVE TypeOK'
  <2>1. pending' \in Seq(Uploads)
    BY <1>11, MembersOfRemoveAt DEF FailUpload
  <2> QED
    BY <1>11, <2>1 DEF FailUpload
<1>12. ASSUME NEW u \in Uploads, DropSession(u) PROVE TypeOK'
  BY <1>12 DEF DropSession
<1>13. CASE InstallSetter
  BY <1>13 DEF InstallSetter
<1>14. CASE Render
  <2>1. Head(inbox) \in Seq(Uploads) /\ Tail(inbox) \in Seq(Seq(Uploads))
    BY <1>14, MembersOfHeadTail DEF Render
  <2>2. FrontOf(Head(inbox)) \in Uploads \cup {Nobody}
    BY <2>1, ElementOfSeq, EmptySeq DEF FrontOf
  <2> QED
    BY <1>14, <2>1, <2>2 DEF Render
<1> DEFINE Said == /\ target' \in Uploads /\ choice' \in Decisions /\ ui' = "replying"
                   /\ answers' \in [Uploads -> Seq(Decisions)]
<1>15. ASSUME NEW u \in Uploads, NEW d \in Decisions, Say(u, d)
       PROVE  Said
  <2>1. Append(answers[u], d) \in Seq(Decisions)
    BY AppendProperties
  <2> QED
    BY <1>15, <2>1 DEF Say
<1>16. CASE CancelDialog
  <2>1. dialog \in Uploads /\ Reject \in Decisions /\ Say(dialog, Reject)
    BY <1>16 DEF CancelDialog, DialogUp
  <2>2. Said
    BY ONLY <1>15, <2>1
  <2> QED
    BY <1>16, <2>2, GateConstants DEF CancelDialog
<1>17. CASE AcceptDialog
  BY <1>17 DEF AcceptDialog, DialogUp
<1>18. CASE PickerDone
  <2>1. picker \in Uploads /\ \E d \in Decisions : Say(picker, d)
    BY <1>18 DEF PickerDone
  <2>2. Said
    BY ONLY <1>15, <2>1
  <2> QED
    BY <1>18, <2>2, GateConstants DEF PickerDone
<1>19. CASE Reply
  <2>1. ui = "replying"
    BY <1>19 DEF Reply
  <2>2. CASE target \in replies
    <3>1. target \in Uploads
      BY <2>2
    <3>2. choice \in Decisions => Append(chan[target], choice) \in Seq(Decisions)
      BY <3>1, AppendProperties
    <3> QED
      BY <1>19, <2>2, <3>1, <3>2 DEF Reply
  <2>3. CASE target \notin replies
    BY <1>19, <2>3 DEF Reply
  <2> QED
    BY <2>2, <2>3
<1>20. CASE Advance
  <2>1. pending' \in Seq(Uploads)
    BY <1>20, MembersOfHeadTail, EmptySeq DEF Advance
  <2> QED
    BY <1>20, <2>1 DEF Advance
<1>21. CASE UNCHANGED vars
  BY <1>21 DEF vars
<1> QED
  BY <1>1, <1>2, <1>3, <1>4, <1>5, <1>6, <1>7, <1>8, <1>9, <1>10, <1>11, <1>12, <1>13,
     <1>14, <1>16, <1>17, <1>18, <1>19, <1>20, <1>21
     DEF Next, ServerStep, UIStep, UserStep
------------------------------------------------------------------------------
(* Reply channels *)

\* A channel is registered and removed exactly where the wait begins and ends.
LEMMA NextReplies == TypeOK /\ RepliesAreTheWaiting /\ [Next]_vars => RepliesAreTheWaiting'
<1> SUFFICES ASSUME TypeOK, RepliesAreTheWaiting, [Next]_vars PROVE RepliesAreTheWaiting'
  OBVIOUS
<1> USE DEF TypeOK, OpenStates, RepliesAreTheWaiting, server, Goto
<1>1. CASE UNCHANGED <<pc, replies>>
  BY <1>1
<1>2. ASSUME NEW u \in Uploads, Register(u) PROVE RepliesAreTheWaiting'
  BY <1>2 DEF Register
<1>3. ASSUME NEW u \in Uploads, SubmitReady(u) PROVE RepliesAreTheWaiting'
  BY <1>3 DEF SubmitReady
<1>4. ASSUME NEW u \in Uploads, SubmitNotReady(u) PROVE RepliesAreTheWaiting'
  BY <1>4 DEF SubmitNotReady
<1>5. ASSUME NEW u \in Uploads, OpenDirect(u) PROVE RepliesAreTheWaiting'
  BY <1>5 DEF OpenDirect
<1>6. ASSUME NEW u \in Uploads, Receive(u) PROVE RepliesAreTheWaiting'
  BY <1>6 DEF Receive
<1>7. ASSUME NEW u \in Uploads, Timeout(u) PROVE RepliesAreTheWaiting'
  BY <1>7 DEF Timeout
<1>8. ASSUME NEW u \in Uploads, RemoveUpload(u) PROVE RepliesAreTheWaiting'
  BY <1>8 DEF RemoveUpload
<1>9. ASSUME NEW u \in Uploads, SaveFile(u) PROVE RepliesAreTheWaiting'
  BY <1>9 DEF SaveFile
<1>10. ASSUME NEW u \in Uploads, FailUpload(u) PROVE RepliesAreTheWaiting'
  BY <1>10 DEF FailUpload
<1>11. ASSUME NEW u \in Uploads, DropSession(u) PROVE RepliesAreTheWaiting'
  BY <1>11 DEF DropSession
<1>12. ASSUME NEW t \in Threads, ReadQueue(t) \/ PostQueue(t) PROVE RepliesAreTheWaiting'
  BY <1>1, <1>12 DEF ReadQueue, PostQueue
<1>13. CASE InstallSetter \/ Render \/ Reply \/ Advance
  BY <1>1, <1>13 DEF InstallSetter, Render, Reply, Advance
<1>14. CASE UserStep
  BY <1>1, <1>14 DEF UserStep, CancelDialog, AcceptDialog, PickerDone
<1> QED
  BY <1>1, <1>2, <1>3, <1>4, <1>5, <1>6, <1>7, <1>8, <1>9, <1>10, <1>11, <1>12, <1>13, <1>14
     DEF Next, ServerStep, UIStep, Threads, vars
------------------------------------------------------------------------------
(* The way of an upload to the user *)

\* What a step of the open does to its upload's control state: once submitted,
\* never unsubmitted again.
LEMMA NextSubmitted ==
    ASSUME TypeOK, [Next]_vars, NEW u \in Uploads, pc'[u] \in Unsubmitted
    PROVE  pc[u] \in Unsubmitted
<1> USE DEF TypeOK, OpenStates, Unsubmitted, server, Goto
<1>1. CASE \E v \in Uploads : ServerStep(v) \/ DropSession(v)
  BY <1>1, SMTT(60) DEF ServerStep, DropSession, Register, SubmitReady, SubmitNotReady,
      OpenDirect,
     ReadQueue, PostQueue, Receive, Timeout, RemoveUpload, SaveFile, FailUpload
<1>2. CASE UIStep \/ UserStep \/ UNCHANGED vars
  BY <1>2, SMTT(60) DEF UIStep, UserStep, InstallSetter, ReadQueue, PostQueue, Render, Reply,
     Advance, CancelDialog, AcceptDialog, PickerDone, vars
<1> QED
  BY <1>1, <1>2 DEF Next

\* Only the submission puts an upload on its way to the user.
LEMMA NextOnItsWay ==
    ASSUME TypeOK, [Next]_vars, NEW u \in Uploads, OnItsWay(u)'
    PROVE  OnItsWay(u) \/ pc'[u] \notin Unsubmitted
<1> USE DEF TypeOK, Threads, server, screen, thread
<1>1. CASE UNCHANGED <<pending, snap, inbox, incoming, dialog, picker, target>>
  BY <1>1 DEF OnItsWay
<1>2. ASSUME NEW t \in Threads, ReadQueue(t) PROVE OnItsWay(u)
  BY <1>2 DEF ReadQueue, OnItsWay
<1>3. ASSUME NEW t \in Threads, PostQueue(t) PROVE OnItsWay(u)
  <2>1. \A w \in Threads : ToSet(snap'[w]) \subseteq ToSet(snap[w])
    BY <1>3 DEF PostQueue, ToSet
  <2>2. ASSUME NEW k \in DOMAIN inbox'
        PROVE  (k \in DOMAIN inbox /\ inbox'[k] = inbox[k]) \/ inbox'[k] = snap[t]
    <3>1. inbox' = Append(inbox, snap[t])
      BY <1>3 DEF PostQueue
    <3>2. inbox \in Seq(Seq(Uploads)) /\ snap[t] \in Seq(Uploads)
      BY <1>3
    <3>3. /\ DOMAIN inbox = 1..Len(inbox) /\ DOMAIN inbox' = 1..Len(inbox')
          /\ Len(inbox) \in Nat /\ Len(inbox') = Len(inbox) + 1
          /\ \A j \in 1..Len(inbox) : inbox'[j] = inbox[j]
          /\ inbox'[Len(inbox) + 1] = snap[t]
      BY ONLY <3>1, <3>2, AppendProperties, LenProperties
    <3>4. k \in 1..Len(inbox) \/ k = Len(inbox) + 1
      BY ONLY <3>3, k \in DOMAIN inbox'
    <3> QED
      BY ONLY <3>3, <3>4
  <2>3. UNCHANGED <<pending, incoming, dialog, picker, target>>
    BY <1>3 DEF PostQueue
  <2>4. CASE \E w \in Threads : u \in ToSet(snap'[w])
    BY <2>1, <2>4 DEF OnItsWay
  <2>5. CASE \E k \in DOMAIN inbox' : u \in ToSet(inbox'[k])
    BY <1>3, <2>2, <2>5 DEF OnItsWay
  <2>6. \/ u \in ToSet(pending)
        \/ \E w \in Threads : u \in ToSet(snap'[w])
        \/ \E k \in DOMAIN inbox' : u \in ToSet(inbox'[k])
        \/ u \in ToSet(incoming)
        \/ u \in {dialog, picker, target}
    BY ONLY OnItsWay(u)', <2>3 DEF OnItsWay
  <2>7. CASE u \in ToSet(pending) \cup ToSet(incoming) \cup {dialog, picker, target}
    BY ONLY <2>7 DEF OnItsWay
  <2> QED
    BY ONLY <2>4, <2>5, <2>6, <2>7
<1>4. ASSUME NEW v \in Uploads, SubmitReady(v) PROVE OnItsWay(u) \/ pc'[u] \notin Unsubmitted
  <2>1. ToSet(pending') = ToSet(pending) \cup {v} /\ pc'[v] = "waiting"
    BY <1>4, MembersOfAppend DEF SubmitReady, Goto
  <2> QED
    BY <1>4, <2>1 DEF SubmitReady, OnItsWay, Unsubmitted
<1>5. ASSUME NEW v \in Uploads, FailUpload(v) PROVE OnItsWay(u)
  <2>1. ToSet(pending') \subseteq ToSet(pending)
    BY <1>5, MembersOfRemoveAt DEF FailUpload
  <2> QED
    BY <1>5, <2>1 DEF FailUpload, OnItsWay
<1>6. CASE Render
  <2>1. ASSUME NEW k \in DOMAIN inbox' PROVE k + 1 \in DOMAIN inbox /\ inbox'[k] = inbox[k + 1]
    BY <1>6, HeadTailProperties DEF Render
  <2>2. 1 \in DOMAIN inbox /\ incoming' = inbox[1]
    BY <1>6, HeadTailProperties, EmptySeq, LenProperties DEF Render
  <2>3. dialog' = dialog \/ dialog' = Nobody \/ dialog' \in ToSet(incoming')
    <3>1. incoming' \in Seq(Uploads)
      BY <2>2, ElementOfSeq
    <3>2. incoming' # <<>> => incoming'[1] \in ToSet(incoming')
      BY <3>1, MembersOfHeadTail
    <3> QED
      BY <1>6, <3>2 DEF Render, FrontOf
  <2> QED
    BY <1>6, <2>1, <2>2, <2>3, GateConstants DEF Render, OnItsWay
<1>7. CASE UserStep
  BY <1>7, GateConstants DEF UserStep, CancelDialog, AcceptDialog, PickerDone, Say, OnItsWay
<1>8. CASE Advance
  <2>1. ToSet(pending') \subseteq ToSet(pending)
    BY <1>8, MembersOfHeadTail DEF Advance
  <2> QED
    BY <1>8, <2>1, GateConstants DEF Advance, OnItsWay
<1>9. ASSUME NEW v \in Uploads,
             \/ Register(v) \/ SubmitNotReady(v) \/ OpenDirect(v) \/ Receive(v) \/ Timeout(v)
             \/ RemoveUpload(v) \/ SaveFile(v) \/ DropSession(v)
      PROVE  OnItsWay(u)
  BY <1>1, <1>9 DEF Register, SubmitNotReady, OpenDirect, Receive, Timeout, RemoveUpload,
     SaveFile, DropSession, OnItsWay
<1>10. CASE InstallSetter \/ Reply \/ UNCHANGED vars
  BY <1>1, <1>10 DEF InstallSetter, Reply, vars
<1> QED
  BY <1>1, <1>2, <1>3, <1>4, <1>5, <1>6, <1>7, <1>8, <1>9, <1>10 DEF Next, ServerStep, UIStep
\* The user's answers and the channel change only for an upload on its way.
LEMMA NextAnswers ==
    ASSUME TypeOK, [Next]_vars, NEW u \in Uploads, ~OnItsWay(u)
    PROVE  answers'[u] = answers[u] /\ chan'[u] = chan[u]
<1> USE DEF TypeOK, server, screen, thread
<1>1. CASE \E v \in Uploads : ServerStep(v) \/ DropSession(v)
  BY <1>1 DEF ServerStep, DropSession, Register, SubmitReady, SubmitNotReady, OpenDirect,
     ReadQueue, PostQueue, Receive, Timeout, RemoveUpload, SaveFile, FailUpload
<1>2. u # dialog /\ u # picker /\ u # target
  BY DEF OnItsWay
<1>3. CASE UserStep
  BY <1>2, <1>3 DEF UserStep, CancelDialog, AcceptDialog, PickerDone, Say
<1>4. CASE UIStep \/ UNCHANGED vars
  BY <1>2, <1>4 DEF UIStep, InstallSetter, ReadQueue, PostQueue, Render, Reply, Advance, vars
<1> QED
  BY <1>1, <1>3, <1>4 DEF Next

\* An upload that has not been submitted stays unknown to the queue, the UI and
\* the user: only submit_upload makes it known.
LEMMA NextUnknown ==
    TypeOK /\ UnknownUntilSubmitted /\ [Next]_vars => UnknownUntilSubmitted'
<1> SUFFICES ASSUME TypeOK, UnknownUntilSubmitted, [Next]_vars, NEW u \in Uploads,
                    pc'[u] \in Unsubmitted
             PROVE  ~OnItsWay(u)' /\ answers'[u] = <<>> /\ chan'[u] = <<>>
  BY DEF UnknownUntilSubmitted, Unsubmitted
<1>1. ~OnItsWay(u) /\ answers[u] = <<>> /\ chan[u] = <<>>
  BY NextSubmitted DEF UnknownUntilSubmitted
<1> QED
  BY <1>1, NextOnItsWay, NextAnswers

\* No position of a sequence without repetitions is lost but the one removed.
LEMMA InjectiveRemoveAt ==
    ASSUME NEW S, NEW s \in Seq(S), NEW n \in DOMAIN s,
           \A i, j \in DOMAIN s : s[i] = s[j] => i = j
    PROVE  \A i, j \in DOMAIN RemoveAt(s, n) : RemoveAt(s, n)[i] = RemoveAt(s, n)[j] => i = j
<1> DEFINE a == SubSeq(s, 1, n - 1)
           b == SubSeq(s, n + 1, Len(s))
           At(i) == IF i < n THEN i ELSE i + 1
<1>1. n \in 1..Len(s) /\ Len(s) \in Nat /\ DOMAIN s = 1..Len(s) /\ \A i \in 1..Len(s) : s[i] \in S
  BY LenProperties, ElementOfSeq
<1>2. a \in Seq(S) /\ Len(a) = n - 1 /\ \A i \in 1..(n - 1) : a[i] = s[i]
  BY <1>1, SubSeqProperties
<1>3. b \in Seq(S) /\ Len(b) = Len(s) - n /\ \A i \in 1..(Len(s) - n) : b[i] = s[n + i]
  BY <1>1, SubSeqProperties
<1> HIDE DEF a, b
<1>4. /\ a \o b \in Seq(S) /\ Len(a \o b) = Len(s) - 1
      /\ \A i \in 1..(Len(s) - 1) : (a \o b)[i] = IF i <= n - 1 THEN a[i] ELSE b[i - (n - 1)]
  <2>1. Len(a) + Len(b) = Len(s) - 1
    BY <1>1, <1>2, <1>3
  <2>2. /\ a \o b \in Seq(S) /\ Len(a \o b) = Len(a) + Len(b)
        /\ \A i \in 1..(Len(a) + Len(b)) :
             (a \o b)[i] = IF i <= Len(a) THEN a[i] ELSE b[i - Len(a)]
    BY ONLY <1>2, <1>3, ConcatProperties
  <2> QED
    BY <1>2, <2>1, <2>2
<1>5. DOMAIN (a \o b) = 1..(Len(s) - 1)
  BY <1>4, LenProperties
<1>6. ASSUME NEW i \in 1..(Len(s) - 1) PROVE (a \o b)[i] = s[At(i)] /\ At(i) \in DOMAIN s
  <2>1. CASE i < n
    <3>1. i \in 1..(n - 1) /\ i <= n - 1 /\ i \in 1..Len(s) /\ At(i) = i
      BY <1>1, <2>1
    <3>2. (a \o b)[i] = a[i]
      BY <1>4, <3>1
    <3>3. a[i] = s[i]
      BY <1>2, <3>1
    <3> QED
      BY <1>1, <3>1, <3>2, <3>3
  <2>2. CASE i >= n
    <3>1. /\ i - (n - 1) \in 1..(Len(s) - n) /\ n + (i - (n - 1)) = i + 1 /\ ~(i <= n - 1)
          /\ At(i) = i + 1 /\ i + 1 \in 1..Len(s)
      BY <1>1, <2>2
    <3>2. (a \o b)[i] = b[i - (n - 1)]
      BY <1>4, <3>1
    <3>3. b[i - (n - 1)] = s[i + 1]
      BY <1>3, <3>1
    <3> QED
      BY <1>1, <3>1, <3>2, <3>3
  <2>3. i < n \/ i >= n
    BY <1>1
  <2> QED
    BY <2>1, <2>2, <2>3
<1>7. \A i, j \in 1..(Len(s) - 1) : At(i) = At(j) => i = j
  BY <1>1
<1>8. RemoveAt(s, n) = a \o b
  BY DEF RemoveAt, a, b
<1> QED
  BY <1>5, <1>6, <1>7, <1>8

\* PENDING gets an upload once, at its submission, and never again.
LEMMA NextQueuedOnce ==
    TypeOK /\ UnknownUntilSubmitted /\ QueuedOnce /\ [Next]_vars => QueuedOnce'
<1> SUFFICES ASSUME TypeOK, UnknownUntilSubmitted, QueuedOnce, [Next]_vars PROVE QueuedOnce'
  OBVIOUS
<1> USE DEF server, screen, thread
<1>1. TypeOK' /\ UnknownUntilSubmitted'
  BY NextType, NextUnknown
<1>2. ASSUME NEW i \in DOMAIN pending' PROVE pc'[pending'[i]] \notin Unsubmitted
  <2>1. pending'[i] \in Uploads /\ pending'[i] \in ToSet(pending')
    BY <1>1, ElementOfSeq, LenProperties DEF TypeOK, ToSet
  <2> QED
    BY <1>1, <2>1 DEF UnknownUntilSubmitted, OnItsWay
<1> DEFINE Once(s) == \A i, j \in DOMAIN s : s[i] = s[j] => i = j
<1>3. ASSUME UNCHANGED pending PROVE Once(pending')
  BY <1>3 DEF QueuedOnce
<1>4. ASSUME NEW u \in Uploads, SubmitReady(u) PROVE Once(pending')
  <2>1. \A i \in DOMAIN pending : pending[i] # u
    BY <1>4 DEF SubmitReady, UnknownUntilSubmitted, Unsubmitted, OnItsWay, ToSet
  <2>2. /\ DOMAIN pending' = 1..(Len(pending) + 1) /\ DOMAIN pending = 1..Len(pending)
        /\ pending'[Len(pending) + 1] = u
        /\ \A i \in 1..Len(pending) : pending'[i] = pending[i]
        /\ Len(pending) \in Nat
    BY <1>4, AppendProperties, LenProperties DEF SubmitReady, TypeOK
  <2> QED
    BY <2>1, <2>2 DEF QueuedOnce
<1>5. ASSUME NEW u \in Uploads, FailUpload(u) PROVE Once(pending')
  <2>1. pending \in Seq(Uploads) /\ Once(pending)
    BY DEF TypeOK, QueuedOnce
  <2>2. \A n \in DOMAIN pending : Once(RemoveAt(pending, n))
    BY ONLY <2>1, InjectiveRemoveAt
  <2>3. pending' = pending \/ \E n \in DOMAIN pending : pending' = RemoveAt(pending, n)
    BY <1>5 DEF FailUpload
  <2> HIDE DEF Once
  <2> QED
    BY <2>1, <2>2, <2>3
<1>6. ASSUME Advance PROVE Once(pending')
  <2>1. CASE pending = <<>>
    <3>1. pending' = pending
      BY <1>6, <2>1 DEF Advance
    <3> QED
      BY <3>1 DEF QueuedOnce
  <2>2. CASE pending # <<>>
    <3>1. /\ DOMAIN pending = 1..Len(pending) /\ DOMAIN pending' = 1..(Len(pending) - 1)
          /\ Len(pending) \in Nat
          /\ \A i \in 1..(Len(pending) - 1) : pending'[i] = pending[i + 1]
      BY <1>6, <2>2, HeadTailProperties, LenProperties DEF Advance, TypeOK
    <3> QED
      BY <3>1 DEF QueuedOnce
  <2> QED
    BY <2>1, <2>2
<1>7. ASSUME NEW v \in Uploads,
             \/ Register(v) \/ SubmitNotReady(v) \/ OpenDirect(v) \/ Receive(v) \/ Timeout(v)
             \/ RemoveUpload(v) \/ SaveFile(v) \/ DropSession(v) \/ ReadQueue(v) \/ PostQueue(v)
      PROVE  Once(pending')
  BY <1>3, <1>7 DEF Register, SubmitNotReady, OpenDirect, Receive, Timeout, RemoveUpload,
     SaveFile, DropSession, ReadQueue, PostQueue, QueuedOnce
<1>8. ASSUME \/ InstallSetter \/ Render \/ Reply \/ UserStep \/ ReadQueue(UI) \/ PostQueue(UI)
             \/ UNCHANGED vars
      PROVE  Once(pending')
  BY <1>3, <1>8 DEF InstallSetter, Render, Reply, UserStep, CancelDialog, AcceptDialog,
     PickerDone, ReadQueue, PostQueue, vars, QueuedOnce
<1>9. Once(pending')
  BY <1>4, <1>5, <1>6, <1>7, <1>8 DEF Next, ServerStep, UIStep
<1> QED
  BY <1>2, <1>9 DEF QueuedOnce
------------------------------------------------------------------------------
(* Answers and decisions *)

\* No decision is there before the submission: await_decision has not run.
LEMMA NextUndecided ==
    TypeOK /\ UndecidedBefore /\ [Next]_vars => UndecidedBefore'
<1> SUFFICES ASSUME TypeOK, UndecidedBefore, [Next]_vars, NEW u \in Uploads,
                    pc'[u] \in Unsubmitted
             PROVE  decision'[u] = NoDecision
  BY DEF UndecidedBefore
<1>1. pc[u] \in Unsubmitted /\ decision[u] = NoDecision
  BY NextSubmitted DEF UndecidedBefore
<1> USE DEF TypeOK, server
<1>2. CASE \E v \in Uploads : ServerStep(v) \/ DropSession(v)
  BY <1>1, <1>2, SMTT(60)
      DEF ServerStep, DropSession, Register, SubmitReady, SubmitNotReady, OpenDirect,
     ReadQueue, PostQueue, Receive, Timeout, RemoveUpload, SaveFile, FailUpload, Unsubmitted
<1>3. CASE UIStep \/ UserStep \/ UNCHANGED vars
  BY <1>1, <1>3, SMTT(60)
      DEF UIStep, UserStep, InstallSetter, ReadQueue, PostQueue, Render, Reply,
     Advance, CancelDialog, AcceptDialog, PickerDone, vars
<1> QED
  BY <1>2, <1>3 DEF Next

\* The answers and the channel of a waiting upload stay in step.
LEMMA NextChannel ==
    TypeOK /\ RepliesAreTheWaiting /\ UnknownUntilSubmitted /\ UndecidedBefore
        /\ ChannelHoldsAnswers /\ [Next]_vars => ChannelHoldsAnswers'
<1> SUFFICES ASSUME TypeOK, RepliesAreTheWaiting, UnknownUntilSubmitted, UndecidedBefore,
                    ChannelHoldsAnswers, [Next]_vars, NEW u \in Uploads, pc'[u] = "waiting"
             PROVE  /\ decision'[u] = NoDecision
                    /\ answers'[u] = IF ui' = "replying" /\ target' = u
                                     THEN Append(chan'[u], choice') ELSE chan'[u]
  BY DEF ChannelHoldsAnswers
<1> DEFINE Goal == /\ decision'[u] = NoDecision
                   /\ answers'[u] = IF ui' = "replying" /\ target' = u
                                    THEN Append(chan'[u], choice') ELSE chan'[u]
<1> USE DEF TypeOK, ChannelHoldsAnswers, server, screen, thread
<1>1. CASE pc[u] = "waiting"
  <2>1. CASE \E v \in Uploads : ServerStep(v) \/ DropSession(v)
    <3> USE <1>1 DEF Goto
    <3>1. ASSUME NEW v \in Uploads, Register(v) \/ OpenDirect(v) PROVE Goal
      BY <3>1 DEF Register, OpenDirect
    <3>2. ASSUME NEW v \in Uploads, SubmitReady(v) \/ SubmitNotReady(v) PROVE Goal
      BY <3>2 DEF SubmitReady, SubmitNotReady
    <3>3. ASSUME NEW v \in Uploads, ReadQueue(v) \/ PostQueue(v) PROVE Goal
      BY <3>3 DEF ReadQueue, PostQueue
    <3>4. ASSUME NEW v \in Uploads, Receive(v) \/ Timeout(v) PROVE Goal
      BY <3>4 DEF Receive, Timeout
    <3>5. ASSUME NEW v \in Uploads, RemoveUpload(v) \/ SaveFile(v) PROVE Goal
      BY <3>5 DEF RemoveUpload, SaveFile
    <3>6. ASSUME NEW v \in Uploads, FailUpload(v) \/ DropSession(v) PROVE Goal
      BY <3>6 DEF FailUpload, DropSession
    <3> QED
      BY <2>1, <3>1, <3>2, <3>3, <3>4, <3>5, <3>6 DEF ServerStep
  <2>2. ASSUME NEW w \in Uploads, NEW d \in Decisions, Say(w, d), ui = "idle",
               UNCHANGED <<decision, chan>>
        PROVE  Goal
    BY <1>1, <2>2 DEF Say
  <2>3. CASE CancelDialog
    <3>1. /\ dialog \in Uploads /\ Reject \in Decisions /\ Say(dialog, Reject)
          /\ ui = "idle" /\ UNCHANGED <<decision, chan>>
      BY <2>3 DEF CancelDialog, DialogUp, UIFree, Decisions
    <3> QED
      BY ONLY <2>2, <3>1
  <2>4. CASE PickerDone
    <3>1. /\ picker \in Uploads /\ \E d \in Decisions : Say(picker, d)
          /\ ui = "idle" /\ UNCHANGED <<decision, chan>>
      BY <2>4 DEF PickerDone, UIFree
    <3> QED
      BY ONLY <2>2, <3>1
  <2>5. CASE Reply
    <3>1. u \in replies
      BY <1>1 DEF RepliesAreTheWaiting
    <3> QED
      BY <1>1, <2>5, <3>1 DEF Reply
  <2>6. CASE AcceptDialog \/ InstallSetter \/ Render \/ Advance \/ ReadQueue(UI) \/ PostQueue(UI)
             \/ UNCHANGED vars
    BY <1>1, <2>6 DEF AcceptDialog, DialogUp, UIFree, InstallSetter, Render, Advance, ReadQueue,
       PostQueue, vars
  <2> QED
    BY <2>1, <2>3, <2>4, <2>5, <2>6 DEF Next, UIStep, UserStep
<1>2. CASE pc[u] # "waiting"
  <2>1. SubmitReady(u)
    <3>1. CASE \E v \in Uploads : ServerStep(v) \/ DropSession(v)
      BY <1>2, <3>1 DEF ServerStep, DropSession, Register, SubmitReady, SubmitNotReady,
          OpenDirect,
         ReadQueue, PostQueue, Receive, Timeout, RemoveUpload, SaveFile, FailUpload, Goto
    <3>2. CASE UIStep \/ UserStep \/ UNCHANGED vars
      BY <1>2, <3>2 DEF UIStep, UserStep, InstallSetter, ReadQueue, PostQueue, Render, Reply,
         Advance, CancelDialog, AcceptDialog, PickerDone, vars
    <3> QED
      BY <3>1, <3>2 DEF Next
  <2>2. answers[u] = <<>> /\ chan[u] = <<>> /\ target # u /\ decision[u] = NoDecision
    BY <2>1 DEF SubmitReady, UnknownUntilSubmitted, UndecidedBefore, Unsubmitted, OnItsWay
  <2> QED
    BY <2>1, <2>2 DEF SubmitReady
<1> QED
  BY <1>1, <1>2

\* The first answer stays the first.
LEMMA HeadOfAppend ==
    ASSUME NEW S, NEW s \in Seq(S), NEW e \in S
    PROVE  Append(s, e) # <<>> /\ (s # <<>> => Head(Append(s, e)) = Head(s))
<1>1. /\ Append(s, e) \in Seq(S) /\ Len(Append(s, e)) = Len(s) + 1 /\ Len(s) \in Nat
      /\ \A i \in 1..Len(s) : Append(s, e)[i] = s[i]
  BY AppendProperties, LenProperties
<1>2. Append(s, e) # <<>>
  BY <1>1, EmptySeq
<1>3. ASSUME s # <<>> PROVE Head(Append(s, e)) = Head(s)
  <2>1. 1 \in 1..Len(s) /\ Head(s) = s[1]
    BY <1>1, <1>3, EmptySeq, MembersOfHeadTail
  <2>2. Head(Append(s, e)) = Append(s, e)[1]
    BY <1>1, <1>2, MembersOfHeadTail
  <2> QED
    BY <1>1, <2>1, <2>2
<1> QED
  BY <1>2, <1>3

\* What await_decision returned stays the first answer, and only a folder the
\* user named leads to a file.
LEMMA NextDecision ==
    TypeOK /\ UndecidedBefore /\ ChannelHoldsAnswers /\ DecisionIsFirstAnswer /\ [Next]_vars
        => DecisionIsFirstAnswer'
<1> SUFFICES ASSUME TypeOK, UndecidedBefore, ChannelHoldsAnswers, DecisionIsFirstAnswer,
                    [Next]_vars, NEW u \in Uploads
             PROVE  /\ decision'[u] # NoDecision =>
                          answers'[u] # <<>> /\ decision'[u] = Head(answers'[u])
                    /\ pc'[u] \in {"saving", "opened"} => decision'[u] \in Folders
  BY DEF DecisionIsFirstAnswer
<1> DEFINE Goal == /\ decision'[u] # NoDecision =>
                          answers'[u] # <<>> /\ decision'[u] = Head(answers'[u])
                   /\ pc'[u] \in {"saving", "opened"} => decision'[u] \in Folders
<1> USE DEF TypeOK, server, screen, thread
<1>1. ASSUME Receive(u) PROVE Goal
  <2>1. /\ chan[u] \in Seq(Decisions) /\ chan[u] # <<>> /\ choice \in Decisions \cup {NoDecision}
        /\ decision'[u] = Head(chan[u]) /\ answers'[u] = answers[u] /\ pc'[u] = "decided"
        /\ pc[u] = "waiting"
    BY <1>1 DEF Receive, Goto
  <2>2. answers[u] # <<>> /\ Head(answers[u]) = Head(chan[u])
    <3>1. CASE ui = "replying" /\ target = u
      <4>1. choice \in Decisions
        BY <3>1
      <4>2. answers[u] = Append(chan[u], choice)
        BY <2>1, <3>1 DEF ChannelHoldsAnswers
      <4> QED
        BY ONLY <2>1, <4>1, <4>2, HeadOfAppend
    <3>2. CASE ~(ui = "replying" /\ target = u)
      BY <2>1, <3>2 DEF ChannelHoldsAnswers
    <3> QED
      BY <3>1, <3>2
  <2> QED
    BY <2>1, <2>2
<1>2. ASSUME RemoveUpload(u) PROVE Goal
  BY <1>2 DEF RemoveUpload, Goto, DecisionIsFirstAnswer
<1>3. ASSUME NEW w \in Uploads, NEW d \in Decisions, Say(w, d), UNCHANGED <<pc, decision>>
      PROVE  Goal
  <2>1. CASE u = w
    <3>1. answers'[u] = Append(answers[u], d) /\ answers[u] \in Seq(Decisions)
      BY <1>3, <2>1 DEF Say
    <3>2. answers'[u] # <<>> /\ (answers[u] # <<>> => Head(answers'[u]) = Head(answers[u]))
      BY ONLY <3>1, HeadOfAppend, d \in Decisions
    <3> QED
      BY <1>3, <3>2 DEF DecisionIsFirstAnswer
  <2>2. CASE u # w
    BY <1>3, <2>2 DEF Say, DecisionIsFirstAnswer
  <2> QED
    BY <2>1, <2>2
<1>4. CASE UserStep
  <2>1. CASE CancelDialog
    <3>1. /\ dialog \in Uploads /\ Reject \in Decisions /\ Say(dialog, Reject)
          /\ UNCHANGED <<pc, decision>>
      BY <2>1 DEF CancelDialog, DialogUp, Decisions
    <3> QED
      BY ONLY <1>3, <3>1
  <2>2. CASE PickerDone
    <3>1. /\ picker \in Uploads /\ \E d \in Decisions : Say(picker, d)
          /\ UNCHANGED <<pc, decision>>
      BY <2>2 DEF PickerDone
    <3> QED
      BY ONLY <1>3, <3>1
  <2>3. CASE AcceptDialog
    BY <2>3 DEF AcceptDialog, DecisionIsFirstAnswer
  <2> QED
    BY <1>4, <2>1, <2>2, <2>3 DEF UserStep
<1>5. CASE \E v \in Uploads : ServerStep(v) \/ DropSession(v)
  <2> DEFINE Kept == /\ answers'[u] = answers[u] /\ decision'[u] = decision[u]
                     /\ pc'[u] = "saving" => pc[u] = "saving"
                     /\ pc'[u] = "opened" => pc[u] \in {"saving", "opened"}
  <2>1. ASSUME NEW v \in Uploads, ServerStep(v) \/ DropSession(v), v # u PROVE Kept
    BY <2>1 DEF ServerStep, DropSession, Register, SubmitReady, SubmitNotReady, OpenDirect,
       ReadQueue, PostQueue, Receive, Timeout, RemoveUpload, SaveFile, FailUpload, Goto
  <2>2. ASSUME \/ Register(u) \/ SubmitReady(u) \/ SubmitNotReady(u) \/ OpenDirect(u)
               \/ ReadQueue(u) \/ PostQueue(u) \/ Timeout(u) \/ SaveFile(u) \/ FailUpload(u)
               \/ DropSession(u)
        PROVE  Kept
    BY <2>2 DEF Register, SubmitReady, SubmitNotReady, OpenDirect, ReadQueue, PostQueue,
       Timeout, SaveFile, FailUpload, DropSession, Goto
  <2>3. Kept \/ Receive(u) \/ RemoveUpload(u)
    BY <1>5, <2>1, <2>2 DEF ServerStep
  <2>4. Kept => Goal
    BY DEF DecisionIsFirstAnswer
  <2> QED
    BY <1>1, <1>2, <2>3, <2>4
<1>6. CASE UIStep \/ UNCHANGED vars
  BY <1>6 DEF UIStep, InstallSetter, ReadQueue, PostQueue, Render, Reply, Advance, vars,
     DecisionIsFirstAnswer
<1> QED
  BY <1>4, <1>5, <1>6 DEF Next
------------------------------------------------------------------------------
(* The invariant and the theorems *)

\* The initial state satisfies the inductive invariant.
LEMMA InitInv == Init => GateInv
<1> SUFFICES ASSUME Init PROVE GateInv
  OBVIOUS
<1>1. TypeOK
  BY InitType
<1>2. \A u \in Uploads : ~OnItsWay(u)
  BY GateConstants DEF Init, OnItsWay, ToSet
<1>3. DOMAIN pending = {}
  BY DEF Init
<1> QED
  BY <1>1, <1>2, <1>3 DEF Init, GateInv, RepliesAreTheWaiting, UnknownUntilSubmitted, QueuedOnce,
     UndecidedBefore, ChannelHoldsAnswers, DecisionIsFirstAnswer

\* GateInv holds in every state: types, reply channels, the way of an upload
\* to the user and back, and what await_decision returns.
THEOREM GateInvariant == Spec => []GateInv
<1>1. Init => GateInv
  BY InitInv
<1>2. GateInv /\ [Next]_vars => GateInv'
  BY NextType, NextReplies, NextUnknown, NextQueuedOnce, NextUndecided, NextChannel, NextDecision
     DEF GateInv
<1> QED
  BY <1>1, <1>2, PTL DEF Spec

\* The variables keep their types.
THEOREM TypeCorrect == Spec => []TypeOK
<1>1. GateInv => TypeOK
  BY DEF GateInv
<1> QED
  BY <1>1, GateInvariant, PTL

\* A file is saved only where the user's first answer about that upload said.
THEOREM ConsentRespected == Spec => []DecisionIsFirstAnswer
<1>1. GateInv => DecisionIsFirstAnswer
  BY DEF GateInv
<1> QED
  BY <1>1, GateInvariant, PTL

\* The reply channels are those of the waiting uploads, none leaks.
THEOREM NoReplyLeak == Spec => []RepliesAreTheWaiting
<1>1. GateInv => RepliesAreTheWaiting
  BY DEF GateInv
<1> QED
  BY <1>1, GateInvariant, PTL

\* No upload is queued twice.
THEOREM NoDuplicateDialog == Spec => []QueuedOnce
<1>1. GateInv => QueuedOnce
  BY DEF GateInv
<1> QED
  BY <1>1, GateInvariant, PTL

\* "Save..." records the upload before its picker opens: a folder that is
\* picked, sent or received is one for a recorded upload.
AcceptedIsRecorded ==
    /\ picker # Nobody => picker \in marked
    /\ ui = "replying" /\ choice \in Folders => target \in marked
    /\ \A u \in Uploads : ToSet(chan[u]) \cap Folders # {} => u \in marked
    /\ \A u \in Uploads : decision[u] \in Folders => u \in marked

\* No step gives a folder to an upload that is not recorded.
LEMMA NextRecorded == TypeOK /\ AcceptedIsRecorded /\ [Next]_vars => AcceptedIsRecorded'
<1> SUFFICES ASSUME TypeOK, AcceptedIsRecorded, [Next]_vars PROVE AcceptedIsRecorded'
  OBVIOUS
<1> USE GateConstants DEF TypeOK, AcceptedIsRecorded, server, screen, thread
<1>1. CASE UNCHANGED <<picker, ui, choice, target, chan, decision, marked>>
  BY <1>1
<1>2. ASSUME NEW u \in Uploads, Receive(u) PROVE AcceptedIsRecorded'
  <2>1. Head(chan[u]) \in ToSet(chan[u])
    BY <1>2, MembersOfHeadTail DEF Receive
  <2>2. Head(chan[u]) \in Folders => u \in marked
    BY <1>2, <2>1 DEF Receive
  <2> QED BY <1>2, <2>2 DEF Receive
<1>3. ASSUME NEW u \in Uploads, ServerStep(u) \/ DropSession(u), ~Receive(u)
      PROVE  UNCHANGED <<picker, ui, choice, target, chan, decision, marked>>
  BY <1>3 DEF ServerStep, DropSession, Register, SubmitReady, SubmitNotReady, OpenDirect,
     ReadQueue, PostQueue, Timeout, RemoveUpload, SaveFile, FailUpload
<1>4. CASE ReadQueue(UI) \/ PostQueue(UI) \/ Render
  BY <1>4, <1>1 DEF ReadQueue, PostQueue, Render
<1>5. CASE InstallSetter \/ Advance
  BY <1>5 DEF InstallSetter, Advance
<1>6. CASE Reply
  <2>1. CASE target \in replies
    <3>1. target \in Uploads /\ choice \in Decisions /\ chan[target] \in Seq(Decisions)
      BY <1>6, <2>1 DEF Reply
    <3>2. ToSet(Append(chan[target], choice)) = ToSet(chan[target]) \cup {choice}
      BY <3>1, MembersOfAppend
    <3>3. /\ chan'[target] = Append(chan[target], choice)
          /\ \A u \in Uploads \ {target} : chan'[u] = chan[u]
      BY <1>6, <2>1, <3>1 DEF Reply
    <3>4. choice \in Folders => target \in marked
      BY <1>6 DEF Reply
    <3> QED BY <1>6, <3>1, <3>2, <3>3, <3>4 DEF Reply
  <2>2. CASE target \notin replies
    BY <1>6, <2>2 DEF Reply
  <2> QED BY <2>1, <2>2
<1>7. CASE CancelDialog
  BY <1>7 DEF CancelDialog, DialogUp, Say
<1>8. CASE AcceptDialog
  BY <1>8 DEF AcceptDialog, DialogUp
<1>9. CASE PickerDone
  BY <1>9 DEF PickerDone, Say
<1> QED BY <1>1, <1>2, <1>3, <1>4, <1>5, <1>6, <1>7, <1>8, <1>9 DEF Next, UIStep, UserStep, vars

\* Every file saved by way of the gate is in the transfer history, however
\* cancelled pickers, time-outs and lost connections come in between.
THEOREM SavedRecorded == Spec => []SavedIsRecorded
<1>1. Init => AcceptedIsRecorded
  BY GateConstants DEF Init, AcceptedIsRecorded, ToSet
<1>2. TypeOK /\ AcceptedIsRecorded /\ [Next]_vars => AcceptedIsRecorded'
  BY NextRecorded
<1>3. DecisionIsFirstAnswer /\ AcceptedIsRecorded => SavedIsRecorded
  BY DEF DecisionIsFirstAnswer, AcceptedIsRecorded, SavedIsRecorded
<1> QED
  BY <1>1, <1>2, <1>3, TypeCorrect, ConsentRespected, PTL DEF Spec
------------------------------------------------------------------------------
(* The gate implements UploadConsent *)

\* The gate starts as the abstract confirmation does.
LEMMA InitConsent == Init => Consent!Init
BY DEF Init, Consent!Init, ConsentStatus, ConsentVerdict, ConsentPlace

\* What UploadConsent sees of one upload, before and after a step.
Seen(u) == <<ConsentStatus(u), ConsentVerdict(u), ConsentPlace(u)>>

\* A step that leaves what is seen of every upload alone is a stutter.
LEMMA ConsentStutter ==
    ASSUME UNCHANGED setter, \A u \in Uploads : Seen(u)' = Seen(u)
    PROVE  UNCHANGED Consent!vars
BY DEF Consent!vars, Seen

\* A step of upload v's open that changes its control state only.
LEMMA ConsentControl ==
    ASSUME TypeOK, NEW v \in Uploads, NEW s \in OpenStates, Goto(v, s),
           UNCHANGED <<answers, decision>>
    PROVE  /\ \A u \in Uploads \ {v} : Seen(u)' = Seen(u)
           /\ pc'[v] = s /\ ConsentVerdict(v)' = ConsentVerdict(v)
BY DEF TypeOK, Goto, Seen, ConsentStatus, ConsentVerdict, ConsentPlace

\* What the user says is one answer in UploadConsent, or changes nothing there.
LEMMA ConsentSay ==
    ASSUME GateInv, NEW v \in Uploads, NEW d \in Decisions, Say(v, d), OnItsWay(v),
           UNCHANGED <<pc, decision, setter>>
    PROVE  [Consent!Answer(v)]_(Consent!vars)
<1>1. /\ answers[v] \in Seq(Decisions) /\ pc[v] \in OpenStates /\ answers' = [answers EXCEPT ![v] = Append(@, d)]
      /\ answers \in [Uploads -> Seq(Decisions)]
  BY DEF GateInv, TypeOK, Say
<1>2. answers'[v] = Append(answers[v], d) /\ \A u \in Uploads \ {v} : answers'[u] = answers[u]
  BY <1>1
<1>3. \A u \in Uploads \ {v} : Seen(u)' = Seen(u)
  BY <1>2 DEF Seen, ConsentStatus, ConsentVerdict, ConsentPlace
<1>4. ConsentStatus(v)' = ConsentStatus(v) /\ ConsentPlace(v)' = ConsentPlace(v)
  BY DEF ConsentStatus, ConsentPlace
<1>5. CASE answers[v] # <<>>
  <2>1. ConsentVerdict(v)' = ConsentVerdict(v)
    BY <1>1, <1>2, <1>5, HeadOfAppend DEF ConsentVerdict
  <2> QED
    BY <1>3, <1>4, <2>1, ConsentStutter DEF Seen
<1>6. CASE answers[v] = <<>>
  <2>1. ConsentVerdict(v) = NoDecision
    BY <1>6 DEF ConsentVerdict
  <2>2. ConsentVerdict(v)' = d
    <3>1. Append(answers[v], d) # <<>> /\ Head(Append(answers[v], d)) = d
      BY <1>1, <1>6
    <3> QED
      BY <1>2, <3>1 DEF ConsentVerdict
  <2>3. ConsentStatus(v) \in {"asked", "saved", "refused"}
    <3>1. pc[v] \notin Unsubmitted
      BY DEF GateInv, UnknownUntilSubmitted
    <3> QED
      BY <1>1, <3>1 DEF ConsentStatus, Unsubmitted, OpenStates
  <2>4. /\ [u \in Uploads |-> ConsentVerdict(u)]' = [[u \in Uploads |-> ConsentVerdict(u)] EXCEPT ![v] = d]
        /\ UNCHANGED [u \in Uploads |-> ConsentStatus(u)]
        /\ UNCHANGED [u \in Uploads |-> ConsentPlace(u)]
    BY <1>3, <1>4, <2>2 DEF Seen
  <2> QED
    BY <2>1, <2>3, <2>4 DEF Consent!Answer, Decisions
<1> QED
  BY <1>5, <1>6
\* How a change of what is seen of one upload changes UploadConsent's variables.
LEMMA ConsentMoves ==
    ASSUME NEW v \in Uploads, \A u \in Uploads \ {v} : Seen(u)' = Seen(u),
           ConsentVerdict(v)' = ConsentVerdict(v)
    PROVE  /\ [u \in Uploads |-> ConsentStatus(u)]' =
                 [[u \in Uploads |-> ConsentStatus(u)] EXCEPT ![v] = ConsentStatus(v)']
           /\ [u \in Uploads |-> ConsentPlace(u)]' =
                 [[u \in Uploads |-> ConsentPlace(u)] EXCEPT ![v] = ConsentPlace(v)']
           /\ UNCHANGED [u \in Uploads |-> ConsentVerdict(u)]
BY DEF Seen

\* A refusal is seen as one: nothing is written.
LEMMA ConsentRefuse ==
    ASSUME NEW v \in Uploads, \A u \in Uploads \ {v} : Seen(u)' = Seen(u),
           ConsentVerdict(v)' = ConsentVerdict(v), UNCHANGED setter,
           ConsentStatus(v) \in {"asked", "unconfirmed"}, ConsentStatus(v)' = "refused",
           ConsentPlace(v)' = ConsentPlace(v)
    PROVE  Consent!Refuse(v)
<1>1. UNCHANGED [u \in Uploads |-> ConsentPlace(u)]
  BY DEF Seen
<1> QED
  BY <1>1, ConsentMoves DEF Consent!Refuse

\* Every step of the gate is a step of UploadConsent or a stutter.
LEMMA NextConsent == GateInv /\ [Next]_vars => [Consent!Next]_(Consent!vars)
<1> SUFFICES ASSUME GateInv, [Next]_vars PROVE [Consent!Next]_(Consent!vars)
  OBVIOUS
<1> DEFINE Goal == [Consent!Next]_(Consent!vars)
           Alone(v) == /\ \A u \in Uploads \ {v} : Seen(u)' = Seen(u)
                       /\ ConsentVerdict(v)' = ConsentVerdict(v)
<1>0. TypeOK
  BY DEF GateInv
<1> USE DEF server, screen, thread
<1>1. ASSUME UNCHANGED <<pc, decision, answers, setter>> PROVE Goal
  <2>1. \A u \in Uploads : Seen(u)' = Seen(u)
    BY <1>1 DEF Seen, ConsentStatus, ConsentVerdict, ConsentPlace
  <2> QED
    BY <1>1, <2>1, ConsentStutter
<1>2. ASSUME NEW v \in Uploads, Alone(v), UNCHANGED setter,
             ConsentStatus(v)' = ConsentStatus(v), ConsentPlace(v)' = ConsentPlace(v)
      PROVE  Goal
  <2>1. \A u \in Uploads : Seen(u)' = Seen(u)
    BY <1>2 DEF Seen
  <2> QED
    BY <1>2, <2>1, ConsentStutter
<1>3. ASSUME NEW v \in Uploads, Alone(v), UNCHANGED setter,
             ConsentStatus(v) \in {"asked", "unconfirmed"}, ConsentStatus(v)' = "refused",
             ConsentPlace(v)' = ConsentPlace(v)
      PROVE  Goal
  BY <1>3, ConsentRefuse DEF Consent!Next
<1>4. ASSUME NEW v \in Uploads, Register(v) PROVE Goal
  <2>1. Alone(v) /\ ConsentStatus(v)' = ConsentStatus(v) /\ ConsentPlace(v)' = ConsentPlace(v)
    BY <1>0, <1>4, ConsentControl DEF Register, OpenStates, ConsentStatus, ConsentPlace
  <2> QED
    BY <1>2, <1>4, <2>1 DEF Register
<1>5. ASSUME NEW v \in Uploads, SubmitReady(v) PROVE Goal
  <2>1. /\ Alone(v) /\ ConsentStatus(v) = "new" /\ ConsentStatus(v)' = "asked"
        /\ ConsentPlace(v)' = ConsentPlace(v) /\ setter /\ setter' = setter
    BY <1>0, <1>5, ConsentControl DEF SubmitReady, OpenStates, ConsentStatus, ConsentPlace
  <2>2. UNCHANGED [u \in Uploads |-> ConsentPlace(u)]
    BY <2>1 DEF Seen
  <2>3. Consent!Ask(v)
    BY <2>1, <2>2, ConsentMoves DEF Consent!Ask
  <2> QED
    BY <2>3 DEF Consent!Next
<1>6. ASSUME NEW v \in Uploads, SubmitNotReady(v) PROVE Goal
  <2>1. /\ Alone(v) /\ ConsentStatus(v) = "new" /\ ConsentStatus(v)' = "unconfirmed"
        /\ ConsentPlace(v)' = ConsentPlace(v) /\ ~setter /\ setter' = setter
    BY <1>0, <1>6, ConsentControl DEF SubmitNotReady, OpenStates, ConsentStatus, ConsentPlace
  <2>2. UNCHANGED [u \in Uploads |-> ConsentPlace(u)]
    BY <2>1 DEF Seen
  <2>3. Consent!Bypass(v)
    BY <2>1, <2>2, ConsentMoves DEF Consent!Bypass
  <2> QED
    BY <2>3 DEF Consent!Next
<1>7. ASSUME NEW v \in Uploads, OpenDirect(v) PROVE Goal
  <2>1. PICK end \in {"direct", "refused"} : Goto(v, end)
    BY <1>7 DEF OpenDirect
  <2>2. /\ Alone(v) /\ ConsentStatus(v) = "unconfirmed" /\ UNCHANGED setter
        /\ ConsentStatus(v)' \in {"unconfirmed", "refused"} /\ ConsentPlace(v)' = ConsentPlace(v)
    BY <1>0, <1>7, <2>1, ConsentControl DEF OpenDirect, OpenStates, ConsentStatus, ConsentPlace
  <2> QED
    BY <1>2, <1>3, <2>2
<1>8. ASSUME NEW v \in Uploads, Receive(v) PROVE Goal
  <2>1. Alone(v) /\ ConsentStatus(v)' = ConsentStatus(v) /\ ConsentPlace(v)' = ConsentPlace(v)
    BY <1>0, <1>8 DEF Receive, TypeOK, OpenStates, Goto, Seen, ConsentStatus, ConsentVerdict,
        ConsentPlace
  <2> QED
    BY <1>2, <1>8, <2>1 DEF Receive
<1>9. ASSUME NEW v \in Uploads, Timeout(v) PROVE Goal
  <2>1. Alone(v) /\ ConsentStatus(v)' = ConsentStatus(v) /\ ConsentPlace(v)' = ConsentPlace(v)
    BY <1>0, <1>9, ConsentControl DEF Timeout, OpenStates, ConsentStatus, ConsentPlace
  <2> QED
    BY <1>2, <1>9, <2>1 DEF Timeout
<1>10. ASSUME NEW v \in Uploads, RemoveUpload(v) PROVE Goal
  <2>1. PICK s \in {"saving", "refused"} : Goto(v, s)
    BY <1>10 DEF RemoveUpload
  <2>2. /\ Alone(v) /\ ConsentStatus(v) = "asked" /\ UNCHANGED setter
        /\ ConsentStatus(v)' \in {"asked", "refused"} /\ ConsentPlace(v)' = ConsentPlace(v)
    BY <1>0, <1>10, <2>1, ConsentControl DEF RemoveUpload, OpenStates, ConsentStatus, ConsentPlace
  <2> QED
    BY <1>2, <1>3, <2>2
<1>11. ASSUME NEW v \in Uploads, SaveFile(v) PROVE Goal
  <2>1. PICK end \in {"opened", "refused"} : Goto(v, end)
    BY <1>11 DEF SaveFile
  <2>2. /\ Alone(v) /\ ConsentStatus(v) = "asked" /\ UNCHANGED setter /\ pc[v] = "saving" /\ pc'[v] = end
    BY <1>0, <1>11, <2>1, ConsentControl DEF SaveFile, OpenStates, ConsentStatus
  <2>3. CASE end = "refused"
    BY <1>3, <2>2, <2>3 DEF ConsentStatus, ConsentPlace
  <2>4. CASE end = "opened"
    <3>1. /\ decision[v] \in Folders /\ decision[v] # NoDecision /\ answers[v] # <<>>
          /\ decision[v] = Head(answers[v])
      BY <2>2, GateConstants DEF GateInv, DecisionIsFirstAnswer
    <3>2. ConsentVerdict(v) = decision[v] /\ decision'[v] = decision[v]
      BY <1>11, <3>1 DEF ConsentVerdict, SaveFile
    <3>3. ConsentStatus(v)' = "saved" /\ ConsentPlace(v)' = ConsentVerdict(v)
      BY <2>2, <2>4, <3>2 DEF ConsentStatus, ConsentPlace
    <3>4. Consent!Save(v)
      BY <2>2, <3>1, <3>2, <3>3, ConsentMoves DEF Consent!Save
    <3> QED
      BY <3>4 DEF Consent!Next
  <2> QED
    BY <2>3, <2>4
<1>12. ASSUME NEW v \in Uploads, FailUpload(v) PROVE Goal
  <2>1. /\ Alone(v) /\ ConsentStatus(v) = "asked" /\ UNCHANGED setter
        /\ ConsentStatus(v)' = "refused" /\ ConsentPlace(v)' = ConsentPlace(v)
    BY <1>0, <1>12, ConsentControl DEF FailUpload, OpenStates, ConsentStatus, ConsentPlace
  <2> QED
    BY <1>3, <2>1
<1>13. ASSUME NEW v \in Uploads, DropSession(v) PROVE Goal
  <2>1. PICK s \in {"failing", "gone"} : Goto(v, s)
    BY <1>13 DEF DropSession
  <2>2. /\ Alone(v) /\ ConsentStatus(v) \in {"asked", "unconfirmed"} /\ UNCHANGED setter
        /\ ConsentStatus(v)' = ConsentStatus(v) \/ ConsentStatus(v)' = "refused"
        /\ ConsentPlace(v)' = ConsentPlace(v)
    BY <1>0, <1>13, <2>1, ConsentControl DEF DropSession, OpenStates, ConsentStatus, ConsentPlace
  <2> QED
    BY <1>2, <1>3, <2>2
<1>14. CASE InstallSetter
  <2>1. \A u \in Uploads : Seen(u)' = Seen(u)
    BY <1>14 DEF InstallSetter, Seen, ConsentStatus, ConsentVerdict, ConsentPlace
  <2>2. Consent!BecomeReady
    BY <1>14, <2>1 DEF InstallSetter, Seen, Consent!BecomeReady
  <2> QED
    BY <2>2 DEF Consent!Next
<1>15. CASE CancelDialog
  <2>1. /\ dialog \in Uploads /\ Reject \in Decisions /\ Say(dialog, Reject) /\ OnItsWay(dialog)
        /\ UNCHANGED <<pc, decision, setter>>
    BY <1>0, <1>15 DEF CancelDialog, DialogUp, Decisions, OnItsWay, TypeOK
  <2>2. [Consent!Answer(dialog)]_(Consent!vars)
    BY <2>1, ConsentSay
  <2> QED
    BY <2>1, <2>2 DEF Consent!Next
<1>16. CASE PickerDone
  <2>1. PICK d \in Decisions : Say(picker, d)
    BY <1>16 DEF PickerDone
  <2>2. picker \in Uploads /\ OnItsWay(picker) /\ UNCHANGED <<pc, decision, setter>>
    BY <1>0, <1>16 DEF PickerDone, OnItsWay, TypeOK
  <2>3. [Consent!Answer(picker)]_(Consent!vars)
    BY <2>1, <2>2, ConsentSay
  <2> QED
    BY <2>2, <2>3 DEF Consent!Next
<1>17. ASSUME \/ \E t \in Threads : ReadQueue(t) \/ PostQueue(t)
              \/ Render \/ Reply \/ Advance \/ AcceptDialog \/ UNCHANGED vars
       PROVE  Goal
  BY <1>1, <1>17 DEF ReadQueue, PostQueue, Render, Reply, Advance, AcceptDialog, vars
<1> QED
  BY <1>4, <1>5, <1>6, <1>7, <1>8, <1>9, <1>10, <1>11, <1>12, <1>13, <1>14, <1>15, <1>16, <1>17
     DEF Next, ServerStep, UIStep, UserStep, Threads

\* The gate implements the confirmation it promises: every behaviour of the
\* threads and queues is one UploadConsent allows.
THEOREM GateImplementsConsent == Spec => ImplementsConsent
<1>1. Init => Consent!Init
  BY InitConsent
<1>2. GateInv /\ [Next]_vars => [Consent!Next]_(Consent!vars)
  BY NextConsent
<1> QED
  BY <1>1, <1>2, GateInvariant, PTL DEF Spec, ImplementsConsent, Consent!Spec
=============================================================================
