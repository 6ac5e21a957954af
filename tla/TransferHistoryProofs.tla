------------------------ MODULE TransferHistoryProofs ------------------------
(* Proofs about TransferHistory, for any sends and names.                     *)
EXTENDS TransferHistory, SequenceTheorems, FiniteSetTheorems, TLAPS

\* An outcome under way is that of a send that has ended, and not shown yet.
Announced(post) ==
    post.value # Nothing =>
        /\ post.by \in Sends /\ pc[post.by] = "done"
        /\ post.value.name = NameOf[post.by]
        /\ post.value.ok => post.by \notin shown

Posted ==
    /\ \A i \in DOMAIN inbox : Announced(inbox[i])
    /\ \A i, j \in DOMAIN inbox :
          inbox[i].value # Nothing /\ inbox[j].value # Nothing /\ inbox[i].by = inbox[j].by =>
              i = j

\* Sends are shown once they have ended, and the success on screen is one of them.
Shown ==
    /\ IsFiniteSet(shown)
    /\ \A s \in shown : pc[s] = "done"
    /\ result.value # Nothing /\ result.value.ok =>
          result.by \in shown /\ NameOf[result.by] = result.value.name

OnDisk(n) == {s \in onDisk : NameOf[s] = n}

\* The file holds of its own deliveries what the history holds of the kept ones.
FileCounts == \A n \in Names : saved[Uploaded(n)] <= Cardinality(OnDisk(n))
FileRecords ==
    \A n \in Names :
        Delivered(n) # {} /\ OnDisk(n) = Delivered(n) => saved[Uploaded(n)] > 0

HistoryInv ==
    /\ TypeOK /\ Posted /\ Shown
    /\ NoPhantomUpload /\ FileCounts
    /\ SuccessRecorded /\ FileRecords
------------------------------------------------------------------------------
(* The queue of posts, and the rows of the history.                           *)

\* What is posted comes after everything that waits.
LEMMA AppendPost ==
    ASSUME NEW q \in Seq(Posts), NEW p \in Posts
    PROVE  /\ Append(q, p) \in Seq(Posts)
           /\ DOMAIN Append(q, p) = DOMAIN q \cup {Len(q) + 1}
           /\ Len(q) + 1 \notin DOMAIN q
           /\ Append(q, p)[Len(q) + 1] = p
           /\ \A i \in DOMAIN q : Append(q, p)[i] = q[i]
  OBVIOUS

\* The first post is taken, and the others move up.
LEMMA TakePost ==
    ASSUME NEW q \in Seq(Posts), q # <<>>
    PROVE  /\ Tail(q) \in Seq(Posts)
           /\ Head(q) \in Posts
           /\ 1 \in DOMAIN q /\ Head(q) = q[1]
           /\ \A i \in DOMAIN Tail(q) :
                 i \in Nat \ {0} /\ i + 1 \in DOMAIN q /\ Tail(q)[i] = q[i + 1]
  BY HeadTailProperties

\* An upload and a download of a name are different rows.
LEMMA Rows ==
    /\ \A n \in Names : Uploaded(n) \in TransferRecords /\ Downloaded(n) \in TransferRecords
    /\ \A m, n \in Names : Uploaded(m) # Downloaded(n)
    /\ \A m, n \in Names : Uploaded(m) = Uploaded(n) => m = n
    /\ \A r \in TransferRecords : r.name \in Names /\ r.direction \in Directions
    /\ \A r \in TransferRecords : r.direction = "Uploaded" <=> r = Uploaded(r.name)
  BY DEF Uploaded, Downloaded, TransferRecords, Directions

\* An outcome names a file, a dismissal none.
LEMMA Values ==
    ASSUME NEW p \in Posts
    PROVE  /\ p.value \in Outcomes \cup {Nothing} /\ p.by \in Sends \cup {Nothing}
           /\ p.value # Nothing => p.value.name \in Names /\ p.value.ok \in BOOLEAN
  BY DEF Posts, Outcomes

LEMMA HiddenPost == Hidden \in Posts /\ Hidden.value = Nothing
  BY DEF Hidden, Posts
------------------------------------------------------------------------------
(* Types *)

LEMMA RenderType ==
    ASSUME TypeOK, Posted, Render
    PROVE  TypeOK'
<1> DEFINE post == Head(inbox)
<1>1. /\ inbox \in Seq(Posts) /\ inbox # <<>> /\ inbox' = Tail(inbox)
  BY DEF TypeOK, Render
<1>2. /\ post \in Posts /\ inbox' \in Seq(Posts)
      /\ post.value # Nothing => post.by \in Sends
  BY <1>1, TakePost DEF Posted, Announced
<1>3. post.value # Nothing => Uploaded(post.value.name) \in TransferRecords
  <2>1. post.value # Nothing => post.value.name \in Names
    BY <1>2, Values
  <2> QED BY <2>1, Rows
<1>4. history' \in [TransferRecords -> Nat] /\ timers' \subseteq Sends /\ result' \in Posts
  BY <1>2, <1>3, HiddenPost DEF TypeOK, Render, Effect, Push
<1>5. shown' \subseteq Sends /\ shown \subseteq shown'
  BY <1>2 DEF TypeOK, Render
<1>6. dirty' \in BOOLEAN
  BY DEF TypeOK, Render
<1> QED BY <1>2, <1>4, <1>5, <1>6 DEF TypeOK, Render, file

\* Every step keeps the types: sends are shown before their record is removed
\* or on disk.
LEMMA TypeNext ==
    ASSUME TypeOK, Posted, Next
    PROVE  TypeOK'
<1> USE HistoryConstants
<1>1. ASSUME NEW s \in Sends, Send(s)
      PROVE  TypeOK'
  BY <1>1 DEF TypeOK, Send, file
<1>2. ASSUME NEW s \in Sends, SendEnds(s)
      PROVE  TypeOK'
  <2>1. PICK ok \in BOOLEAN :
            inbox' = Append(inbox, [value |-> [ok |-> ok, name |-> NameOf[s]], by |-> s])
    BY <1>2 DEF SendEnds
  <2>2. [value |-> [ok |-> ok, name |-> NameOf[s]], by |-> s] \in Posts
    BY DEF Posts, Outcomes
  <2>3. inbox' \in Seq(Posts)
    BY <2>1, <2>2, AppendPost DEF TypeOK
  <2> QED BY <1>2, <2>3 DEF TypeOK, SendEnds, file
<1>3. ASSUME NEW s \in Sends, Dismiss(s)
      PROVE  TypeOK'
  <2>1. [value |-> Nothing, by |-> s] \in Posts
    BY DEF Posts
  <2>2. inbox' \in Seq(Posts)
    BY <1>3, <2>1, AppendPost DEF TypeOK, Dismiss
  <2> QED BY <1>3, <2>2 DEF TypeOK, Dismiss, file
<1>4. CASE Render
  BY <1>4, RenderType
<1>5. ASSUME NEW n \in Names, MarkDownloaded(n)
      PROVE  TypeOK'
  BY <1>5, Rows DEF TypeOK, MarkDownloaded, Push, file
<1>6. ASSUME NEW r \in TransferRecords, RemoveRecord(r)
      PROVE  TypeOK'
  BY <1>6 DEF TypeOK, RemoveRecord, Forgotten, file
<1>7. CASE SaveBegins
  BY <1>7 DEF TypeOK, SaveBegins, NoRecords
<1>8. CASE SaveEnds
  BY <1>8 DEF TypeOK, SaveEnds
<1>9. CASE Restart
  <2>1. pc' \in [Sends -> {"idle", "sending", "done"}]
    BY <1>9 DEF TypeOK, Restart
  <2>2. inbox' \in Seq(Posts) /\ result' \in Posts
    BY <1>9, HiddenPost DEF Restart
  <2> QED BY <1>9, <2>1, <2>2 DEF TypeOK, Restart
<1> QED BY <1>1, <1>2, <1>3, <1>4, <1>5, <1>6, <1>7, <1>8, <1>9 DEF Next
------------------------------------------------------------------------------
(* Outcomes and deliveries *)

\* Every send posts one outcome, when it ends; rendered, it is shown.
LEMMA PostedNext ==
    ASSUME TypeOK, Posted, Shown, Next
    PROVE  Posted'
<1> USE DEF Posted, Announced
<1>1. ASSUME NEW s \in Sends, Send(s)
      PROVE  Posted'
  BY <1>1 DEF TypeOK, Send
<1>2. ASSUME NEW s \in Sends, SendEnds(s)
      PROVE  Posted'
  <2> DEFINE last == Len(inbox) + 1
  <2>1. PICK ok \in BOOLEAN :
            inbox' = Append(inbox, [value |-> [ok |-> ok, name |-> NameOf[s]], by |-> s])
    BY <1>2 DEF SendEnds
  <2>2. [value |-> [ok |-> ok, name |-> NameOf[s]], by |-> s] \in Posts
    BY HistoryConstants DEF Posts, Outcomes
  <2>3. /\ DOMAIN inbox' = DOMAIN inbox \cup {last}
        /\ inbox'[last] = [value |-> [ok |-> ok, name |-> NameOf[s]], by |-> s]
        /\ \A i \in DOMAIN inbox : inbox'[i] = inbox[i]
    BY <2>1, <2>2, AppendPost DEF TypeOK
  <2>4. pc[s] = "sending" /\ pc'[s] = "done" /\ \A t \in Sends : pc[t] = "done" => pc'[t] = "done"
    BY <1>2 DEF TypeOK, SendEnds
  <2>5. s \notin shown /\ shown' = shown
    BY <1>2, <2>4 DEF Shown, SendEnds
  <2>6. \A i \in DOMAIN inbox : inbox[i].value # Nothing => inbox[i].by # s
    BY <2>4
  <2>7. \A i \in DOMAIN inbox' : Announced(inbox[i])'
    BY <2>3, <2>4, <2>5
  <2> QED BY <2>3, <2>6, <2>7
<1>3. ASSUME NEW s \in Sends, Dismiss(s)
      PROVE  Posted'
  <2>1. [value |-> Nothing, by |-> s] \in Posts
    BY DEF Posts
  <2>2. /\ DOMAIN inbox' = DOMAIN inbox \cup {Len(inbox) + 1}
        /\ inbox'[Len(inbox) + 1].value = Nothing
        /\ \A i \in DOMAIN inbox : inbox'[i] = inbox[i]
    BY <1>3, <2>1, AppendPost DEF TypeOK, Dismiss
  <2> QED BY <1>3, <2>2 DEF Dismiss
<1>4. CASE Render
  <2>1. /\ Head(inbox) = inbox[1] /\ 1 \in DOMAIN inbox
        /\ \A i \in DOMAIN inbox' :
              i \in Nat \ {0} /\ i + 1 \in DOMAIN inbox /\ inbox'[i] = inbox[i + 1]
    BY <1>4, TakePost DEF TypeOK, Render
  <2>2. pc' = pc /\ \A s \in shown' \ shown : inbox[1].value # Nothing /\ s = inbox[1].by
    BY <1>4, <2>1 DEF Render
  <2>3. \A i \in DOMAIN inbox' : Announced(inbox[i])'
    BY <2>1, <2>2
  <2>4. \A i, j \in DOMAIN inbox' : i + 1 = j + 1 => i = j
    BY <2>1
  <2> QED BY <2>1, <2>3, <2>4
<1>5. ASSUME NEW n \in Names, MarkDownloaded(n)
      PROVE  Posted'
  BY <1>5 DEF MarkDownloaded
<1>6. ASSUME NEW r \in TransferRecords, RemoveRecord(r)
      PROVE  Posted'
  BY <1>6 DEF RemoveRecord
<1>7. CASE SaveBegins
  BY <1>7 DEF SaveBegins
<1>8. CASE SaveEnds
  BY <1>8 DEF SaveEnds
<1>9. CASE Restart
  BY <1>9 DEF Restart
<1> QED BY <1>1, <1>2, <1>3, <1>4, <1>5, <1>6, <1>7, <1>8, <1>9 DEF Next

\* What the render of an outcome does to the deliveries: a success adds the
\* send that posted it, which was neither shown nor removed before.
LEMMA Rendered ==
    ASSUME TypeOK, Posted, Shown, Render
    PROVE  \/ shown' = shown
           \/ /\ Head(inbox).value # Nothing /\ Head(inbox).value.ok
              /\ Head(inbox).by \in Sends \ shown
              /\ NameOf[Head(inbox).by] = Head(inbox).value.name
              /\ pc[Head(inbox).by] = "done"
              /\ shown' = shown \cup {Head(inbox).by}
<1>1. 1 \in DOMAIN inbox /\ Head(inbox) = inbox[1]
  BY TakePost DEF TypeOK, Render
<1> QED BY <1>1 DEF Posted, Announced, Render

LEMMA ShownNext ==
    ASSUME TypeOK, Posted, Shown, Next
    PROVE  Shown'
<1> USE DEF Shown
<1>1. ASSUME NEW s \in Sends, Send(s)
      PROVE  Shown'
  BY <1>1 DEF TypeOK, Send
<1>2. ASSUME NEW s \in Sends, SendEnds(s)
      PROVE  Shown'
  BY <1>2 DEF TypeOK, SendEnds
<1>3. ASSUME NEW s \in Sends, Dismiss(s)
      PROVE  Shown'
  BY <1>3 DEF Dismiss
<1>4. CASE Render
  <2>1. IsFiniteSet(shown')
    BY <1>4, Rendered, FS_AddElement
  <2>2. \A s \in shown' : pc'[s] = "done"
    BY <1>4, Rendered DEF Render
  <2>3. CASE Head(inbox).value = result.value \/ Head(inbox).value = Nothing
    BY <1>4, <2>1, <2>2, <2>3, HiddenPost DEF Render
  <2>4. CASE Head(inbox).value # result.value /\ Head(inbox).value # Nothing
    <3>1. result' = Head(inbox)
      BY <1>4, <2>4 DEF Render
    <3>2. Head(inbox).value.ok => Head(inbox).by \in shown'
      BY <1>4, <2>4 DEF Render
    <3>3. NameOf[Head(inbox).by] = Head(inbox).value.name
      BY <1>4, <2>4, TakePost DEF TypeOK, Render, Posted, Announced
    <3> QED BY <2>1, <2>2, <3>1, <3>2, <3>3
  <2> QED BY <2>3, <2>4
<1>5. ASSUME NEW n \in Names, MarkDownloaded(n)
      PROVE  Shown'
  BY <1>5 DEF MarkDownloaded
<1>6. ASSUME NEW r \in TransferRecords, RemoveRecord(r)
      PROVE  Shown'
  BY <1>6 DEF RemoveRecord
<1>7. CASE SaveBegins
  BY <1>7 DEF SaveBegins
<1>8. CASE SaveEnds
  BY <1>8 DEF SaveEnds
<1>9. CASE Restart
  BY <1>9, HiddenPost DEF TypeOK, Restart
<1> QED BY <1>1, <1>2, <1>3, <1>4, <1>5, <1>6, <1>7, <1>8, <1>9 DEF Next
------------------------------------------------------------------------------
(* Rows and deliveries *)

\* The deliveries of a file are finitely many, whichever are left.
LEMMA KeptFinite ==
    ASSUME IsFiniteSet(shown), NEW n \in Names
    PROVE  IsFiniteSet(Kept(n)) /\ Cardinality(Kept(n)) \in Nat
<1>1. Kept(n) \subseteq shown
  BY DEF Kept, Delivered
<1> QED BY <1>1, FS_Subset, FS_CardinalityType

\* What a render adds to the rows and to the kept deliveries of a file: a row
\* comes with a delivery; a delivery without a row finds its value on screen.
LEMMA RenderAdds ==
    ASSUME TypeOK, Posted, Shown, Render, NEW n \in Names
    PROVE  \/ /\ history'[Uploaded(n)] = history[Uploaded(n)]
              /\ Delivered(n)' = Delivered(n) /\ Kept(n)' = Kept(n)
           \/ \E s \in Sends \ shown :
                 /\ NameOf[s] = n
                 /\ Delivered(n)' = Delivered(n) \cup {s} /\ Kept(n)' = Kept(n) \cup {s}
                 /\ \/ history'[Uploaded(n)] = history[Uploaded(n)] + 1
                    \/ /\ history'[Uploaded(n)] = history[Uploaded(n)]
                       /\ result.by \in Delivered(n)
<1> DEFINE post == Head(inbox)
<1>1. /\ post \in Posts
      /\ post.value # Nothing => /\ post.by \in Sends \ shown \/ ~post.value.ok
                                 /\ NameOf[post.by] = post.value.name
                                 /\ post.value.name \in Names
  <2>1. post \in Posts /\ post = inbox[1] /\ 1 \in DOMAIN inbox
    BY TakePost DEF TypeOK, Render
  <2>2. post.value # Nothing => post.value.name \in Names
    BY <2>1, Values
  <2> QED BY <2>1, <2>2 DEF Posted, Announced
<1>2. removed' = removed /\ removed \subseteq shown
  BY DEF Render, TypeOK
<1>3. CASE post.value = Nothing \/ ~post.value.ok
  <2>1. shown' = shown /\ history' = history
    BY <1>3 DEF Render, Effect
  <2> QED BY <2>1, <1>2 DEF Delivered, Kept
<1>4. CASE post.value # Nothing /\ post.value.ok
  <2> DEFINE name == post.value.name
  <2>1. /\ shown' = shown \cup {post.by} /\ post.by \in Sends \ shown
        /\ NameOf[post.by] = name /\ name \in Names
    BY <1>1, <1>4 DEF Render
  <2>2. CASE name # n
    <3>1. Delivered(n)' = Delivered(n)
      BY <2>1, <2>2 DEF Delivered
    <3>2. Kept(n)' = Kept(n)
      BY <1>2, <3>1 DEF Kept
    <3>3. history' = history \/ history' = [history EXCEPT ![Uploaded(name)] = @ + 1]
      BY DEF Render, Effect, Push
    <3>4. Uploaded(n) \in TransferRecords /\ Uploaded(name) # Uploaded(n)
      BY <2>1, <2>2, Rows
    <3>5. history'[Uploaded(n)] = history[Uploaded(n)]
      BY <3>3, <3>4 DEF TypeOK
    <3> QED BY <3>1, <3>2, <3>5
  <2>3. CASE name = n
    <3>1. Delivered(n)' = Delivered(n) \cup {post.by}
      BY <2>1, <2>3 DEF Delivered
    <3>2. Kept(n)' = Kept(n) \cup {post.by}
      BY <1>2, <2>1, <3>1 DEF Kept
    <3>3. CASE post.value = result.value
      <4>1. history' = history
        BY <3>3 DEF Render
      <4>2. result.by \in shown /\ NameOf[result.by] = n
        BY <1>4, <2>3, <3>3 DEF Shown
      <4> QED BY <2>1, <2>3, <3>1, <3>2, <4>1, <4>2 DEF Delivered
    <3>4. CASE post.value # result.value
      <4>1. history' = [history EXCEPT ![Uploaded(n)] = @ + 1]
        BY <1>4, <2>3, <3>4 DEF Render, Effect, Push
      <4>2. history'[Uploaded(n)] = history[Uploaded(n)] + 1
        BY <4>1, Rows DEF TypeOK
      <4> QED BY <2>1, <2>3, <3>1, <3>2, <4>2
    <3> QED BY <3>3, <3>4
  <2> QED BY <2>2, <2>3
<1> QED BY <1>3, <1>4

\* The delete button: the rows and the kept deliveries of one file go together.
LEMMA RemoveTakes ==
    ASSUME TypeOK, NEW r \in TransferRecords, RemoveRecord(r), NEW n \in Names
    PROVE  /\ shown' = shown
           /\ r = Uploaded(n) => history'[Uploaded(n)] = 0 /\ Kept(n)' = {}
           /\ r # Uploaded(n) => /\ history'[Uploaded(n)] = history[Uploaded(n)]
                                 /\ Kept(n)' = Kept(n)
<1>1. /\ shown' = shown /\ removed' = removed \cup Forgotten(r)
      /\ history' = [history EXCEPT ![r] = 0]
  BY DEF RemoveRecord
<1>2. Uploaded(n) \in TransferRecords
  BY Rows
<1>3. CASE r = Uploaded(n)
  <2>1. Forgotten(r) = Delivered(n)
    BY <1>3 DEF Forgotten, Delivered, Uploaded
  <2>2. Kept(n)' = {}
    BY <1>1, <2>1 DEF Kept, Delivered
  <2> QED BY <1>1, <1>2, <1>3, <2>2 DEF TypeOK
<1>4. CASE r # Uploaded(n)
  <2>1. r.direction = "Uploaded" => r.name # n
    BY <1>4, Rows
  <2>2. Forgotten(r) \cap Delivered(n) = {}
    BY <2>1 DEF Forgotten, Delivered
  <2>3. Kept(n)' = Kept(n)
    BY <1>1, <2>2 DEF Kept, Delivered
  <2> QED BY <1>1, <1>2, <1>4, <2>3 DEF TypeOK
<1> QED BY <1>3, <1>4

\* After a restart the kept deliveries are those the file held.
LEMMA RestartKeeps ==
    ASSUME TypeOK, Restart, NEW n \in Names
    PROVE  history' = saved /\ Delivered(n)' = Delivered(n) /\ Kept(n)' = OnDisk(n)
<1>1. shown' = shown /\ removed' = shown \ onDisk /\ onDisk \subseteq shown
  BY DEF TypeOK, Restart
<1> QED BY <1>1 DEF Restart, Delivered, Kept, OnDisk

\* The file is rewritten from the history.
LEMMA SaveWrites ==
    ASSUME SaveEnds, NEW n \in Names
    PROVE  saved' = history /\ Delivered(n)' = Delivered(n) /\ OnDisk(n)' = Kept(n)
<1>1. saved' = history /\ shown' = shown /\ onDisk' = shown \ removed
  BY DEF SaveEnds
<1> QED BY <1>1 DEF Delivered, Kept, OnDisk

\* No row without a delivery.
LEMMA PhantomNext ==
    ASSUME TypeOK, Posted, Shown, NoPhantomUpload, FileCounts, Next
    PROVE  NoPhantomUpload'
<1> SUFFICES ASSUME NEW n \in Names
             PROVE  history'[Uploaded(n)] <= Cardinality(Kept(n)')
  BY DEF NoPhantomUpload, Kept, Delivered
<1> USE DEF NoPhantomUpload
<1>0. /\ Uploaded(n) \in TransferRecords /\ history[Uploaded(n)] \in Nat
      /\ IsFiniteSet(Kept(n)) /\ Cardinality(Kept(n)) \in Nat
  BY Rows, KeptFinite DEF TypeOK, Shown
<1>a. ASSUME UNCHANGED <<history, shown, removed>>
      PROVE  history'[Uploaded(n)] <= Cardinality(Kept(n)')
  BY <1>a DEF Kept, Delivered
<1>1. ASSUME NEW s \in Sends, Send(s)
      PROVE  history'[Uploaded(n)] <= Cardinality(Kept(n)')
  BY <1>1, <1>a DEF Send
<1>2. ASSUME NEW s \in Sends, SendEnds(s)
      PROVE  history'[Uploaded(n)] <= Cardinality(Kept(n)')
  BY <1>2, <1>a DEF SendEnds
<1>3. ASSUME NEW s \in Sends, Dismiss(s)
      PROVE  history'[Uploaded(n)] <= Cardinality(Kept(n)')
  BY <1>3, <1>a DEF Dismiss
<1>4. CASE Render
  <2>1. CASE history'[Uploaded(n)] = history[Uploaded(n)] /\ Kept(n)' = Kept(n)
    BY <2>1
  <2>2. ASSUME NEW s \in Sends \ shown, Kept(n)' = Kept(n) \cup {s},
               history'[Uploaded(n)] \in {history[Uploaded(n)], history[Uploaded(n)] + 1}
        PROVE  history'[Uploaded(n)] <= Cardinality(Kept(n)')
    <3>1. s \notin Kept(n)
      BY DEF Kept, Delivered
    <3>2. Cardinality(Kept(n)') = Cardinality(Kept(n)) + 1
      BY <1>0, <2>2, <3>1, FS_AddElement
    <3>3. history[Uploaded(n)] <= Cardinality(Kept(n))
      OBVIOUS
    <3> QED BY <1>0, <2>2, <3>2, <3>3
  <2> QED BY <1>4, <2>1, <2>2, RenderAdds
<1>5. ASSUME NEW m \in Names, MarkDownloaded(m)
      PROVE  history'[Uploaded(n)] <= Cardinality(Kept(n)')
  <2>1. history'[Uploaded(n)] = history[Uploaded(n)]
    BY <1>5, <1>0, Rows DEF TypeOK, MarkDownloaded, Push
  <2>2. Kept(n)' = Kept(n)
    BY <1>5 DEF MarkDownloaded, Kept, Delivered
  <2> QED BY <2>1, <2>2
<1>6. ASSUME NEW r \in TransferRecords, RemoveRecord(r)
      PROVE  history'[Uploaded(n)] <= Cardinality(Kept(n)')
  BY <1>6, RemoveTakes, FS_EmptySet
<1>7. CASE SaveBegins
  BY <1>7, <1>a DEF SaveBegins
<1>8. CASE SaveEnds
  BY <1>8, <1>a DEF SaveEnds
<1>9. CASE Restart
  BY <1>9, RestartKeeps DEF FileCounts
<1> QED BY <1>1, <1>2, <1>3, <1>4, <1>5, <1>6, <1>7, <1>8, <1>9 DEF Next

\* No delivery without a row, unless the user or the end of the app took it.
LEMMA RecordedNext ==
    ASSUME TypeOK, Posted, Shown, SuccessRecorded, FileRecords, Next
    PROVE  SuccessRecorded'
<1> SUFFICES ASSUME NEW n \in Names, Delivered(n)' # {}, Kept(n)' = Delivered(n)'
             PROVE  history'[Uploaded(n)] > 0
  BY DEF SuccessRecorded, Kept, Delivered
<1> USE DEF SuccessRecorded
<1>0. Uploaded(n) \in TransferRecords /\ history[Uploaded(n)] \in Nat
  BY Rows DEF TypeOK
<1>a. ASSUME UNCHANGED <<history, shown, removed>>
      PROVE  history'[Uploaded(n)] > 0
  BY <1>a DEF Kept, Delivered
<1>1. ASSUME NEW s \in Sends, Send(s)
      PROVE  history'[Uploaded(n)] > 0
  BY <1>1, <1>a DEF Send
<1>2. ASSUME NEW s \in Sends, SendEnds(s)
      PROVE  history'[Uploaded(n)] > 0
  BY <1>2, <1>a DEF SendEnds
<1>3. ASSUME NEW s \in Sends, Dismiss(s)
      PROVE  history'[Uploaded(n)] > 0
  BY <1>3, <1>a DEF Dismiss
<1>4. CASE Render
  <2>1. CASE /\ history'[Uploaded(n)] = history[Uploaded(n)]
             /\ Delivered(n)' = Delivered(n) /\ Kept(n)' = Kept(n)
    BY <2>1
  <2>2. CASE history'[Uploaded(n)] = history[Uploaded(n)] + 1
    BY <1>0, <2>2
  <2>3. ASSUME NEW s \in Sends \ shown, result.by \in Delivered(n),
               Delivered(n)' = Delivered(n) \cup {s}, Kept(n)' = Kept(n) \cup {s},
               history'[Uploaded(n)] = history[Uploaded(n)]
        PROVE  history'[Uploaded(n)] > 0
    <3>1. s \notin Delivered(n) /\ s \notin Kept(n)
      BY DEF Kept, Delivered
    <3>2. Kept(n) = Delivered(n)
      BY <2>3, <3>1
    <3> QED BY <2>3, <3>2
  <2> QED BY <1>4, <2>1, <2>2, <2>3, RenderAdds
<1>5. ASSUME NEW m \in Names, MarkDownloaded(m)
      PROVE  history'[Uploaded(n)] > 0
  <2>1. history'[Uploaded(n)] = history[Uploaded(n)]
    BY <1>5, <1>0, Rows DEF TypeOK, MarkDownloaded, Push
  <2>2. Kept(n)' = Kept(n) /\ Delivered(n)' = Delivered(n)
    BY <1>5 DEF MarkDownloaded, Kept, Delivered
  <2> QED BY <2>1, <2>2
<1>6. ASSUME NEW r \in TransferRecords, RemoveRecord(r)
      PROVE  history'[Uploaded(n)] > 0
  <2>1. r # Uploaded(n)
    BY <1>6, RemoveTakes
  <2>2. Delivered(n)' = Delivered(n)
    BY <1>6 DEF RemoveRecord, Delivered
  <2> QED BY <1>6, <2>1, <2>2, RemoveTakes
<1>7. CASE SaveBegins
  BY <1>7, <1>a DEF SaveBegins
<1>8. CASE SaveEnds
  BY <1>8, <1>a DEF SaveEnds
<1>9. CASE Restart
  <2>1. history' = saved /\ Delivered(n)' = Delivered(n) /\ Kept(n)' = OnDisk(n)
    BY <1>9, RestartKeeps
  <2> QED BY <2>1 DEF FileRecords
<1> QED BY <1>1, <1>2, <1>3, <1>4, <1>5, <1>6, <1>7, <1>8, <1>9 DEF Next

\* The file: emptied, it holds no row and no delivery; written, it holds what
\* the history holds.
LEMMA FileNext ==
    ASSUME TypeOK, Posted, Shown, NoPhantomUpload, SuccessRecorded, FileCounts, FileRecords,
           Next
    PROVE  FileCounts' /\ FileRecords'
<1> SUFFICES ASSUME NEW n \in Names
             PROVE  /\ saved'[Uploaded(n)] <= Cardinality(OnDisk(n)')
                    /\ Delivered(n)' # {} /\ OnDisk(n)' = Delivered(n)' =>
                          saved'[Uploaded(n)] > 0
  BY DEF FileCounts, FileRecords, OnDisk, Delivered
<1>0. Uploaded(n) \in TransferRecords
  BY Rows
<1>a. ASSUME UNCHANGED <<saved, onDisk>>,
             \/ Delivered(n)' = Delivered(n)
             \/ \E s \in Sends \ shown : Delivered(n)' = Delivered(n) \cup {s}
      PROVE  /\ saved'[Uploaded(n)] <= Cardinality(OnDisk(n)')
             /\ Delivered(n)' # {} /\ OnDisk(n)' = Delivered(n)' => saved'[Uploaded(n)] > 0
  <2>1. saved' = saved /\ OnDisk(n)' = OnDisk(n) /\ OnDisk(n) \subseteq shown
    BY <1>a DEF OnDisk, TypeOK
  <2>2. OnDisk(n)' = Delivered(n)' => Delivered(n)' = Delivered(n)
    BY <1>a, <2>1
  <2> QED BY <2>1, <2>2 DEF FileCounts, FileRecords
<1>b. shown' = shown => Delivered(n)' = Delivered(n)
  BY DEF Delivered
<1>1. ASSUME NEW s \in Sends, Send(s) \/ SendEnds(s) \/ Dismiss(s)
      PROVE  UNCHANGED <<saved, onDisk>> /\ Delivered(n)' = Delivered(n)
  BY <1>1, <1>b DEF Send, SendEnds, Dismiss, file
<1>2. CASE Render
  <2>1. UNCHANGED <<saved, onDisk>>
    BY <1>2 DEF Render, file
  <2> QED BY <1>2, <1>a, <2>1, RenderAdds
<1>3. ASSUME NEW m \in Names, MarkDownloaded(m)
      PROVE  UNCHANGED <<saved, onDisk>> /\ Delivered(n)' = Delivered(n)
  BY <1>3, <1>b DEF MarkDownloaded, file
<1>4. ASSUME NEW r \in TransferRecords, RemoveRecord(r)
      PROVE  UNCHANGED <<saved, onDisk>> /\ Delivered(n)' = Delivered(n)
  BY <1>4, <1>b DEF RemoveRecord, file
<1>5. CASE SaveBegins
  <2>1. saved'[Uploaded(n)] = 0 /\ OnDisk(n)' = {}
    BY <1>0, <1>5 DEF SaveBegins, NoRecords, OnDisk
  <2> QED BY <2>1, FS_EmptySet
<1>6. CASE SaveEnds
  <2>1. saved' = history /\ Delivered(n)' = Delivered(n) /\ OnDisk(n)' = Kept(n)
    BY <1>6, SaveWrites
  <2>2. history[Uploaded(n)] <= Cardinality(Kept(n))
    BY DEF NoPhantomUpload
  <2>3. Delivered(n) # {} /\ Kept(n) = Delivered(n) => history[Uploaded(n)] > 0
    BY DEF SuccessRecorded
  <2> QED BY <2>1, <2>2, <2>3
<1>7. CASE Restart
  BY <1>7, <1>a, <1>b DEF Restart
<1> QED BY <1>a, <1>1, <1>2, <1>3, <1>4, <1>5, <1>6, <1>7 DEF Next
------------------------------------------------------------------------------
LEMMA HistoryNext == HistoryInv /\ [Next]_vars => HistoryInv'
<1>1. HistoryInv /\ Next => HistoryInv'
  BY TypeNext, PostedNext, ShownNext, PhantomNext, RecordedNext, FileNext DEF HistoryInv
<1>2. ASSUME HistoryInv, UNCHANGED vars
      PROVE  HistoryInv'
  <2> USE <1>2 DEF vars, HistoryInv
  <2>1. TypeOK' /\ Posted' /\ Shown'
    BY DEF TypeOK, Posted, Announced, Shown
  <2>2. \A n \in Names :
            Delivered(n)' = Delivered(n) /\ Kept(n)' = Kept(n) /\ OnDisk(n)' = OnDisk(n)
    BY DEF Delivered, Kept, OnDisk
  <2>3. NoPhantomUpload' /\ FileCounts'
    BY <2>2 DEF NoPhantomUpload, FileCounts
  <2>4. SuccessRecorded' /\ FileRecords'
    BY <2>2 DEF SuccessRecorded, FileRecords
  <2> QED BY <2>1, <2>3, <2>4
<1> QED BY <1>1, <1>2

LEMMA HistoryInit == Init => HistoryInv
<1> SUFFICES ASSUME Init PROVE HistoryInv
  OBVIOUS
<1>1. inbox \in Seq(Posts) /\ DOMAIN inbox = {}
  BY DEF Init
<1>2. NoRecords \in [TransferRecords -> Nat]
  BY DEF NoRecords
<1>3. TypeOK /\ Posted
  BY <1>1, <1>2, HiddenPost DEF Init, TypeOK, Posted
<1>4. Shown
  BY HiddenPost, FS_EmptySet DEF Init, Shown
<1>5. \A n \in Names : Delivered(n) = {} /\ Kept(n) = {} /\ OnDisk(n) = {}
  BY DEF Init, Delivered, Kept, OnDisk
<1>6. \A n \in Names : history[Uploaded(n)] = 0 /\ saved[Uploaded(n)] = 0
  BY Rows DEF Init, NoRecords
<1>7. NoPhantomUpload /\ FileCounts
  BY <1>5, <1>6, FS_EmptySet DEF NoPhantomUpload, FileCounts
<1>8. SuccessRecorded /\ FileRecords
  BY <1>5 DEF SuccessRecorded, FileRecords
<1> QED BY <1>3, <1>4, <1>7, <1>8 DEF HistoryInv

LEMMA HistoryInvariant == Spec => []HistoryInv
  BY HistoryInit, HistoryNext, PTL DEF Spec

\* For any sends and names: every record the user removed, or that history.txt
\* holds, is of a send whose success was shown (main.rs, save_history).
THEOREM HistoryTypeInvariant == Spec => []TypeOK
<1>1. HistoryInv => TypeOK
  BY DEF HistoryInv
<1> QED BY <1>1, HistoryInvariant, PTL

\* For any sends and names: the history never holds more uploads of a file than
\* were delivered and not removed (MarkUploaded, load_history).
THEOREM NoPhantomInvariant == Spec => []NoPhantomUpload
<1>1. HistoryInv => NoPhantomUpload
  BY DEF HistoryInv
<1> QED BY <1>1, HistoryInvariant, PTL

\* For any sends and names: a delivered file has a record until the user
\* deletes it or the app ends before it is written.
THEOREM RecordedInvariant == Spec => []SuccessRecorded
<1>1. HistoryInv => SuccessRecorded
  BY DEF HistoryInv
<1> QED BY <1>1, HistoryInvariant, PTL
==============================================================================
