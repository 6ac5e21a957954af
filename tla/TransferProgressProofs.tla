----------------------- MODULE TransferProgressProofs -----------------------
(* Proofs about TransferProgress, for any transfers, names and lengths.       *)
EXTENDS TransferProgress, TLAPS

\* Of two transfers of a name that are busy at once, both have met.
HaveMet ==
    \A t, o \in Transfers :
        t # o /\ NameOf[t] = NameOf[o] /\ pc[t] \in Busy /\ pc[o] \in Busy =>
            t \in met /\ o \in met

\* Facts about one transfer.
Steady ==
    \A t \in Transfers :
        /\ pc[t] = "idle" => sent[t] = 0 /\ t \notin requested /\ t \notin met
        /\ pc[t] = "writing" /\ t \in Senders => sent[t] < Chunks
        /\ pc[t] = "lost" => t \notin Senders

\* A flag that meets a running transfer was meant for it, for one it shares its
\* name with, or for one that left its row behind.
FlagHasReason ==
    \A t \in Transfers :
        NameOf[t] \in cancel /\ pc[t] \in Active => t \in requested \cup met \/ Left(NameOf[t])

ProgressInv ==
    /\ TypeOK /\ HaveMet /\ Steady
    /\ FlagsHaveTransfers /\ FlagHasReason
    /\ RowsAreRunning /\ CancelledStaysHidden /\ RunningIsListed

\* The actions of a step, one by one.
LEMMA StepCases ==
    ASSUME [Next]_vars
    PROVE  \/ \E t \in Transfers :
                 \/ Start(t) \/ NotCancelled(t) \/ SenderCancelled(t) \/ ReceiverCancelled(t)
                 \/ Chunk(t) \/ WriteFails(t) \/ Finish(t) \/ LoseConnection(t)
                 \/ FinishRow(t) \/ FinishFlag(t)
           \/ \E n \in Names : RequestCancel(n)
           \/ \E t \in Threads : ReadRows(t) \/ PostRows(t)
           \/ UNCHANGED vars
BY DEF Next, TransferStep, Cancelled

\* Writing a row keeps the rows well typed, one for every name.
LEMMA InsertTyped ==
    ASSUME TypeOK, NEW n \in Names, NEW up \in BOOLEAN, NEW done \in 0..Chunks,
           Insert(n, up, done)
    PROVE  /\ current' \in SUBSET Rows
           /\ \A r, s \in current' : r.name = s.name => r = s
           /\ [name |-> n, upload |-> up, done |-> done] \in current'
           /\ \A r \in Rows : r.name # n => (r \in current' <=> r \in current)
<1> DEFINE new == [name |-> n, upload |-> up, done |-> done]
<1>1. new \in Rows /\ new.name = n
  BY DEF Rows
<1>2. current' = {r \in current : r.name # n} \cup {new}
  BY DEF Insert, Without
<1> HIDE DEF new
<1>3. current \in SUBSET Rows /\ \A r, s \in current : r.name = s.name => r = s
  BY DEF TypeOK
<1>4. /\ current' \in SUBSET Rows
      /\ \A r, s \in current' : r.name = s.name => r = s
      /\ new \in current'
      /\ \A r \in Rows : r.name # n => (r \in current' <=> r \in current)
  BY ONLY <1>1, <1>2, <1>3
<1> QED BY <1>4 DEF new

\* An update keeps the direction of the row and lists nothing that was not.
LEMMA UpdateTyped ==
    ASSUME TypeOK, NEW t \in Transfers, NEW done \in 0..Chunks, Update(t, done)
    PROVE  /\ current' \in SUBSET Rows
           /\ \A r, s \in current' : r.name = s.name => r = s
           /\ \A r \in Rows : r.name # NameOf[t] => (r \in current' <=> r \in current)
           /\ \A r \in current : r.name = NameOf[t] =>
                 [name |-> r.name, upload |-> r.upload, done |-> done] \in current'
           /\ \A r \in current' : \E s \in current : s.name = r.name /\ s.upload = r.upload
<1>0. current \in SUBSET Rows /\ \A r, s \in current : r.name = s.name => r = s
  BY DEF TypeOK
<1>1. CASE ~Listed(NameOf[t])
  BY <1>0, <1>1 DEF Update, Listed
<1>2. CASE Listed(NameOf[t])
  <2>1. PICK r \in current : r.name = NameOf[t] /\ Insert(r.name, r.upload, done)
    BY <1>2 DEF Update
  <2>2. r.name \in Names /\ r.upload \in BOOLEAN /\ r \in Rows
    BY <1>0 DEF Rows
  <2> DEFINE new == [name |-> r.name, upload |-> r.upload, done |-> done]
  <2>3. /\ current' \in SUBSET Rows
        /\ \A a, b \in current' : a.name = b.name => a = b
        /\ new \in current'
        /\ \A a \in Rows : a.name # r.name => (a \in current' <=> a \in current)
    BY <2>1, <2>2, InsertTyped
  <2>4. \A a \in current : a.name = NameOf[t] => a = r
    BY <1>0, <2>1
  <2>5. new.name = r.name /\ new.upload = r.upload
    OBVIOUS
  <2>6. ASSUME NEW a \in current'
        PROVE  \E s \in current : s.name = a.name /\ s.upload = a.upload
    <3>1. CASE a.name = r.name
      <4>1. a = new
        BY <2>3, <2>5, <3>1
      <4> QED BY <2>5, <4>1
    <3>2. CASE a.name # r.name
      BY <2>3, <3>2
    <3> QED BY <3>1, <3>2
  <2> QED BY <2>1, <2>3, <2>4, <2>6
<1> QED BY <1>1, <1>2

\* A transfer that starts is listed, with nothing done; no other row changes.
LEMMA StartTyped ==
    ASSUME TypeOK, NEW t \in Transfers, Start(t)
    PROVE  /\ current' \in SUBSET Rows
           /\ \A r, s \in current' : r.name = s.name => r = s
           /\ [name |-> NameOf[t], upload |-> t \in Senders, done |-> 0] \in current'
           /\ \A r \in Rows : r.name # NameOf[t] => (r \in current' <=> r \in current)
<1>1. NameOf[t] \in Names /\ 0 \in 0..Chunks
  BY ProgressConstants
<1>2. Insert(NameOf[t], t \in Senders, 0)
  BY DEF Start
<1>3. ASSUME NEW up \in BOOLEAN, up = (t \in Senders)
      PROVE  /\ current' \in SUBSET Rows
             /\ \A r, s \in current' : r.name = s.name => r = s
             /\ [name |-> NameOf[t], upload |-> up, done |-> 0] \in current'
             /\ \A r \in Rows : r.name # NameOf[t] => (r \in current' <=> r \in current)
  <2>1. Insert(NameOf[t], up, 0)
    BY ONLY <1>2, <1>3
  <2> QED BY <1>1, <2>1, InsertTyped
<1>4. CASE t \in Senders
  <2>1. (t \in Senders) = TRUE
    BY <1>4
  <2>2. TRUE = (t \in Senders)
    BY <2>1
  <2> QED BY <1>3, <2>1, <2>2
<1>5. CASE t \notin Senders
  <2>1. (t \in Senders) = FALSE
    BY <1>5
  <2>2. FALSE = (t \in Senders)
    BY <2>1
  <2> QED BY <1>3, <2>1, <2>2
<1> QED BY <1>4, <1>5

\* A chunk raises the count to no more than the length of the file.
LEMMA ChunkTyped ==
    ASSUME TypeOK, Steady, NEW t \in Transfers, Chunk(t)
    PROVE  \E done \in 0..Chunks : sent' = [sent EXCEPT ![t] = done] /\ Update(t, done)
<1>1. PICK end \in IF t \in Senders THEN {sent[t] + 1} ELSE 1..Chunks :
          /\ sent' = [sent EXCEPT ![t] = IF end > sent[t] THEN end ELSE sent[t]]
          /\ Update(t, IF end > sent[t] THEN end ELSE sent[t])
  BY DEF Chunk
<1> DEFINE done == IF end > sent[t] THEN end ELSE sent[t]
<1>2. sent[t] \in 0..Chunks /\ Chunks \in Nat /\ (t \in Senders => sent[t] < Chunks)
  BY ProgressConstants DEF Chunk, Steady, TypeOK
<1>3. done \in 0..Chunks
  BY ONLY <1>1, <1>2
<1>4. sent' = [sent EXCEPT ![t] = done] /\ Update(t, done)
  BY <1>1
<1> HIDE DEF done
<1> QED BY <1>3, <1>4

\* Type correctness, for any interleaving.
LEMMA TypeNext ==
    ASSUME TypeOK, Steady, [Next]_vars
    PROVE  TypeOK'
<1> USE ProgressConstants DEF Threads, Receivers, Active, Ended, Busy, TypeOK, Goto, Free
<1>1. ASSUME NEW t \in Transfers, Start(t)
      PROVE  TypeOK'
  <2>1. current' \in SUBSET Rows /\ \A r, s \in current' : r.name = s.name => r = s
    BY <1>1, StartTyped
  <2> QED BY <1>1, <2>1 DEF Start, PushBegins, Others, SameName
<1>2. ASSUME NEW t \in Transfers, NotCancelled(t)
      PROVE  TypeOK'
  BY <1>2 DEF NotCancelled
<1>3. ASSUME NEW t \in Transfers, SenderCancelled(t)
      PROVE  TypeOK'
  BY <1>3 DEF SenderCancelled
<1>4. ASSUME NEW t \in Transfers, ReceiverCancelled(t)
      PROVE  TypeOK'
  BY <1>4 DEF ReceiverCancelled
<1>5. ASSUME NEW t \in Transfers, Chunk(t)
      PROVE  TypeOK'
  <2>1. PICK done \in 0..Chunks : sent' = [sent EXCEPT ![t] = done] /\ Update(t, done)
    BY <1>5, ChunkTyped
  <2>2. current' \in SUBSET Rows /\ \A r, s \in current' : r.name = s.name => r = s
    BY <2>1, UpdateTyped
  <2> QED BY <1>5, <2>1, <2>2 DEF Chunk, PushBegins
<1>6. ASSUME NEW t \in Transfers, WriteFails(t)
      PROVE  TypeOK'
  BY <1>6 DEF WriteFails
<1>7. ASSUME NEW t \in Transfers, Finish(t)
      PROVE  TypeOK'
  BY <1>7 DEF Finish
<1>8. ASSUME NEW t \in Transfers, LoseConnection(t)
      PROVE  TypeOK'
  BY <1>8 DEF LoseConnection
<1>9. ASSUME NEW t \in Transfers, FinishRow(t)
      PROVE  TypeOK'
  BY <1>9 DEF FinishRow, Without
<1>10. ASSUME NEW t \in Transfers, FinishFlag(t)
      PROVE  TypeOK'
  BY <1>10 DEF FinishFlag, PushBegins
<1>11. ASSUME NEW n \in Names, RequestCancel(n)
      PROVE  TypeOK'
  BY <1>11 DEF RequestCancel, Without, Running, PushBegins
<1>12. ASSUME NEW t \in Threads, ReadRows(t) \/ PostRows(t)
      PROVE  TypeOK'
  BY <1>12 DEF ReadRows, PostRows
<1>13. CASE UNCHANGED vars
  BY <1>13 DEF vars
<1> QED BY <1>1, <1>2, <1>3, <1>4, <1>5, <1>6, <1>7, <1>8, <1>9, <1>10, <1>11, <1>12,
           <1>13, StepCases

\* A transfer that finds another of its name busy has met it, and no transfer is
\* resumed.
LEMMA HaveMetNext ==
    ASSUME TypeOK, HaveMet, [Next]_vars
    PROVE  HaveMet'
<1> USE ProgressConstants DEF Threads, Receivers, Active, Ended, Busy, TypeOK, Goto, Free, HaveMet
<1>1. ASSUME NEW t \in Transfers, Start(t)
      PROVE  HaveMet'
  <2>1. \A o \in Transfers \ {t} :
            NameOf[o] = NameOf[t] /\ pc'[o] \in Busy => t \in met' /\ o \in met'
    BY <1>1 DEF Start, Others, SameName
  <2> QED BY <1>1, <2>1 DEF Start
<1>2. ASSUME NEW t \in Transfers, NotCancelled(t)
      PROVE  HaveMet'
  BY <1>2 DEF NotCancelled
<1>3. ASSUME NEW t \in Transfers, SenderCancelled(t)
      PROVE  HaveMet'
  BY <1>3 DEF SenderCancelled
<1>4. ASSUME NEW t \in Transfers, ReceiverCancelled(t)
      PROVE  HaveMet'
  BY <1>4 DEF ReceiverCancelled
<1>5. ASSUME NEW t \in Transfers, Chunk(t)
      PROVE  HaveMet'
  BY <1>5 DEF Chunk
<1>6. ASSUME NEW t \in Transfers, WriteFails(t)
      PROVE  HaveMet'
  BY <1>6 DEF WriteFails
<1>7. ASSUME NEW t \in Transfers, Finish(t)
      PROVE  HaveMet'
  BY <1>7 DEF Finish
<1>8. ASSUME NEW t \in Transfers, LoseConnection(t)
      PROVE  HaveMet'
  BY <1>8 DEF LoseConnection
<1>9. ASSUME NEW t \in Transfers, FinishRow(t)
      PROVE  HaveMet'
  BY <1>9 DEF FinishRow
<1>10. ASSUME NEW t \in Transfers, FinishFlag(t)
      PROVE  HaveMet'
  BY <1>10 DEF FinishFlag
<1>11. ASSUME NEW n \in Names, RequestCancel(n)
      PROVE  HaveMet'
  BY <1>11 DEF RequestCancel
<1>12. ASSUME NEW t \in Threads, ReadRows(t) \/ PostRows(t)
      PROVE  HaveMet'
  BY <1>12 DEF ReadRows, PostRows
<1>13. CASE UNCHANGED vars
  BY <1>13 DEF vars
<1> QED BY <1>1, <1>2, <1>3, <1>4, <1>5, <1>6, <1>7, <1>8, <1>9, <1>10, <1>11, <1>12,
           <1>13, StepCases

\* A sender writes only what is left, and none is taken for lost.
LEMMA SteadyNext ==
    ASSUME TypeOK, Steady, [Next]_vars
    PROVE  Steady'
<1> USE ProgressConstants DEF Threads, Receivers, Active, Ended, Busy, TypeOK, Goto, Free, Steady
<1>1. ASSUME NEW t \in Transfers, Start(t)
      PROVE  Steady'
  BY <1>1 DEF Start, Others, SameName
<1>2. ASSUME NEW t \in Transfers, NotCancelled(t)
      PROVE  Steady'
  BY <1>2 DEF NotCancelled
<1>3. ASSUME NEW t \in Transfers, SenderCancelled(t)
      PROVE  Steady'
  BY <1>3 DEF SenderCancelled
<1>4. ASSUME NEW t \in Transfers, ReceiverCancelled(t)
      PROVE  Steady'
  BY <1>4 DEF ReceiverCancelled
<1>5. ASSUME NEW t \in Transfers, Chunk(t)
      PROVE  Steady'
  <2>1. PICK done : sent' = [sent EXCEPT ![t] = done]
    BY <1>5 DEF Chunk
  <2> QED BY <1>5, <2>1 DEF Chunk
<1>6. ASSUME NEW t \in Transfers, WriteFails(t)
      PROVE  Steady'
  BY <1>6 DEF WriteFails
<1>7. ASSUME NEW t \in Transfers, Finish(t)
      PROVE  Steady'
  BY <1>7 DEF Finish
<1>8. ASSUME NEW t \in Transfers, LoseConnection(t)
      PROVE  Steady'
  BY <1>8 DEF LoseConnection
<1>9. ASSUME NEW t \in Transfers, FinishRow(t)
      PROVE  Steady'
  BY <1>9 DEF FinishRow
<1>10. ASSUME NEW t \in Transfers, FinishFlag(t)
      PROVE  Steady'
  BY <1>10 DEF FinishFlag
<1>11. ASSUME NEW n \in Names, RequestCancel(n)
      PROVE  Steady'
  BY <1>11 DEF RequestCancel, Running
<1>12. ASSUME NEW t \in Threads, ReadRows(t) \/ PostRows(t)
      PROVE  Steady'
  BY <1>12 DEF ReadRows, PostRows
<1>13. CASE UNCHANGED vars
  BY <1>13 DEF vars
<1> QED BY <1>1, <1>2, <1>3, <1>4, <1>5, <1>6, <1>7, <1>8, <1>9, <1>10, <1>11, <1>12,
           <1>13, StepCases

\* A flag is set for a listed transfer and cleared when that is through.
LEMMA FlagsNext ==
    ASSUME TypeOK, RowsAreRunning, FlagsHaveTransfers, [Next]_vars
    PROVE  FlagsHaveTransfers'
<1> USE ProgressConstants DEF Threads, Receivers, Active, Ended, Busy, TypeOK, Goto, FlagsHaveTransfers,
    Left, LeftBehind
<1>1. ASSUME NEW t \in Transfers, Start(t)
      PROVE  FlagsHaveTransfers'
  BY <1>1 DEF Start
<1>2. ASSUME NEW t \in Transfers, NotCancelled(t)
      PROVE  FlagsHaveTransfers'
  BY <1>2 DEF NotCancelled
<1>3. ASSUME NEW t \in Transfers, SenderCancelled(t)
      PROVE  FlagsHaveTransfers'
  BY <1>3 DEF SenderCancelled
<1>4. ASSUME NEW t \in Transfers, ReceiverCancelled(t)
      PROVE  FlagsHaveTransfers'
  BY <1>4 DEF ReceiverCancelled
<1>5. ASSUME NEW t \in Transfers, Chunk(t)
      PROVE  FlagsHaveTransfers'
  BY <1>5 DEF Chunk
<1>6. ASSUME NEW t \in Transfers, WriteFails(t)
      PROVE  FlagsHaveTransfers'
  BY <1>6 DEF WriteFails
<1>7. ASSUME NEW t \in Transfers, Finish(t)
      PROVE  FlagsHaveTransfers'
  BY <1>7 DEF Finish
<1>8. ASSUME NEW t \in Transfers, LoseConnection(t)
      PROVE  FlagsHaveTransfers'
  BY <1>8 DEF LoseConnection
<1>9. ASSUME NEW t \in Transfers, FinishRow(t)
      PROVE  FlagsHaveTransfers'
  BY <1>9 DEF FinishRow
<1>10. ASSUME NEW t \in Transfers, FinishFlag(t)
      PROVE  FlagsHaveTransfers'
  BY <1>10 DEF FinishFlag
<1>11. ASSUME NEW n \in Names, RequestCancel(n)
      PROVE  FlagsHaveTransfers'
  <2>1. PICK r \in current : r.name = n
    BY <1>11 DEF RequestCancel, Listed
  <2>2. PICK w \in Transfers : NameOf[w] = r.name /\ (pc[w] \in Active \/ LeftBehind(w))
    BY <2>1 DEF RowsAreRunning
  <2> QED BY <1>11, <2>1, <2>2 DEF RequestCancel
<1>12. ASSUME NEW t \in Threads, ReadRows(t) \/ PostRows(t)
      PROVE  FlagsHaveTransfers'
  BY <1>12 DEF ReadRows, PostRows
<1>13. CASE UNCHANGED vars
  BY <1>13 DEF vars
<1> QED BY <1>1, <1>2, <1>3, <1>4, <1>5, <1>6, <1>7, <1>8, <1>9, <1>10, <1>11, <1>12,
           <1>13, StepCases

\* A flag that is set is meant for the transfer that runs.
LEMMA FlagReasonNext ==
    ASSUME TypeOK, HaveMet, FlagsHaveTransfers, FlagHasReason, [Next]_vars
    PROVE  FlagHasReason'
<1> USE ProgressConstants DEF Threads, Receivers, Active, Ended, Busy, TypeOK, Goto, FlagHasReason,
    Left, LeftBehind
<1>1. ASSUME NEW t \in Transfers, Start(t)
      PROVE  FlagHasReason'
  <2>1. CASE Others(t) = {}
    <3>1. NameOf[t] \in cancel => Left(NameOf[t])
      BY <1>1, <2>1 DEF FlagsHaveTransfers, Others, SameName, Start
    <3> QED BY <1>1, <2>1, <3>1 DEF Start
  <2>2. CASE Others(t) # {}
    BY <1>1, <2>2 DEF Start
  <2> QED BY <2>1, <2>2
<1>2. ASSUME NEW t \in Transfers, NotCancelled(t)
      PROVE  FlagHasReason'
  BY <1>2 DEF NotCancelled
<1>3. ASSUME NEW t \in Transfers, SenderCancelled(t)
      PROVE  FlagHasReason'
  BY <1>3 DEF SenderCancelled
<1>4. ASSUME NEW t \in Transfers, ReceiverCancelled(t)
      PROVE  FlagHasReason'
  BY <1>4 DEF ReceiverCancelled
<1>5. ASSUME NEW t \in Transfers, Chunk(t)
      PROVE  FlagHasReason'
  BY <1>5 DEF Chunk
<1>6. ASSUME NEW t \in Transfers, WriteFails(t)
      PROVE  FlagHasReason'
  BY <1>6 DEF WriteFails
<1>7. ASSUME NEW t \in Transfers, Finish(t)
      PROVE  FlagHasReason'
  BY <1>7 DEF Finish
<1>8. ASSUME NEW t \in Transfers, LoseConnection(t)
      PROVE  FlagHasReason'
  BY <1>8 DEF LoseConnection
<1>9. ASSUME NEW t \in Transfers, FinishRow(t)
      PROVE  FlagHasReason'
  BY <1>9 DEF FinishRow
<1>10. ASSUME NEW t \in Transfers, FinishFlag(t)
      PROVE  FlagHasReason'
  BY <1>10 DEF FinishFlag
<1>11. ASSUME NEW n \in Names, RequestCancel(n)
      PROVE  FlagHasReason'
  BY <1>11 DEF RequestCancel, Running
<1>12. ASSUME NEW t \in Threads, ReadRows(t) \/ PostRows(t)
      PROVE  FlagHasReason'
  BY <1>12 DEF ReadRows, PostRows
<1>13. CASE UNCHANGED vars
  BY <1>13 DEF vars
<1> QED BY <1>1, <1>2, <1>3, <1>4, <1>5, <1>6, <1>7, <1>8, <1>9, <1>10, <1>11, <1>12,
           <1>13, StepCases

\* A row has its transfer, which runs or has left it behind.
LEMMA RowsNext ==
    ASSUME TypeOK, Steady, FlagHasReason, RowsAreRunning, CancelledStaysHidden, [Next]_vars
    PROVE  RowsAreRunning'
<1> USE ProgressConstants DEF Threads, Receivers, Active, Ended, Busy, TypeOK, Goto,
    RowsAreRunning, LeftBehind
<1>1. ASSUME NEW t \in Transfers, Start(t)
      PROVE  RowsAreRunning'
  <2>1. SUFFICES ASSUME NEW r \in current'
                 PROVE  \E w \in Transfers : NameOf[w] = r.name
                            /\ (pc'[w] \in Active \/ LeftBehind(w)')
                            /\ (w \in met' \/ r.upload = (w \in Senders))
    OBVIOUS
  <2> DEFINE new == [name |-> NameOf[t], upload |-> t \in Senders, done |-> 0]
  <2>2. /\ current' \in SUBSET Rows
        /\ \A a, b \in current' : a.name = b.name => a = b
        /\ new \in current'
        /\ \A a \in Rows : a.name # NameOf[t] => (a \in current' <=> a \in current)
    BY <1>1, StartTyped
  <2>3. new.name = NameOf[t] /\ new.upload = (t \in Senders)
    OBVIOUS
  <2> HIDE DEF new
  <2>4. CASE r.name = NameOf[t]
    <3>1. r = new
      BY <2>1, <2>2, <2>3, <2>4
    <3> QED BY <1>1, <2>3, <3>1 DEF Start
  <2>5. CASE r.name # NameOf[t]
    <3>1. r \in current
      BY <2>1, <2>2, <2>5
    <3>2. PICK w \in Transfers : NameOf[w] = r.name
              /\ (pc[w] \in Active \/ LeftBehind(w))
              /\ (w \in met \/ r.upload = (w \in Senders))
      BY <3>1
    <3>3. w # t /\ pc'[w] = pc[w] /\ (w \in met => w \in met')
      BY <1>1, <2>5, <3>2 DEF Start
    <3> QED BY <3>2, <3>3
  <2> QED BY <2>4, <2>5
<1>2. ASSUME NEW t \in Transfers, NotCancelled(t)
      PROVE  RowsAreRunning'
  BY <1>2 DEF NotCancelled
<1>3. ASSUME NEW t \in Transfers, SenderCancelled(t)
      PROVE  RowsAreRunning'
  BY <1>3 DEF SenderCancelled
<1>4. ASSUME NEW t \in Transfers, ReceiverCancelled(t)
      PROVE  RowsAreRunning'
  <2>1. SUFFICES ASSUME NEW r \in current
                 PROVE  \E w \in Transfers : NameOf[w] = r.name
                            /\ (pc'[w] \in Active \/ LeftBehind(w)')
                            /\ (w \in met \/ r.upload = (w \in Senders))
    BY <1>4 DEF ReceiverCancelled
  <2>2. PICK w \in Transfers : NameOf[w] = r.name
            /\ (pc[w] \in Active \/ LeftBehind(w))
            /\ (w \in met \/ r.upload = (w \in Senders))
    OBVIOUS
  <2>3. CASE w # t
    <3>1. pc'[w] = pc[w] /\ met' = met
      BY <1>4, <2>3 DEF ReceiverCancelled
    <3> QED BY <2>2, <3>1
  <2>4. CASE w = t /\ t \in met
    <3>1. pc'[w] = "aborted" /\ met' = met
      BY <1>4, <2>4 DEF ReceiverCancelled
    <3> QED BY <2>2, <2>4, <3>1
  <2>5. CASE w = t /\ t \notin met
    <3>1. pc[t] = "running" /\ NameOf[t] \in cancel /\ t \notin Senders /\ met' = met
      BY <1>4 DEF ReceiverCancelled
    <3>2. t \notin requested
      BY <2>2, <2>5, <3>1 DEF CancelledStaysHidden, Listed
    <3>3. PICK o \in Transfers : NameOf[o] = NameOf[t] /\ LeftBehind(o)
      BY <2>5, <3>1, <3>2 DEF FlagHasReason, Left
    <3>4. o # t /\ pc'[o] = pc[o]
      BY <1>4, <3>1, <3>3 DEF ReceiverCancelled
    <3>5. o \in met \/ o \notin Senders
      BY <3>3 DEF Steady
    <3>6. o \in met \/ r.upload = (o \in Senders)
      BY <2>2, <2>5, <3>1, <3>5
    <3> QED BY <2>2, <2>5, <3>1, <3>3, <3>4, <3>6
  <2> QED BY <2>3, <2>4, <2>5
<1>5. ASSUME NEW t \in Transfers, Chunk(t)
      PROVE  RowsAreRunning'
  <2>1. SUFFICES ASSUME NEW r \in current'
                 PROVE  \E w \in Transfers : NameOf[w] = r.name
                            /\ (pc'[w] \in Active \/ LeftBehind(w)')
                            /\ (w \in met' \/ r.upload = (w \in Senders))
    OBVIOUS
  <2>2. PICK done \in 0..Chunks : Update(t, done)
    BY <1>5, ChunkTyped
  <2>3. PICK s \in current : s.name = r.name /\ s.upload = r.upload
    BY <2>1, <2>2, UpdateTyped
  <2>4. PICK w \in Transfers : NameOf[w] = s.name
            /\ (pc[w] \in Active \/ LeftBehind(w))
            /\ (w \in met \/ s.upload = (w \in Senders))
    OBVIOUS
  <2>5. met' = met /\ (pc'[w] \in Active \/ LeftBehind(w)')
    BY <1>5, <2>4 DEF Chunk
  <2> QED BY <2>3, <2>4, <2>5
<1>6. ASSUME NEW t \in Transfers, WriteFails(t)
      PROVE  RowsAreRunning'
  BY <1>6 DEF WriteFails
<1>7. ASSUME NEW t \in Transfers, Finish(t)
      PROVE  RowsAreRunning'
  BY <1>7 DEF Finish
<1>8. ASSUME NEW t \in Transfers, LoseConnection(t)
      PROVE  RowsAreRunning'
  BY <1>8 DEF LoseConnection
<1>9. ASSUME NEW t \in Transfers, FinishRow(t)
      PROVE  RowsAreRunning'
  BY <1>9 DEF FinishRow, Without
<1>10. ASSUME NEW t \in Transfers, FinishFlag(t)
      PROVE  RowsAreRunning'
  BY <1>10 DEF FinishFlag
<1>11. ASSUME NEW n \in Names, RequestCancel(n)
      PROVE  RowsAreRunning'
  BY <1>11 DEF RequestCancel, Without
<1>12. ASSUME NEW t \in Threads, ReadRows(t) \/ PostRows(t)
      PROVE  RowsAreRunning'
  BY <1>12 DEF ReadRows, PostRows
<1>13. CASE UNCHANGED vars
  BY <1>13 DEF vars
<1> QED BY <1>1, <1>2, <1>3, <1>4, <1>5, <1>6, <1>7, <1>8, <1>9, <1>10, <1>11, <1>12,
           <1>13, StepCases

\* What was cancelled is listed again by nobody.
LEMMA HiddenNext ==
    ASSUME TypeOK, HaveMet, Steady, CancelledStaysHidden, [Next]_vars
    PROVE  CancelledStaysHidden'
<1> USE ProgressConstants DEF Threads, Receivers, Active, Ended, Busy, TypeOK, Goto, CancelledStaysHidden, Listed
<1>1. ASSUME NEW t \in Transfers, Start(t)
      PROVE  CancelledStaysHidden'
  <2>1. \A o \in SameName(t) : pc[o] \in Busy => o \in met'
    BY <1>1 DEF Start, Others
  <2>2. \A a \in Rows : a.name # NameOf[t] => (a \in current' <=> a \in current)
    BY <1>1, StartTyped
  <2>3. current' \in SUBSET Rows /\ met \subseteq met' /\ t \notin requested
    BY <1>1, StartTyped DEF Start, Steady
  <2> QED BY <1>1, <2>1, <2>2, <2>3 DEF Start, SameName
<1>2. ASSUME NEW t \in Transfers, NotCancelled(t)
      PROVE  CancelledStaysHidden'
  BY <1>2 DEF NotCancelled
<1>3. ASSUME NEW t \in Transfers, SenderCancelled(t)
      PROVE  CancelledStaysHidden'
  BY <1>3 DEF SenderCancelled
<1>4. ASSUME NEW t \in Transfers, ReceiverCancelled(t)
      PROVE  CancelledStaysHidden'
  BY <1>4 DEF ReceiverCancelled
<1>5. ASSUME NEW t \in Transfers, Chunk(t)
      PROVE  CancelledStaysHidden'
  <2>1. PICK done \in 0..Chunks : Update(t, done)
    BY <1>5, ChunkTyped
  <2>2. \A r \in current' : \E s \in current : s.name = r.name
    BY <2>1, UpdateTyped
  <2>3. \A o \in Transfers : pc'[o] \in Active => pc[o] \in Active
    BY <1>5 DEF Chunk
  <2> QED BY <1>5, <2>2, <2>3 DEF Chunk
<1>6. ASSUME NEW t \in Transfers, WriteFails(t)
      PROVE  CancelledStaysHidden'
  BY <1>6 DEF WriteFails
<1>7. ASSUME NEW t \in Transfers, Finish(t)
      PROVE  CancelledStaysHidden'
  BY <1>7 DEF Finish
<1>8. ASSUME NEW t \in Transfers, LoseConnection(t)
      PROVE  CancelledStaysHidden'
  BY <1>8 DEF LoseConnection
<1>9. ASSUME NEW t \in Transfers, FinishRow(t)
      PROVE  CancelledStaysHidden'
  BY <1>9 DEF FinishRow, Without
<1>10. ASSUME NEW t \in Transfers, FinishFlag(t)
      PROVE  CancelledStaysHidden'
  BY <1>10 DEF FinishFlag
<1>11. ASSUME NEW n \in Names, RequestCancel(n)
      PROVE  CancelledStaysHidden'
  BY <1>11 DEF RequestCancel, Without, Running
<1>12. ASSUME NEW t \in Threads, ReadRows(t) \/ PostRows(t)
      PROVE  CancelledStaysHidden'
  BY <1>12 DEF ReadRows, PostRows
<1>13. CASE UNCHANGED vars
  BY <1>13 DEF vars
<1> QED BY <1>1, <1>2, <1>3, <1>4, <1>5, <1>6, <1>7, <1>8, <1>9, <1>10, <1>11, <1>12,
           <1>13, StepCases

\* A running transfer keeps its row, with its own count.
LEMMA ListedNext ==
    ASSUME TypeOK, HaveMet, Steady, RunningIsListed, [Next]_vars
    PROVE  RunningIsListed'
<1> USE ProgressConstants DEF Threads, Receivers, Active, Ended, Busy, TypeOK, Goto, RunningIsListed
<1>1. ASSUME NEW t \in Transfers, Start(t)
      PROVE  RunningIsListed'
  <2>1. SUFFICES ASSUME NEW o \in Transfers \ (requested \cup met'), pc'[o] \in Active
                 PROVE  [name |-> NameOf[o], upload |-> o \in Senders, done |-> sent'[o]] \in current'
    BY <1>1 DEF Start
  <2>2. CASE o = t
    BY <1>1, <2>2, StartTyped DEF Start, Steady
  <2>3. CASE o # t
    <3> DEFINE row == [name |-> NameOf[o], upload |-> o \in Senders, done |-> sent[o]]
    <3>1. pc[o] \in Active /\ sent'[o] = sent[o] /\ o \notin met /\ NameOf[o] # NameOf[t]
      BY <1>1, <2>1, <2>3 DEF Start, Others, SameName
    <3>2. row \in current /\ row.name = NameOf[o]
      BY <2>1, <3>1
    <3> HIDE DEF row
    <3>3. row \in current'
      BY <1>1, <3>1, <3>2, StartTyped
    <3> QED BY <3>1, <3>3 DEF row
  <2> QED BY <2>2, <2>3
<1>2. ASSUME NEW t \in Transfers, NotCancelled(t)
      PROVE  RunningIsListed'
  BY <1>2 DEF NotCancelled
<1>3. ASSUME NEW t \in Transfers, SenderCancelled(t)
      PROVE  RunningIsListed'
  BY <1>3 DEF SenderCancelled
<1>4. ASSUME NEW t \in Transfers, ReceiverCancelled(t)
      PROVE  RunningIsListed'
  BY <1>4 DEF ReceiverCancelled
<1>5. ASSUME NEW t \in Transfers, Chunk(t)
      PROVE  RunningIsListed'
  <2>1. SUFFICES ASSUME NEW o \in Transfers \ (requested \cup met'), pc'[o] \in Active
                 PROVE  [name |-> NameOf[o], upload |-> o \in Senders, done |-> sent'[o]] \in current'
    BY <1>5 DEF Chunk
  <2>2. PICK done \in 0..Chunks : sent' = [sent EXCEPT ![t] = done] /\ Update(t, done)
    BY <1>5, ChunkTyped
  <2> DEFINE row == [name |-> NameOf[o], upload |-> o \in Senders, done |-> sent[o]]
  <2>3. row \in current /\ row.name = NameOf[o] /\ row.upload = (o \in Senders)
    BY <1>5, <2>1 DEF Chunk
  <2> HIDE DEF row
  <2>4. CASE o = t
    <3>1. [name |-> row.name, upload |-> row.upload, done |-> done] \in current'
      BY <2>2, <2>3, <2>4, UpdateTyped
    <3>2. sent'[o] = done
      BY <2>2, <2>4
    <3> QED BY <2>3, <3>1, <3>2
  <2>5. CASE o # t
    <3>1. NameOf[o] # NameOf[t] /\ sent'[o] = sent[o]
      BY <1>5, <2>1, <2>2, <2>5 DEF Chunk, HaveMet
    <3>2. row \in current'
      BY <2>2, <2>3, <3>1, UpdateTyped
    <3> QED BY <3>1, <3>2 DEF row
  <2> QED BY <2>4, <2>5
<1>6. ASSUME NEW t \in Transfers, WriteFails(t)
      PROVE  RunningIsListed'
  BY <1>6 DEF WriteFails
<1>7. ASSUME NEW t \in Transfers, Finish(t)
      PROVE  RunningIsListed'
  BY <1>7 DEF Finish
<1>8. ASSUME NEW t \in Transfers, LoseConnection(t)
      PROVE  RunningIsListed'
  BY <1>8 DEF LoseConnection
<1>9. ASSUME NEW t \in Transfers, FinishRow(t)
      PROVE  RunningIsListed'
  <2>1. SUFFICES ASSUME NEW o \in Transfers \ (requested \cup met'), pc'[o] \in Active
                 PROVE  [name |-> NameOf[o], upload |-> o \in Senders, done |-> sent[o]] \in current'
    BY <1>9 DEF FinishRow
  <2>2. NameOf[o] # NameOf[t]
    BY <1>9, <2>1 DEF FinishRow, HaveMet
  <2> QED BY <1>9, <2>1, <2>2 DEF FinishRow, Without
<1>10. ASSUME NEW t \in Transfers, FinishFlag(t)
      PROVE  RunningIsListed'
  BY <1>10 DEF FinishFlag
<1>11. ASSUME NEW n \in Names, RequestCancel(n)
      PROVE  RunningIsListed'
  BY <1>11 DEF RequestCancel, Without, Running
<1>12. ASSUME NEW t \in Threads, ReadRows(t) \/ PostRows(t)
      PROVE  RunningIsListed'
  BY <1>12 DEF ReadRows, PostRows
<1>13. CASE UNCHANGED vars
  BY <1>13 DEF vars
<1> QED BY <1>1, <1>2, <1>3, <1>4, <1>5, <1>6, <1>7, <1>8, <1>9, <1>10, <1>11, <1>12,
           <1>13, StepCases

LEMMA ProgressInvariant == Spec => []ProgressInv
<1>1. Init => ProgressInv
  <2> SUFFICES ASSUME Init
               PROVE  ProgressInv
    OBVIOUS
  <2>1. TypeOK
    BY ProgressConstants DEF Init, TypeOK, Threads
  <2>2. HaveMet /\ Steady /\ FlagsHaveTransfers /\ FlagHasReason
    BY ProgressConstants DEF Init, HaveMet, Steady, FlagsHaveTransfers, FlagHasReason,
       Busy, Active
  <2>3. RowsAreRunning /\ CancelledStaysHidden /\ RunningIsListed
    BY DEF Init, RowsAreRunning, CancelledStaysHidden, RunningIsListed, Active
  <2> QED BY <2>1, <2>2, <2>3 DEF ProgressInv
<1>2. ProgressInv /\ [Next]_vars => ProgressInv'
  BY TypeNext, HaveMetNext, SteadyNext, FlagsNext, FlagReasonNext, RowsNext, HiddenNext,
     ListedNext DEF ProgressInv
<1> QED BY <1>1, <1>2, PTL DEF Spec

\* For any transfers: the map has at most one row for a name, and counts stay
\* within the length of the file (CURRENT of transfer_progress.rs).
THEOREM TypeInvariant == Spec => []TypeOK
<1>1. ProgressInv => TypeOK
  BY DEF ProgressInv
<1> QED BY <1>1, ProgressInvariant, PTL

\* A cancel flag waits for a transfer of its name that is not through with
\* `finish`, or is that of a row left behind (CANCEL, Drop).
THEOREM FlagsInvariant == Spec => []FlagsHaveTransfers
<1>1. ProgressInv => FlagsHaveTransfers
  BY DEF ProgressInv
<1> QED BY <1>1, ProgressInvariant, PTL

\* The map lists transfers in progress, in their direction unless two share a
\* row, and files left behind (start, finish).
THEOREM RowsInvariant == Spec => []RowsAreRunning
<1>1. ProgressInv => RowsAreRunning
  BY DEF ProgressInv
<1> QED BY <1>1, ProgressInvariant, PTL

\* A cancelled transfer is not listed again by its own updates, which change
\* listed names only (update, request_cancel).
THEOREM HiddenInvariant == Spec => []CancelledStaysHidden
<1>1. ProgressInv => CancelledStaysHidden
  BY DEF ProgressInv
<1> QED BY <1>1, ProgressInvariant, PTL

\* A transfer in progress is listed with its own count until it is cancelled or
\* another of its name starts.
THEOREM ListedInvariant == Spec => []RunningIsListed
<1>1. ProgressInv => RunningIsListed
  BY DEF ProgressInv
<1> QED BY <1>1, ProgressInvariant, PTL

\* A transfer that is_cancelled stops was running when the user cancelled it,
\* unless it shared its name or one before it left its row behind (is_cancelled).
THEOREM CancelReason == Spec => CancelHasReason
<1>1. ProgressInv /\ [Next]_vars =>
          [\A t \in Transfers : Cancelled(t) => t \in requested \cup met \/ Left(NameOf[t])]_vars
  BY DEF ProgressInv, FlagHasReason, Cancelled, SenderCancelled, ReceiverCancelled, Active
<1> QED BY <1>1, ProgressInvariant, PTL DEF Spec, CancelHasReason

\* A chunk of a transfer that shares its name with no other adds to its row,
\* which has the count of that very transfer; an unlisted one changes no row.
LEMMA ChunkGrows ==
    ASSUME ProgressInv, NEW t \in Transfers, Chunk(t), t \notin met,
           NEW r \in current, NEW s \in current', r.name = s.name
    PROVE  s.done >= r.done
<1>1. /\ TypeOK /\ current \in SUBSET Rows /\ \A a, b \in current : a.name = b.name => a = b
      /\ sent \in [Transfers -> 0..Chunks] /\ NameOf[t] \in Names /\ Chunks \in Nat
      /\ r.done \in 0..Chunks
  BY ProgressConstants DEF ProgressInv, TypeOK, Rows
<1>2. PICK end \in IF t \in Senders THEN {sent[t] + 1} ELSE 1..Chunks :
          LET done == IF end > sent[t] THEN end ELSE sent[t]
          IN sent' = [sent EXCEPT ![t] = done] /\ Update(t, done)
  BY DEF Chunk
<1> DEFINE done == IF end > sent[t] THEN end ELSE sent[t]
<1>3. done \in 0..Chunks /\ done >= sent[t]
  BY <1>1, <1>2 DEF ProgressInv, Steady, Chunk
<1>4. Update(t, done)
  BY <1>2
<1> HIDE DEF done
<1>5. /\ \A a, b \in current' : a.name = b.name => a = b
      /\ \A a \in Rows : a.name # NameOf[t] => (a \in current' <=> a \in current)
      /\ \A a \in current : a.name = NameOf[t] =>
            [name |-> a.name, upload |-> a.upload, done |-> done] \in current'
  BY <1>1, <1>3, <1>4, UpdateTyped
<1>6. CASE r.name # NameOf[t]
  <2>1. r \in current'
    BY <1>1, <1>5, <1>6
  <2>2. s = r
    BY <1>5, <2>1
  <2> QED BY <1>1, <2>2
<1>7. CASE r.name = NameOf[t]
  <2>1. t \notin requested
    BY <1>7 DEF ProgressInv, CancelledStaysHidden, Listed, Chunk, Active
  <2>2. [name |-> NameOf[t], upload |-> t \in Senders, done |-> sent[t]] \in current
    BY <2>1 DEF ProgressInv, RunningIsListed, Chunk, Active
  <2>3. r.done = sent[t]
    BY <1>1, <1>7, <2>2
  <2> DEFINE new == [name |-> r.name, upload |-> r.upload, done |-> done]
  <2>4. new \in current' /\ new.name = s.name
    BY <1>5, <1>7
  <2>5. s = new
    BY <1>5, <2>4
  <2>6. s.done = done
    BY <2>5
  <2> QED BY <1>3, <2>3, <2>6
<1> QED BY <1>6, <1>7

\* The count of a listed transfer goes back only when the next of its name
\* starts, or two of them count in one row: of two chunks that overtake each
\* other the larger end counts (update).
THEOREM CountsGrow == Spec => CountsNeverShrink
<1> DEFINE Allowed(r) == \E t \in Transfers :
                NameOf[t] = r.name /\ (Start(t) \/ (t \in met /\ Chunk(t)))
<1>1. ASSUME ProgressInv, [Next]_vars, NEW r \in current, NEW s \in current',
             r.name = s.name /\ r.upload = s.upload
      PROVE  s.done >= r.done \/ Allowed(r)
  <2>1. /\ TypeOK /\ r.done \in Nat /\ r \in Rows
        /\ \A a, b \in current : a.name = b.name => a = b
    BY <1>1, ProgressConstants DEF ProgressInv, TypeOK, Rows
  <2>2. ASSUME NEW t \in Transfers, Start(t), NameOf[t] # r.name
        PROVE  s = r
    BY <1>1, <2>1, <2>2, StartTyped
  <2>3. ASSUME NEW t \in Transfers, Chunk(t), t \notin met
        PROVE  s.done >= r.done
    BY <1>1, <2>3, ChunkGrows
  <2>4. ASSUME NEW t \in Transfers, Chunk(t), NameOf[t] # r.name
        PROVE  s = r
    <3>1. PICK done \in 0..Chunks : Update(t, done)
      BY <1>1, <2>4, ChunkTyped DEF ProgressInv
    <3> QED BY <1>1, <2>1, <2>4, <3>1, UpdateTyped
  <2>5. ASSUME current' \subseteq current
        PROVE  s = r
    BY <1>1, <2>1, <2>5
  <2>6. ASSUME NEW t \in Transfers,
               \/ NotCancelled(t) \/ SenderCancelled(t) \/ ReceiverCancelled(t)
               \/ WriteFails(t) \/ Finish(t) \/ LoseConnection(t)
               \/ FinishRow(t) \/ FinishFlag(t)
        PROVE  current' \subseteq current
    BY <2>6 DEF NotCancelled, SenderCancelled, ReceiverCancelled, WriteFails, Finish,
       LoseConnection, FinishRow, FinishFlag, Without
  <2>7. ASSUME NEW n \in Names, RequestCancel(n)
        PROVE  current' \subseteq current
    BY <2>7 DEF RequestCancel, Without
  <2>8. ASSUME NEW t \in Threads, ReadRows(t) \/ PostRows(t)
        PROVE  current' \subseteq current
    BY <2>8 DEF ReadRows, PostRows
  <2>9. UNCHANGED vars => current' \subseteq current
    BY DEF vars
  <2>10. s = r => s.done >= r.done
    BY <2>1
  <2>11. ASSUME NEW t \in Transfers, Start(t) \/ Chunk(t)
         PROVE  s.done >= r.done \/ Allowed(r)
    BY <2>2, <2>3, <2>4, <2>10, <2>11
  <2> HIDE DEF Allowed
  <2> QED BY <1>1, <2>5, <2>6, <2>7, <2>8, <2>9, <2>10, <2>11, StepCases
<1>2. ProgressInv /\ [Next]_vars =>
          [\A r \in current, s \in current' :
              r.name = s.name /\ r.upload = s.upload =>
                  \/ s.done >= r.done
                  \/ \E t \in Transfers :
                        NameOf[t] = r.name /\ (Start(t) \/ (t \in met /\ Chunk(t)))]_vars
  BY <1>1
<1> QED BY <1>2, ProgressInvariant, PTL DEF Spec, CountsNeverShrink
------------------------------------------------------------------------------
(* The map and its flags implement TransferList. *)

\* The phases of a step that leaves every transfer where the user saw it.
LEMMA PhasesStay ==
    ASSUME UNCHANGED <<sent, current, requested, met>>,
           \A t \in Transfers : pc'[t] = pc[t] \/ (pc[t] \in Active /\ pc'[t] \in Active)
    PROVE  UNCHANGED List!vars
<1>1. ASSUME NEW t \in Transfers
      PROVE  Phase(t)' = Phase(t)
  BY DEF Phase, Active, LeftBehind
<1> QED BY <1>1 DEF List!vars

\* A step that moves one transfer only moves its phase only.
LEMMA OnePhaseMoves ==
    ASSUME TypeOK, NEW t \in Transfers, NEW state, Goto(t, state), UNCHANGED <<requested, met>>
    PROVE  [o \in Transfers |-> Phase(o)]' = [[o \in Transfers |-> Phase(o)] EXCEPT ![t] = Phase(t)']
<1>1. /\ pc'[t] = state
      /\ \A o \in Transfers \ {t} : pc'[o] = pc[o]
  BY DEF TypeOK, Goto
<1>2. ASSUME NEW o \in Transfers \ {t}
      PROVE  Phase(o)' = Phase(o)
  BY <1>1 DEF Phase, LeftBehind
<1> QED BY <1>2

\* A transfer that is busy is present in the list, and no other is.
LEMMA BusyIsPresent ==
    ASSUME TypeOK, NEW t \in Transfers
    PROVE  /\ Phase(t) \in List!Present <=> pc[t] \in Busy
           /\ Phase(t) \in List!InProgress <=> pc[t] \in Active
<1>1. pc[t] \in {"idle", "clearing"} \cup Active \cup Ended
  BY DEF TypeOK
<1> QED BY <1>1 DEF Phase, Busy, Active, Ended, LeftBehind, List!Present, List!InProgress

\* A transfer is listed when it starts, and replaces a row left behind; one that
\* finds another of its name there shares the row with it.
LEMMA StartLists ==
    ASSUME ProgressInv, NEW t \in Transfers, Start(t)
    PROVE  List!Begin(t) \/ List!Join(t)
<1>1. TypeOK /\ pc[t] = "idle" /\ sent[t] = 0 /\ t \notin requested /\ t \notin met
  BY DEF Start, ProgressInv, Steady
<1>2. /\ Goto(t, "running") /\ pc'[t] = "running" /\ UNCHANGED <<sent, requested>>
      /\ \A o \in Transfers \ {t} : pc'[o] = pc[o]
  BY <1>1 DEF Start, Goto, TypeOK
<1>3. Phase(t) = "new"
  BY <1>1 DEF Phase, LeftBehind, Active
<1>4. List!Listing(t)
  BY <1>1 DEF Start, Insert, Without, List!Listing, List!RowsWithout, List!Row
<1>5. CASE Others(t) = {}
  <2>1. met' = met
    BY <1>5 DEF Start
  <2>2. Phase(t)' = "listed"
    BY <1>1, <1>2, <2>1 DEF Phase, LeftBehind, Active
  <2>3. ASSUME NEW o \in List!SameName(t)
        PROVE  Phase(o) \notin List!Present
    <3>1. o \in Transfers /\ NameOf[o] = NameOf[t]
      BY DEF List!SameName
    <3>2. pc[o] \notin Busy
      BY <1>1, <1>5, <3>1 DEF Others, SameName, Busy, Active
    <3> QED BY <1>1, <3>1, <3>2, BusyIsPresent
  <2>4. List!Enter(t, "listed")
    BY <1>1, <1>2, <2>1, <2>2, OnePhaseMoves DEF List!Enter
  <2> QED BY <1>2, <1>3, <1>4, <2>3, <2>4 DEF List!Begin, List!SameName
<1>6. CASE Others(t) # {}
  <2>1. met' = met \cup {t} \cup Others(t)
    BY <1>6 DEF Start
  <2>2. \E o \in List!SameName(t) : Phase(o) \in List!Present
    <3>1. PICK o \in Others(t) : TRUE
      BY <1>6
    <3>2. o \in Transfers /\ NameOf[o] = NameOf[t] /\ pc[o] \in Busy
      BY <3>1 DEF Others, SameName
    <3> QED BY <1>1, <3>2, BusyIsPresent DEF List!SameName
  <2>3. ASSUME NEW o \in Transfers
        PROVE  Phase(o)' = IF o = t \/ (o \in List!SameName(t) /\ Phase(o) \in List!InProgress)
                           THEN "shared" ELSE Phase(o)
    <3>1. CASE o = t
      BY <1>2, <2>1, <3>1 DEF Phase, LeftBehind, Active
    <3>2. CASE o # t /\ o \in List!SameName(t) /\ Phase(o) \in List!InProgress
      <4>1. pc[o] \in Active
        BY <1>1, <3>2, BusyIsPresent
      <4>2. o \in met' /\ pc'[o] \in Active
        BY <1>2, <2>1, <3>2, <4>1 DEF Others, SameName, Busy, List!SameName
      <4> QED BY <3>2, <4>2 DEF Phase, LeftBehind, Active
    <3>3. CASE o # t /\ ~(o \in List!SameName(t) /\ Phase(o) \in List!InProgress)
      <4>1. pc'[o] = pc[o]
        BY <1>2, <3>3
      <4>2. CASE o \in List!SameName(t)
        <5>1. pc[o] \notin Active
          BY <1>1, <3>3, <4>2, BusyIsPresent
        <5>2. pc[o] \notin Busy => (o \in met' <=> o \in met)
          BY <2>1, <3>3 DEF Others
        <5> QED BY <3>3, <4>1, <4>2, <5>1, <5>2 DEF Phase, LeftBehind, Busy
      <4>3. CASE o \notin List!SameName(t)
        <5>1. o \in met' <=> o \in met
          BY <2>1, <3>3, <4>3 DEF Others, SameName, List!SameName
        <5> QED BY <1>2, <3>3, <4>1, <4>3, <5>1 DEF Phase, LeftBehind
      <4> QED BY <4>2, <4>3
    <3> QED BY <3>1, <3>2, <3>3
  <2> QED BY <1>2, <1>3, <1>4, <2>2, <2>3 DEF List!Join, List!SameName
<1> QED BY <1>5, <1>6

\* A chunk adds to the row of its own transfer or to the one it shares, and to
\* no row when the user has deleted it.
LEMMA ChunkLists ==
    ASSUME ProgressInv, NEW t \in Transfers, Chunk(t)
    PROVE  List!Advance(t)
<1>1. /\ TypeOK /\ pc[t] = "writing" /\ sent[t] \in 0..Chunks /\ Chunks \in Nat
      /\ UNCHANGED <<requested, met>> /\ Goto(t, "running")
      /\ current \in SUBSET Rows /\ \A r, s \in current : r.name = s.name => r = s
  BY ProgressConstants DEF Chunk, ProgressInv, TypeOK
<1>2. PICK end \in IF t \in Senders THEN {sent[t] + 1} ELSE 1..Chunks :
          LET done == IF end > sent[t] THEN end ELSE sent[t]
          IN sent' = [sent EXCEPT ![t] = done] /\ Update(t, done)
  BY DEF Chunk
<1> DEFINE done == IF end > sent[t] THEN end ELSE sent[t]
<1>3. done \in sent[t]..Chunks
  BY <1>1, <1>2 DEF ProgressInv, Steady
<1>4. sent' = [sent EXCEPT ![t] = done] /\ Update(t, done)
  BY <1>2
<1> HIDE DEF done
<1>5. Phase(t) = IF t \in met THEN "shared" ELSE IF t \in requested THEN "hidden" ELSE "listed"
  BY <1>1 DEF Phase, LeftBehind, Active
<1>6. \A o \in Transfers : Phase(o)' = Phase(o)
  BY <1>1 DEF Phase, Active, Goto, TypeOK, LeftBehind
<1> DEFINE Shared == {IF r.name = NameOf[t] THEN [r EXCEPT !.done = done] ELSE r : r \in current}
<1>7. CASE Phase(t) = "listed"
  <2> DEFINE row == [name |-> NameOf[t], upload |-> t \in Senders, done |-> sent[t]]
  <2>0. t \notin met /\ t \notin requested
    BY <1>5, <1>7
  <2>1. row \in current
    BY <1>1, <2>0 DEF ProgressInv, RunningIsListed, Active
  <2>2. row.name = NameOf[t] /\ row.upload = (t \in Senders)
    OBVIOUS
  <2> HIDE DEF row
  <2>3. \A r \in current : r.name = NameOf[t] => r = row
    BY <1>1, <2>1, <2>2
  <2>4. Insert(row.name, row.upload, done)
    BY <1>4, <2>1, <2>2, <2>3 DEF Update, Listed
  <2>5. current' = List!RowsWithout(NameOf[t]) \cup {List!Row(t, done)}
    BY <2>2, <2>4 DEF Insert, Without, List!RowsWithout, List!Row
  <2> QED BY <1>3, <1>4, <1>6, <1>7, <2>5 DEF List!Advance, List!InProgress
<1>8. CASE Phase(t) = "hidden"
  <2>1. t \in requested /\ t \notin met
    BY <1>5, <1>8
  <2>2. current' = current
    BY <1>1, <1>4, <2>1 DEF ProgressInv, CancelledStaysHidden, Active, Update
  <2> QED BY <1>3, <1>4, <1>6, <1>8, <2>2 DEF List!Advance, List!InProgress
<1>9. CASE Phase(t) = "shared"
  <2>1. current' = Shared
    <3>1. CASE ~Listed(NameOf[t])
      <4>1. current' = current /\ \A r \in current : r.name # NameOf[t]
        BY <1>4, <3>1 DEF Update, Listed
      <4> QED BY <4>1
    <3>2. CASE Listed(NameOf[t])
      <4>1. PICK q \in current : q.name = NameOf[t] /\ Insert(q.name, q.upload, done)
        BY <1>4, <3>2 DEF Update
      <4> DEFINE new == [name |-> q.name, upload |-> q.upload, done |-> done]
      <4>2. [q EXCEPT !.done = done] = new
        BY <1>1 DEF Rows
      <4>3. current' = {r \in current : r.name # NameOf[t]} \cup {new}
        BY <4>1 DEF Insert, Without
      <4> HIDE DEF new
      <4>4. \A r \in current : r.name = NameOf[t] => r = q
        BY <1>1, <4>1
      <4> QED BY <4>1, <4>2, <4>3, <4>4
    <3> QED BY <3>1, <3>2
  <2> HIDE DEF Shared
  <2>2. List!InProgress = {"listed", "hidden", "shared"}
    BY DEF List!InProgress
  <2> QED BY <1>3, <1>4, <1>6, <1>9, <2>1, <2>2 DEF List!Advance, Shared
<1> QED BY <1>5, <1>7, <1>8, <1>9

\* `finish` takes the row of a transfer the user has not deleted, and changes
\* no row after one that is deleted.
LEMMA FinishLists ==
    ASSUME ProgressInv, NEW t \in Transfers, FinishRow(t)
    PROVE  List!End(t) \/ List!Stop(t)
<1>1. TypeOK /\ pc[t] = "finishing" /\ UNCHANGED <<sent, requested, met>> /\ Goto(t, "clearing")
  BY DEF FinishRow, ProgressInv
<1>2. pc'[t] = "clearing"
  BY <1>1 DEF Goto, TypeOK
<1>3. /\ Phase(t) = IF t \in met THEN "shared" ELSE IF t \in requested THEN "hidden" ELSE "listed"
      /\ Phase(t)' = "ending"
  BY <1>1, <1>2 DEF Phase, LeftBehind, Active
<1>4. List!Enter(t, "ending")
  BY <1>1, <1>3, OnePhaseMoves DEF List!Enter
<1>5. CASE t \in requested \ met
  <2>1. ~Listed(NameOf[t])
    BY <1>1, <1>5 DEF ProgressInv, CancelledStaysHidden, Active
  <2>2. current' = current
    BY <2>1 DEF FinishRow, Without, Listed
  <2> QED BY <1>1, <1>3, <1>4, <1>5, <2>2 DEF List!Stop
<1>6. CASE t \notin requested \ met
  <2>1. Phase(t) \in {"listed", "shared"}
    BY <1>3, <1>6
  <2> QED BY <1>1, <1>4, <2>1 DEF FinishRow, Without, List!End, List!RowsWithout
<1> QED BY <1>5, <1>6

\* A received file whose write finds a flag was deleted by the user, shares its
\* name, or follows one that left its row behind.
LEMMA AbortLists ==
    ASSUME ProgressInv, NEW t \in Transfers, ReceiverCancelled(t)
    PROVE  List!Stop(t) \/ List!CutShort(t)
<1>1. /\ TypeOK /\ t \notin Senders /\ pc[t] = "running" /\ NameOf[t] \in cancel
      /\ UNCHANGED <<sent, current, requested, met>> /\ Goto(t, "aborted")
  BY DEF ReceiverCancelled, Receivers, ProgressInv
<1>2. pc'[t] = "aborted"
  BY <1>1 DEF Goto, TypeOK
<1>3. /\ Phase(t) = IF t \in met THEN "shared" ELSE IF t \in requested THEN "hidden" ELSE "listed"
      /\ Phase(t)' = IF t \in met THEN "left" ELSE "over"
  BY <1>1, <1>2 DEF Phase, Active, LeftBehind
<1>4. List!Enter(t, Phase(t)')
  BY <1>1, OnePhaseMoves DEF List!Enter
<1>5. CASE t \in met
  BY <1>1, <1>3, <1>4, <1>5 DEF List!CutShort
<1>6. CASE t \in requested \ met
  BY <1>1, <1>3, <1>4, <1>6 DEF List!Stop
<1>7. CASE t \notin requested \cup met
  <2>1. PICK o \in Transfers : NameOf[o] = NameOf[t] /\ LeftBehind(o)
    BY <1>1, <1>7 DEF ProgressInv, FlagHasReason, Left, Active
  <2>2. o \in List!SameName(t) /\ Phase(o) = "left"
    BY <2>1 DEF List!SameName, Phase, Active, LeftBehind
  <2> QED BY <1>1, <1>3, <1>4, <1>7, <2>2 DEF List!CutShort
<1> QED BY <1>5, <1>6, <1>7

\* Nothing clears the row of a received file whose connection is lost.
LEMMA LossLists ==
    ASSUME ProgressInv, NEW t \in Transfers, LoseConnection(t)
    PROVE  List!Lose(t)
<1>1. /\ TypeOK /\ t \notin Senders /\ pc[t] \in {"running", "writing"}
      /\ UNCHANGED <<sent, current, requested, met>> /\ Goto(t, "lost")
  BY DEF LoseConnection, Receivers, ProgressInv
<1>2. pc'[t] = "lost"
  BY <1>1 DEF Goto, TypeOK
<1>3. Phase(t) \in List!InProgress /\ Phase(t)' = "left"
  BY <1>1, <1>2 DEF Phase, Active, LeftBehind, List!InProgress
<1>4. List!Enter(t, "left")
  BY <1>1, <1>3, OnePhaseMoves DEF List!Enter
<1> QED BY <1>1, <1>3, <1>4 DEF List!Lose

\* The notice that the flag is gone ends the transfer.
LEMMA FlagLists ==
    ASSUME ProgressInv, NEW t \in Transfers, FinishFlag(t)
    PROVE  List!Ended(t)
<1>1. /\ TypeOK /\ pc[t] = "clearing" /\ UNCHANGED <<sent, current, requested, met>>
      /\ Goto(t, "ended")
  BY DEF FinishFlag, ProgressInv
<1>2. pc'[t] = "ended"
  BY <1>1 DEF Goto, TypeOK
<1>3. Phase(t) = "ending" /\ Phase(t)' = "over"
  BY <1>1, <1>2 DEF Phase, Active, LeftBehind
<1>4. List!Enter(t, "over")
  BY <1>1, <1>3, OnePhaseMoves DEF List!Enter
<1> QED BY <1>1, <1>3, <1>4 DEF List!Ended

\* The delete button hides the transfers in progress under the row's name.
LEMMA DeleteLists ==
    ASSUME ProgressInv, NEW n \in Names, RequestCancel(n)
    PROVE  \E r \in current : List!Delete(r.name)
<1>1. PICK r \in current : r.name = n
  BY DEF RequestCancel, Listed
<1>2. requested' = requested \cup Running(n) /\ UNCHANGED <<pc, sent, met>>
  BY DEF RequestCancel
<1>3. ASSUME NEW t \in Transfers
      PROVE  Phase(t)' = IF NameOf[t] = n /\ Phase(t) = "listed" THEN "hidden" ELSE Phase(t)
  BY <1>2, <1>3 DEF Phase, Running, LeftBehind
<1>4. current' = List!RowsWithout(n)
  BY DEF RequestCancel, Without, List!RowsWithout
<1>5. List!Delete(n)
  BY <1>2, <1>3, <1>4 DEF List!Delete
<1> QED BY <1>1, <1>5

\* Every step of the threads is a step of the list or leaves it alone.
LEMMA StepLists ==
    ASSUME ProgressInv, [Next]_vars
    PROVE  [List!Next]_(List!vars)
<1> USE DEF Goto
<1>1. TypeOK
  BY DEF ProgressInv
<1>2. ASSUME NEW t \in Transfers, Start(t)
      PROVE  List!Next
  BY <1>2, StartLists DEF List!Next
<1>3. ASSUME NEW t \in Transfers, Chunk(t)
      PROVE  List!Next
  BY <1>3, ChunkLists DEF List!Next
<1>4. ASSUME NEW t \in Transfers, FinishRow(t)
      PROVE  List!Next
  BY <1>4, FinishLists DEF List!Next
<1>5. ASSUME NEW t \in Transfers, ReceiverCancelled(t)
      PROVE  List!Next
  BY <1>5, AbortLists DEF List!Next
<1>6. ASSUME NEW t \in Transfers, LoseConnection(t)
      PROVE  List!Next
  BY <1>6, LossLists DEF List!Next
<1>7. ASSUME NEW n \in Names, RequestCancel(n)
      PROVE  List!Next
  BY <1>7, DeleteLists DEF List!Next
<1>8. ASSUME NEW t \in Transfers, FinishFlag(t)
      PROVE  List!Next
  BY <1>8, FlagLists DEF List!Next
<1>9. ASSUME NEW t \in Transfers,
             NotCancelled(t) \/ SenderCancelled(t) \/ WriteFails(t) \/ Finish(t)
      PROVE  UNCHANGED List!vars
  <2>1. UNCHANGED <<sent, current, requested, met>>
    BY <1>9 DEF NotCancelled, SenderCancelled, WriteFails, Finish
  <2>2. \A o \in Transfers : pc'[o] = pc[o] \/ (pc[o] \in Active /\ pc'[o] \in Active)
    BY <1>1, <1>9 DEF NotCancelled, SenderCancelled, WriteFails, Finish, Active, TypeOK
  <2> QED BY <2>1, <2>2, PhasesStay
<1>10. ASSUME (\E t \in Threads : ReadRows(t) \/ PostRows(t)) \/ UNCHANGED vars
       PROVE  UNCHANGED List!vars
  <2>1. UNCHANGED <<pc, sent, current, requested, met>>
    BY <1>10 DEF ReadRows, PostRows, vars
  <2> QED BY <2>1, PhasesStay
<1> QED BY <1>2, <1>3, <1>4, <1>5, <1>6, <1>7, <1>8, <1>9, <1>10, StepCases

\* The map, its flags and the threads implement the list of TransferList: a
\* transfer is listed with its own count until it ends, is deleted or shares its
\* name, and one is cut short only when it was deleted, shares its name or
\* follows one that left its row behind (transfer_progress.rs).
THEOREM ListImplemented == Spec => ImplementsList
<1>1. Init => List!Init
  <2> SUFFICES ASSUME Init
               PROVE  List!Init
    OBVIOUS
  <2>1. \A t \in Transfers : Phase(t) = "new"
    BY DEF Init, Phase, LeftBehind, Active
  <2> QED BY <2>1 DEF Init, List!Init
<1>2. ProgressInv /\ [Next]_vars => [List!Next]_(List!vars)
  BY StepLists
<1> QED
  BY <1>1, <1>2, ProgressInvariant, PTL DEF Spec, ImplementsList, List!Spec
=============================================================================
