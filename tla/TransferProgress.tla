--------------------------- MODULE TransferProgress ---------------------------
(* In-progress transfers and their cancellation:                              *)
(* src/tools/transfer_progress.rs, used by the sender (send_file in           *)
(* src/tools/ssh_send.rs), by the receiver (SftpSession in                    *)
(* src/tools/ssh_server.rs) and by the delete button of the Transfer page.    *)
(*                                                                            *)
(* Rows and cancel flags are keyed by file name, not by transfer.  Every      *)
(* transfer runs on a thread of its own; a step is the code between two       *)
(* accesses to the shared maps.  push posts a snapshot read earlier, so what  *)
(* the UI shows may be older than what it was shown before.                   *)
EXTENDS Naturals, SequencesExt

CONSTANTS Transfers,    \* calls of send_file, and files received by the server
          Senders,      \* those of send_file
          Names,        \* file names
          NameOf,       \* [Transfers -> Names]
          Chunks,       \* length of every file, in chunks: a receiver's chunk is one
                  \* WRITE, a sender's the writes up to its next report (1 %)
          UI            \* the UI thread

ASSUME ProgressConstants ==
    /\ Senders \subseteq Transfers
    /\ NameOf \in [Transfers -> Names]
    /\ Chunks \in Nat \ {0}
    /\ UI \notin Transfers

VARIABLES
    pc,        \* [Transfers -> control state of the transfer]
    sent,      \* [Transfers -> chunks transferred]
    current,   \* CURRENT: name -> row, as a set of rows with distinct names
    cancel,    \* CANCEL
    pushing,   \* [Threads -> where the thread is in push]
    snap,      \* [Threads -> the snapshot push has read]
    shown,     \* the rows the UI shows
    requested, \* history variable: transfers running when their name was cancelled
    met        \* history variable: transfers that were busy while another of
               \* their name was, with which they shared a row and a flag

vars == <<pc, sent, current, cancel, pushing, snap, shown, requested, met>>

Threads == Transfers \cup {UI}
Receivers == Transfers \ Senders

\* One entry of CURRENT.  The total is fixed by the transfer and left out.
Rows == [name : Names, upload : BOOLEAN, done : 0..Chunks]

Active == {"running", "writing", "closing", "finishing"}
Busy == Active \cup {"clearing"}
Ended == {"ended", "aborted", "lost"}

TypeOK ==
    /\ pc \in [Transfers -> {"idle", "clearing"} \cup Active \cup Ended]
    /\ sent \in [Transfers -> 0..Chunks]
    /\ current \in SUBSET Rows
    /\ \A r, s \in current : r.name = s.name => r = s
    /\ cancel \in SUBSET Names
    /\ pushing \in [Threads -> {"no", "read", "post"}]
    /\ snap \in [Threads -> SUBSET Rows]
    /\ shown \in SUBSET Rows
    /\ requested \in SUBSET Transfers
    /\ met \in SUBSET Transfers

Init ==
    /\ pc = [t \in Transfers |-> "idle"]
    /\ sent = [t \in Transfers |-> 0]
    /\ current = {}
    /\ cancel = {}
    /\ pushing = [t \in Threads |-> "no"]
    /\ snap = [t \in Threads |-> {}]
    /\ shown = {}
    /\ requested = {}
    /\ met = {}
------------------------------------------------------------------------------
(* The maps of transfer_progress.rs. *)

Listed(n) == \E r \in current : r.name = n

Without(n) == {r \in current : r.name # n}

\* `insert`: replaces the row of that name.
Insert(n, up, done) ==
    current' = Without(n) \cup {[name |-> n, upload |-> up, done |-> done]}

\* Mutation: the row is written whether it is still listed or not.
UpdateAlways(t, done) == Insert(NameOf[t], t \in Senders, done)

\* Mutation: an update changes no row.
UpdateNever(t, done) == UNCHANGED current

\* `update`: only a listed name, and its direction is kept.
Update(t, done) ==
    IF Listed(NameOf[t])
    THEN \E r \in current : r.name = NameOf[t] /\ Insert(r.name, r.upload, done)
    ELSE UNCHANGED current

PushBegins(t) == pushing' = [pushing EXCEPT ![t] = "read"]

ReadRows(t) ==
    /\ pushing[t] = "read"
    /\ snap' = [snap EXCEPT ![t] = current]
    /\ pushing' = [pushing EXCEPT ![t] = "post"]
    /\ UNCHANGED <<pc, sent, current, cancel, shown, requested, met>>

\* What is posted last is shown last.
PostRows(t) ==
    /\ pushing[t] = "post"
    /\ shown' = snap[t]
    /\ snap' = [snap EXCEPT ![t] = {}]
    /\ pushing' = [pushing EXCEPT ![t] = "no"]
    /\ UNCHANGED <<pc, sent, current, cancel, requested, met>>
------------------------------------------------------------------------------
(* A transfer: send_file, or the open .. write .. close of a received file. *)

Goto(t, state) == pc' = [pc EXCEPT ![t] = state]

Free(t) == pushing[t] = "no"

SameName(t) == {o \in Transfers \ {t} : NameOf[o] = NameOf[t]}

\* Those of its name a transfer finds busy.  Nothing keeps it from starting:
\* a file may be sent to two devices, and received while it is sent.
Others(t) == {o \in SameName(t) : pc[o] \in Busy}

Start(t) ==
    /\ pc[t] = "idle"
    /\ met' = met \cup IF Others(t) = {} THEN {} ELSE {t} \cup Others(t)
    /\ Insert(NameOf[t], t \in Senders, 0)
    /\ PushBegins(t)
    /\ Goto(t, "running")
    /\ UNCHANGED <<sent, cancel, snap, shown, requested>>

\* is_cancelled returned false: on with the next chunk, or to the end of file.
NotCancelled(t) ==
    /\ pc[t] = "running" /\ Free(t)
    /\ NameOf[t] \notin cancel
    /\ \/ (t \in Senders => sent[t] < Chunks) /\ Goto(t, "writing")
       \/ sent[t] = Chunks /\ t \in Senders /\ Goto(t, "closing")
    /\ UNCHANGED <<sent, current, cancel, pushing, snap, shown, requested, met>>

\* Mutation: the sender looks at the flag between chunks only.
SenderCancelledInLoop(t) ==
    /\ t \in Senders
    /\ pc[t] = "running" /\ Free(t)
    /\ NameOf[t] \in cancel
    /\ cancel' = cancel \ {NameOf[t]}
    /\ Goto(t, "finishing")
    /\ UNCHANGED <<sent, current, pushing, snap, shown, requested, met>>

\* is_cancelled returned true and cleared the flag, in the loop or in
\* cancel_poll, which runs at every await.
SenderCancelled(t) ==
    /\ t \in Senders
    /\ pc[t] \in {"running", "writing", "closing"} /\ Free(t)
    /\ NameOf[t] \in cancel
    /\ cancel' = cancel \ {NameOf[t]}
    /\ Goto(t, "finishing")
    /\ UNCHANGED <<sent, current, pushing, snap, shown, requested, met>>

\* The receiver looks when a write arrives; it forgets the transfer, deletes
\* the partial file and fails the write.  There is no finish on this path.
ReceiverCancelled(t) ==
    /\ t \in Receivers
    /\ pc[t] = "running" /\ Free(t)
    /\ NameOf[t] \in cancel
    /\ cancel' = cancel \ {NameOf[t]}
    /\ Goto(t, "aborted")
    /\ UNCHANGED <<sent, current, pushing, snap, shown, requested, met>>

\* Mutation: a received chunk counts at its own offset.
ChunkAtOffset(t) ==
    /\ pc[t] = "writing"
    /\ \E end \in IF t \in Senders THEN {sent[t] + 1} ELSE 1..Chunks :
          /\ sent' = [sent EXCEPT ![t] = end]
          /\ Update(t, end)
    /\ PushBegins(t)
    /\ Goto(t, "running")
    /\ UNCHANGED <<cancel, snap, shown, requested, met>>

\* A chunk is through.  The sender counts; a received chunk ends anywhere in
\* the file, and the largest end so far counts.
Chunk(t) ==
    /\ pc[t] = "writing"
    /\ \E end \in IF t \in Senders THEN {sent[t] + 1} ELSE 1..Chunks :
          LET done == IF end > sent[t] THEN end ELSE sent[t]
          IN /\ sent' = [sent EXCEPT ![t] = done]
             /\ Update(t, done)
    /\ PushBegins(t)
    /\ Goto(t, "running")
    /\ UNCHANGED <<cancel, snap, shown, requested, met>>

\* Seeking or writing the file failed: the peer is told, nothing else changes.
WriteFails(t) ==
    /\ t \in Receivers
    /\ pc[t] = "writing" /\ Free(t)
    /\ Goto(t, "running")
    /\ UNCHANGED <<sent, current, cancel, pushing, snap, shown, requested, met>>

\* The sender is done, or any of its steps failed; the receiver got CLOSE.
Finish(t) ==
    /\ \/ t \in Senders /\ pc[t] \in {"running", "writing", "closing"}
       \/ t \in Receivers /\ pc[t] = "running"
    /\ Free(t)
    /\ Goto(t, "finishing")
    /\ UNCHANGED <<sent, current, cancel, pushing, snap, shown, requested, met>>

\* The connection of a receiver is lost: its session is dropped, and Drop
\* looks at opening_gate only.
LoseConnection(t) ==
    /\ t \in Receivers
    /\ pc[t] \in {"running", "writing"} /\ Free(t)
    /\ Goto(t, "lost")
    /\ UNCHANGED <<sent, current, cancel, pushing, snap, shown, requested, met>>

\* `finish`, first the row.
FinishRow(t) ==
    /\ pc[t] = "finishing"
    /\ current' = Without(NameOf[t])
    /\ Goto(t, "clearing")
    /\ UNCHANGED <<sent, cancel, pushing, snap, shown, requested, met>>

\* Mutation: `finish` leaves the cancel flag alone.
FinishKeepsFlag(t) ==
    /\ pc[t] = "clearing"
    /\ PushBegins(t)
    /\ Goto(t, "ended")
    /\ UNCHANGED <<sent, current, cancel, snap, shown, requested, met>>

\* `finish`, then the flag and the push.
FinishFlag(t) ==
    /\ pc[t] = "clearing"
    /\ cancel' = cancel \ {NameOf[t]}
    /\ PushBegins(t)
    /\ Goto(t, "ended")
    /\ UNCHANGED <<sent, current, snap, shown, requested, met>>
------------------------------------------------------------------------------
(* The delete button of a row in progress. *)

Running(n) == {t \in Transfers : NameOf[t] = n /\ pc[t] \in Active}

\* Mutation: the flag is set whether or not the transfer is still listed.
RequestCancelAlways(n) ==
    /\ Free(UI)
    /\ \E r \in shown : r.name = n
    /\ current' = Without(n)
    /\ cancel' = cancel \cup {n}
    /\ requested' = requested \cup Running(n)
    /\ PushBegins(UI)
    /\ UNCHANGED <<pc, sent, snap, shown, met>>

\* `request_cancel`, one step under the lock of CURRENT: nothing happens when
\* the row that was clicked is not listed any more.
RequestCancel(n) ==
    /\ Free(UI)
    /\ \E r \in shown : r.name = n
    /\ Listed(n)
    /\ current' = Without(n)
    /\ cancel' = cancel \cup {n}
    /\ requested' = requested \cup Running(n)
    /\ PushBegins(UI)
    /\ UNCHANGED <<pc, sent, snap, shown, met>>
------------------------------------------------------------------------------
Cancelled(t) == SenderCancelled(t) \/ ReceiverCancelled(t)

TransferStep(t) ==
    \/ Start(t) \/ NotCancelled(t) \/ Cancelled(t) \/ Chunk(t) \/ WriteFails(t)
    \/ Finish(t) \/ LoseConnection(t) \/ FinishRow(t) \/ FinishFlag(t)

Next ==
    \/ \E t \in Transfers : TransferStep(t)
    \/ \E t \in Threads : ReadRows(t) \/ PostRows(t)
    \/ \E n \in Names : RequestCancel(n)

Spec == Init /\ [][Next]_vars

\* A sender polls its flag every 100 ms whatever it waits for, and runs finish
\* and push to their ends.  Nothing is assumed of the peer: a chunk may never
\* get through.
FairSpec ==
    /\ Spec
    /\ \A t \in Senders : WF_vars(SenderCancelled(t)) /\ WF_vars(FinishRow(t) \/ FinishFlag(t))
    /\ \A t \in Threads : WF_vars(ReadRows(t) \/ PostRows(t))
------------------------------------------------------------------------------
(* Safety *)

\* A transfer may leave its row or its flag behind: its connection was lost, and
\* `finish` was never called for it, or a flag stopped it, without `finish` too,
\* when another of its name was busy.
LeftBehind(t) == pc[t] = "lost" \/ (pc[t] = "aborted" /\ t \in met)
Left(n) == \E t \in Transfers : NameOf[t] = n /\ LeftBehind(t)

\* "A stale flag can never cancel a later transfer that happens to reuse the
\* name" (transfer_progress.rs:24-26): a transfer that is_cancelled stops was
\* running when the user asked for it.  The code keeps this but for two cases:
\* a transfer that shared the name with another, and one whose name has a row
\* or a flag that was left behind.
CancelHasReason ==
    [][\A t \in Transfers : Cancelled(t) => t \in requested \cup met \/ Left(NameOf[t])]_vars

\* A cancel flag waits for a transfer of its name that is not through with
\* `finish`, or is that of a row left behind: no flag outlives all those it was
\* meant for, however many of a name run at once.
FlagsHaveTransfers ==
    \A n \in cancel :
        \/ \E t \in Transfers : NameOf[t] = n /\ pc[t] \in Busy
        \/ Left(n)

\* CURRENT lists transfers in progress, in their direction unless two of a name
\* share the row, and besides only rows left behind.
RowsAreRunning ==
    \A r \in current : \E t \in Transfers :
        /\ NameOf[t] = r.name
        /\ pc[t] \in Active \/ LeftBehind(t)
        /\ t \in met \/ r.upload = (t \in Senders)

\* A transfer the user cancelled is not listed again, however its own updates
\* interleave with the request, unless another of its name runs.
CancelledStaysHidden ==
    \A t \in requested \ met : pc[t] \in Active => ~Listed(NameOf[t])

\* A transfer in progress is listed, with its own count, until the user cancels
\* it or another of its name starts: what those before it did at the end, or
\* left behind, takes nothing from it.
RunningIsListed ==
    \A t \in Transfers \ (requested \cup met) :
        pc[t] \in Active =>
            [name |-> NameOf[t], upload |-> t \in Senders, done |-> sent[t]] \in current

\* The count of a listed transfer goes back only when the next transfer of its
\* name starts, or when two of them count in one row: out-of-order writes of a
\* received file do not make its bar jump.
CountsNeverShrink ==
    [][\A r \in current, s \in current' :
          r.name = s.name /\ r.upload = s.upload =>
              \/ s.done >= r.done
              \/ \E t \in Transfers :
                    NameOf[t] = r.name /\ (Start(t) \/ (t \in met /\ Chunk(t)))]_vars
------------------------------------------------------------------------------
(* The list it implements *)

\* How far a transfer is as the user knows it.
Phase(t) ==
    CASE pc[t] = "idle" -> "new"
      [] pc[t] \in Active -> IF t \in met THEN "shared"
                             ELSE IF t \in requested THEN "hidden" ELSE "listed"
      [] pc[t] = "clearing" -> "ending"
      [] LeftBehind(t) -> "left"
      [] OTHER -> "over"

List == INSTANCE TransferList WITH
    Uploads <- Senders,
    Length <- Chunks,
    phase <- [t \in Transfers |-> Phase(t)],
    count <- sent,
    rows <- current

\* The maps, their flags and the threads keep what TransferList promises: a
\* transfer that shares its name with no other has its own row until the user
\* deletes it, then none, and only a deleted one is cut short.
ImplementsList == List!Spec
------------------------------------------------------------------------------
(* Liveness *)

\* "The transfer loop observes the flag and stops" (transfer_progress.rs:70-73),
\* also while it waits for a peer that never answers (ssh_send.rs:194-196),
\* unless it shares its name: then the other transfer may take the flag.
CancelStops == \A t \in Senders : t \in requested ~> pc[t] \in Ended \/ t \in met
=============================================================================
