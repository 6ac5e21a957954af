------------------------------ MODULE UploadGate ------------------------------
(* The confirmation of incoming uploads: src/tools/upload_gate.rs, its server *)
(* side in src/tools/ssh_server.rs (SftpSession) and its user interface side  *)
(* in src/main.rs.                                                            *)
(*                                                                            *)
(* A server thread runs SftpSession::open for each upload; the UI thread      *)
(* shows one dialog at a time.  They share three mutexes (REPLIES, PENDING,   *)
(* SETTER), each held for one access only, and a step of the model is the     *)
(* code between two such accesses.  The queue reaches the UI as snapshots:    *)
(* push_queue reads PENDING under its lock and posts what it read after the   *)
(* lock is released.                                                          *)
(*                                                                            *)
(* An upload stands for its own id: NEXT_ID.fetch_add never gives out an id   *)
(* twice, and the ids are compared and looked up, nothing else.               *)
EXTENDS Naturals, SequencesExt

CONSTANTS Uploads,        \* calls of SftpSession::open, one per upload
          Folders,        \* folders the user may pick
          Reject,         \* UploadDecision::Reject
          NoDecision,     \* await_decision returned None, or has not returned
          Nobody,         \* no upload: no dialog or no picker is open
          UI,             \* the UI thread
          MayDisconnect   \* whether clients lose their connection

ASSUME GateConstants ==
    /\ Reject \notin Folders
    /\ NoDecision \notin Folders \cup {Reject}
    /\ Nobody \notin Uploads
    /\ UI \notin Uploads
    /\ MayDisconnect \in BOOLEAN

VARIABLES
    pc,        \* [Uploads -> control state of SftpSession::open]
    setter,    \* SETTER: the UI has installed its state setter
    replies,   \* REPLIES: the uploads whose reply channel is registered
    chan,      \* [Uploads -> the decisions sent into the reply channel]
    decision,  \* [Uploads -> what await_decision returned]
    pending,   \* PENDING
    pushing,   \* [Threads -> where the thread is in push_queue]
    snap,      \* [Threads -> the snapshot push_queue has read]
    inbox,     \* snapshots posted to the UI thread, not yet rendered
    incoming,  \* the queue as last rendered by the UI
    dialog,    \* the upload whose confirmation dialog is up
    picker,    \* the upload whose folder picker is open
    ui,        \* control state of the UI thread
    target,    \* the upload the UI thread is answering
    choice,    \* the answer the UI thread is giving
    marked,    \* uploads recorded as downloaded in the transfer history
    answers    \* history variable: every answer the user gave on an upload

server == <<pc, decision>>
screen == <<inbox, incoming, dialog, picker>>
thread == <<ui, target, choice>>
vars == <<pc, setter, replies, chan, decision, pending, pushing, snap,
          inbox, incoming, dialog, picker, ui, target, choice, marked, answers>>

Threads == Uploads \cup {UI}
Decisions == Folders \cup {Reject}

\* Reply channel registered, SETTER not yet looked at; reply channel in use;
\* `fail_upload` under way; and the ways an open ends.
OpenStates == {"idle", "registered", "fallback", "waiting", "decided", "saving",
               "failing", "direct", "opened", "refused", "gone"}
Ended == {"direct", "opened", "refused", "gone"}

FrontOf(queue) == IF queue = <<>> THEN Nobody ELSE queue[1]

TypeOK ==
    /\ pc \in [Uploads -> OpenStates]
    /\ setter \in BOOLEAN
    /\ replies \in SUBSET Uploads
    /\ chan \in [Uploads -> Seq(Decisions)]
    /\ decision \in [Uploads -> Decisions \cup {NoDecision}]
    /\ pending \in Seq(Uploads)
    /\ pushing \in [Threads -> {"no", "read", "post"}]
    /\ snap \in [Threads -> Seq(Uploads)]
    /\ inbox \in Seq(Seq(Uploads))
    /\ incoming \in Seq(Uploads)
    /\ dialog \in Uploads \cup {Nobody}
    /\ picker \in Uploads \cup {Nobody}
    /\ ui \in {"starting", "idle", "replying", "advancing"}
    /\ target \in Uploads \cup {Nobody}
    /\ choice \in Decisions \cup {NoDecision}
    /\ ui = "replying" => target # Nobody /\ choice # NoDecision
    /\ marked \in SUBSET Uploads
    /\ answers \in [Uploads -> Seq(Decisions)]

Init ==
    /\ pc = [u \in Uploads |-> "idle"]
    /\ setter = FALSE
    /\ replies = {}
    /\ chan = [u \in Uploads |-> <<>>]
    /\ decision = [u \in Uploads |-> NoDecision]
    /\ pending = <<>>
    /\ pushing = [t \in Threads |-> "no"]
    /\ snap = [t \in Threads |-> <<>>]
    /\ inbox = <<>>
    /\ incoming = <<>>
    /\ dialog = Nobody
    /\ picker = Nobody
    /\ ui = "starting"
    /\ target = Nobody
    /\ choice = NoDecision
    /\ marked = {}
    /\ answers = [u \in Uploads |-> <<>>]
------------------------------------------------------------------------------
(* push_queue, on whatever thread calls it. *)

\* SETTER is installed wherever the code gets this far: submit_upload has just
\* seen it, and only the dialog it feeds leads to `advance`.
ReadQueue(t) ==
    /\ pushing[t] = "read"
    /\ snap' = [snap EXCEPT ![t] = pending]
    /\ pushing' = [pushing EXCEPT ![t] = "post"]
    /\ UNCHANGED <<server, screen, thread, setter, replies, chan, pending, marked, answers>>

PostQueue(t) ==
    /\ pushing[t] = "post"
    /\ inbox' = Append(inbox, snap[t])
    /\ snap' = [snap EXCEPT ![t] = <<>>]
    /\ pushing' = [pushing EXCEPT ![t] = "no"]
    /\ UNCHANGED <<server, thread, setter, replies, chan, pending, incoming,
                   dialog, picker, marked, answers>>
------------------------------------------------------------------------------
(* The server thread of upload u. *)

Goto(u, state) == pc' = [pc EXCEPT ![u] = state]

Free(u) == pushing[u] = "no"

Register(u) ==
    /\ pc[u] = "idle"
    /\ replies' = replies \cup {u}
    /\ Goto(u, "registered")
    /\ UNCHANGED <<screen, thread, setter, chan, decision, pending, pushing,
                   snap, marked, answers>>

SubmitReady(u) ==
    /\ pc[u] = "registered"
    /\ setter
    /\ pending' = Append(pending, u)
    /\ pushing' = [pushing EXCEPT ![u] = "read"]
    /\ Goto(u, "waiting")
    /\ UNCHANGED <<screen, thread, setter, replies, chan, decision, snap, marked, answers>>

\* Mutation: the reply channel stays behind.
SubmitNotReadyLeaks(u) ==
    /\ pc[u] = "registered"
    /\ ~setter
    /\ Goto(u, "fallback")
    /\ UNCHANGED <<screen, thread, setter, replies, chan, decision, pending,
                   pushing, snap, marked, answers>>

SubmitNotReady(u) ==
    /\ pc[u] = "registered"
    /\ ~setter
    /\ replies' = replies \ {u}
    /\ Goto(u, "fallback")
    /\ UNCHANGED <<screen, thread, setter, chan, decision, pending, pushing,
                   snap, marked, answers>>

\* The file is created in the share root, or creating it fails.
OpenDirect(u) ==
    /\ pc[u] = "fallback"
    /\ \E end \in {"direct", "refused"} : Goto(u, end)
    /\ UNCHANGED <<screen, thread, setter, replies, chan, decision, pending,
                   pushing, snap, marked, answers>>

\* Mutation: the last decision in the channel, not the first.
ReceiveLast(u) ==
    /\ pc[u] = "waiting" /\ Free(u)
    /\ chan[u] # <<>>
    /\ decision' = [decision EXCEPT ![u] = chan[u][Len(chan[u])]]
    /\ Goto(u, "decided")
    /\ UNCHANGED <<screen, thread, setter, replies, chan, pending, pushing,
                   snap, marked, answers>>

Receive(u) ==
    /\ pc[u] = "waiting" /\ Free(u)
    /\ chan[u] # <<>>
    /\ decision' = [decision EXCEPT ![u] = Head(chan[u])]
    /\ Goto(u, "decided")
    /\ UNCHANGED <<screen, thread, setter, replies, chan, pending, pushing,
                   snap, marked, answers>>

\* Mutation: the poll has no deadline.
NoDeadline(u) ==
    /\ FALSE
    /\ UNCHANGED vars

\* 600 s without an answer: await_decision returns None.
Timeout(u) ==
    /\ pc[u] = "waiting" /\ Free(u)
    /\ chan[u] = <<>>
    /\ Goto(u, "decided")
    /\ UNCHANGED <<screen, thread, setter, replies, chan, decision, pending,
                   pushing, snap, marked, answers>>

\* Mutation: anything but a rejection is saved, also no answer.
RemoveUploadUnlessRejected(u) ==
    /\ pc[u] = "decided"
    /\ replies' = replies \ {u}
    /\ Goto(u, IF decision[u] # Reject THEN "saving" ELSE "refused")
    /\ UNCHANGED <<screen, thread, setter, chan, decision, pending, pushing,
                   snap, marked, answers>>

\* remove_upload, and the match on the decision that follows.
RemoveUpload(u) ==
    /\ pc[u] = "decided"
    /\ replies' = replies \ {u}
    /\ Goto(u, IF decision[u] \in Folders THEN "saving" ELSE "refused")
    /\ UNCHANGED <<screen, thread, setter, chan, decision, pending, pushing,
                   snap, marked, answers>>

\* The file is created in the folder picked, or creating it fails.
SaveFile(u) ==
    /\ pc[u] = "saving"
    /\ \E end \in {"opened", "refused"} : Goto(u, end)
    /\ UNCHANGED <<screen, thread, setter, replies, chan, decision, pending,
                   pushing, snap, marked, answers>>

\* The connection is lost and the session is dropped at an await of `open`:
\* only while the answer is awaited is there an upload to fail
\* (opening_gate), and its reply channel goes first.
DropSession(u) ==
    /\ MayDisconnect
    /\ \/ /\ pc[u] = "waiting" /\ Free(u)
          /\ replies' = replies \ {u}
          /\ Goto(u, "failing")
       \/ /\ pc[u] \in {"fallback", "saving"}
          /\ Goto(u, "gone")
          /\ UNCHANGED replies
    /\ UNCHANGED <<screen, thread, setter, chan, decision, pending, pushing,
                   snap, marked, answers>>

\* `retain` in fail_upload.  An upload is queued at most once.
FailUpload(u) ==
    /\ pc[u] = "failing"
    /\ \/ u \notin ToSet(pending) /\ UNCHANGED pending
       \/ \E i \in DOMAIN pending : pending[i] = u /\ pending' = RemoveAt(pending, i)
    /\ pushing' = [pushing EXCEPT ![u] = "read"]
    /\ Goto(u, "gone")
    /\ UNCHANGED <<screen, thread, setter, replies, chan, decision, snap, marked, answers>>
------------------------------------------------------------------------------
(* The UI thread: it handles one event at a time, to its end. *)

UIFree == ui = "idle" /\ pushing[UI] = "no"

InstallSetter ==
    /\ ui = "starting"
    /\ setter' = TRUE
    /\ pushing' = [pushing EXCEPT ![UI] = "read"]
    /\ ui' = "idle"
    /\ UNCHANGED <<server, screen, replies, chan, pending, snap, target, choice,
                   marked, answers>>

\* The state setter's value reaches `app`, which renders the dialog for the
\* front of the queue.  A render that leaves the front as it was changes
\* nothing in the dialog, in particular it does not reopen a closed one.
Render ==
    /\ UIFree
    /\ inbox # <<>>
    /\ inbox' = Tail(inbox)
    /\ incoming' = Head(inbox)
    /\ dialog' = IF FrontOf(incoming') = FrontOf(incoming) THEN dialog
                                                           ELSE FrontOf(incoming')
    /\ UNCHANGED <<server, thread, setter, replies, chan, pending, pushing, snap,
                   picker, marked, answers>>

\* The folder picker is modal to the window, so no dialog is answered meanwhile.
DialogUp == UIFree /\ dialog # Nobody /\ picker = Nobody

\* The user's word on upload u, about to be passed to reply.
Say(u, d) ==
    /\ target' = u
    /\ choice' = d
    /\ answers' = [answers EXCEPT ![u] = Append(@, d)]
    /\ ui' = "replying"

\* The dialog is closed with anything but the primary button.
CancelDialog ==
    /\ DialogUp
    /\ Say(dialog, Reject)
    /\ dialog' = Nobody
    /\ UNCHANGED <<server, setter, replies, chan, pending, pushing, snap, inbox,
                   incoming, picker, marked>>

\* "Save…": the history gets its record, then the folder picker opens.
AcceptDialog ==
    /\ DialogUp
    /\ marked' = marked \cup {dialog}
    /\ picker' = dialog
    /\ dialog' = Nobody
    /\ UNCHANGED <<server, thread, setter, replies, chan, pending, pushing, snap,
                   inbox, incoming, answers>>

\* A folder, or Reject when the picker was cancelled or failed to open.
PickerDone ==
    /\ UIFree
    /\ picker # Nobody
    /\ \E d \in Decisions : Say(picker, d)
    /\ picker' = Nobody
    /\ UNCHANGED <<server, setter, replies, chan, pending, pushing, snap, inbox,
                   incoming, dialog, marked>>

\* Mutation: the answer goes to the upload at the front of PENDING.
ReplyToFront ==
    /\ ui = "replying"
    /\ LET u == FrontOf(pending)
       IN chan' = IF u \in replies THEN [chan EXCEPT ![u] = Append(@, choice)] ELSE chan
    /\ ui' = "advancing"
    /\ UNCHANGED <<server, screen, setter, replies, pending, pushing, snap,
                   target, choice, marked, answers>>

\* `reply`: lost when the upload has no reply channel any more.  What is sent
\* after await_decision has returned is never received either.
Reply ==
    /\ ui = "replying"
    /\ chan' = IF target \in replies
               THEN [chan EXCEPT ![target] = Append(@, choice)] ELSE chan
    /\ ui' = "advancing"
    /\ UNCHANGED <<server, screen, setter, replies, pending, pushing, snap,
                   target, choice, marked, answers>>

\* `advance` drops the front of PENDING, whichever upload that is by now.
Advance ==
    /\ ui = "advancing"
    /\ pending' = IF pending = <<>> THEN <<>> ELSE Tail(pending)
    /\ pushing' = [pushing EXCEPT ![UI] = "read"]
    /\ ui' = "idle"
    /\ target' = Nobody
    /\ choice' = NoDecision
    /\ UNCHANGED <<server, screen, setter, replies, chan, snap, marked, answers>>
------------------------------------------------------------------------------
ServerStep(u) ==
    \/ Register(u) \/ SubmitReady(u) \/ SubmitNotReady(u) \/ OpenDirect(u)
    \/ ReadQueue(u) \/ PostQueue(u)
    \/ Receive(u) \/ Timeout(u) \/ RemoveUpload(u) \/ SaveFile(u) \/ FailUpload(u)

UIStep == InstallSetter \/ ReadQueue(UI) \/ PostQueue(UI) \/ Render \/ Reply \/ Advance

UserStep == CancelDialog \/ AcceptDialog \/ PickerDone

Next ==
    \/ \E u \in Uploads : ServerStep(u) \/ DropSession(u)
    \/ UIStep
    \/ UserStep

Spec == Init /\ [][Next]_vars

\* Threads are scheduled; nothing is assumed of the user or of the network.
\* Register is the peer's OPEN, which no peer has to send.
FairSpec ==
    /\ Spec
    /\ \A u \in Uploads : WF_vars(pc[u] # "idle" /\ ServerStep(u))
    /\ WF_vars(UIStep)
------------------------------------------------------------------------------
(* Safety *)

\* An open ends in the folder of the user's first answer about that very
\* upload, or without a file: no answer given for another upload, no later
\* answer and no silence decides it, however snapshots, time-outs and lost
\* connections interleave.  (upload_gate::reply, await_decision, open)
DecisionIsFirstAnswer ==
    \A u \in Uploads :
        /\ decision[u] # NoDecision => answers[u] # <<>> /\ decision[u] = Head(answers[u])
        /\ pc[u] \in {"saving", "opened"} => decision[u] \in Folders

\* A reply channel is registered exactly from the submission of an upload to
\* the end of its wait: a waiting open can be answered, and no exit - UI not
\* ready, answer, time-out, lost connection - leaves a channel behind.
RepliesAreTheWaiting ==
    replies = {u \in Uploads : pc[u] \in {"registered", "waiting", "decided"}}

\* The open has not put its upload into PENDING, or never will.
Unsubmitted == {"idle", "registered", "fallback", "direct"}

\* An upload is in PENDING at most once, so `retain` removes one entry, and
\* only after it was submitted.
QueuedOnce ==
    /\ \A i, j \in DOMAIN pending : pending[i] = pending[j] => i = j
    /\ \A i \in DOMAIN pending : pc[pending[i]] \notin Unsubmitted

\* The places through which an upload travels to the user and back.
OnItsWay(u) ==
    \/ u \in ToSet(pending)
    \/ \E t \in Threads : u \in ToSet(snap[t])
    \/ \E k \in DOMAIN inbox : u \in ToSet(inbox[k])
    \/ u \in ToSet(incoming)
    \/ u \in {dialog, picker, target}

\* Nothing is known, asked or answered of an upload before it is submitted.
UnknownUntilSubmitted ==
    \A u \in Uploads :
        pc[u] \in Unsubmitted => ~OnItsWay(u) /\ answers[u] = <<>> /\ chan[u] = <<>>

\* While the server waits, its channel holds every answer given so far but the
\* one the UI thread is about to send.
ChannelHoldsAnswers ==
    \A u \in Uploads :
        pc[u] = "waiting" =>
            /\ decision[u] = NoDecision
            /\ answers[u] = IF ui = "replying" /\ target = u
                            THEN Append(chan[u], choice) ELSE chan[u]

UndecidedBefore ==
    \A u \in Uploads : pc[u] \in Unsubmitted => decision[u] = NoDecision

\* The inductive invariant behind the three safety properties above.
GateInv ==
    /\ TypeOK
    /\ RepliesAreTheWaiting
    /\ UnknownUntilSubmitted
    /\ QueuedOnce
    /\ UndecidedBefore
    /\ ChannelHoldsAnswers
    /\ DecisionIsFirstAnswer

\* Every file saved by way of the gate is in the transfer history, which the
\* dialog records ("fired when an incoming upload is accepted", transfer.rs:42)
\* before the picker has decided.  The converse does not hold: a cancelled
\* picker rejects an upload whose record stays.
SavedIsRecorded == \A u \in Uploads : pc[u] = "opened" => u \in marked

\* An upload leaves PENDING only answered, or because its own connection
\* failed: the uploads "are each confirmed in turn" (upload_gate.rs:2-5).
NoUploadSkipped ==
    [][\A u \in Uploads :
          u \in ToSet(pending) /\ u \notin ToSet(pending') =>
              answers[u] # <<>> \/ pc[u] = "failing"]_vars
------------------------------------------------------------------------------
(* Liveness *)

\* Every open that asked the user returns to the peer, answered or not: the
\* wait has a deadline and does not depend on the user or on other uploads.
OpenReturns == \A u \in Uploads : pc[u] = "registered" ~> pc[u] \in Ended
------------------------------------------------------------------------------
(* What the gate promises: UploadConsent. *)

ConsentStatus(u) ==
    CASE pc[u] \in {"idle", "registered"}                       -> "new"
      [] pc[u] \in {"waiting", "decided", "saving", "failing"}  -> "asked"
      [] pc[u] \in {"fallback", "direct"}                       -> "unconfirmed"
      [] pc[u] = "opened"                                        -> "saved"
      [] pc[u] \in {"refused", "gone"}                          -> "refused"

ConsentVerdict(u) == IF answers[u] = <<>> THEN NoDecision ELSE Head(answers[u])

ConsentPlace(u) == IF pc[u] = "opened" THEN decision[u] ELSE NoDecision

Consent == INSTANCE UploadConsent WITH
    ready   <- setter,
    status  <- [u \in Uploads |-> ConsentStatus(u)],
    verdict <- [u \in Uploads |-> ConsentVerdict(u)],
    place   <- [u \in Uploads |-> ConsentPlace(u)]

\* Every behaviour of the gate is one the abstract confirmation allows.
ImplementsConsent == Consent!Spec
=============================================================================
