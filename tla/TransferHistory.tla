--------------------------- MODULE TransferHistory ---------------------------
(* What becomes of the outcomes of sent files and of the transfer history:    *)
(* the send threads of src/pages/explorer.rs, the upload_result state with    *)
(* its effect and the history reducer in src/main.rs, and save_history and    *)
(* load_history in src/pages/transfer.rs.                                     *)
(*                                                                            *)
(* Outcomes reach the UI as values: each one posted is rendered, and the      *)
(* effect runs when the value differs from the one rendered before.  The      *)
(* history is kept as the number of rows of each kind: of their order only    *)
(* the page knows.                                                            *)
EXTENDS Naturals, FiniteSets, Sequences

CONSTANTS Sends,       \* uses of the send button of a file
          Names,       \* file names
          NameOf,      \* [Sends -> Names]
          Nothing,     \* no outcome: the bar is hidden
          MaxHistory   \* bound: recorded downloads of a file

ASSUME HistoryConstants ==
    /\ NameOf \in [Sends -> Names]
    /\ Nothing \notin Sends
    /\ MaxHistory \in Nat

VARIABLES
    pc,       \* [Sends -> control state of the send thread]
    inbox,    \* what has been posted to the UI thread, and by whom
    result,   \* upload_result, and the send it came from
    timers,   \* sends whose dismissal thread sleeps
    history,  \* transfer_history: [TransferRecords -> number of rows]
    saved,    \* history.txt
    dirty,    \* the effect that saves the history is due
    saving,   \* save_history has emptied the file and not yet written it
    shown,    \* history variable: delivered sends whose outcome was rendered
    removed,  \* history variable: those whose record the user removed, or
              \* whose record was not in the file when the app ended
    onDisk    \* history variable: those whose record history.txt holds

vars == <<pc, inbox, result, timers, history, saved, dirty, saving, shown, removed, onDisk>>

Directions == {"Uploaded", "Downloaded"}
TransferRecords == [name : Names, direction : Directions]
Uploaded(n) == [name |-> n, direction |-> "Uploaded"]
Downloaded(n) == [name |-> n, direction |-> "Downloaded"]
NoRecords == [r \in TransferRecords |-> 0]

\* UploadOutcome; an error's message names the file.
Outcomes == [ok : BOOLEAN, name : Names]
Hidden == [value |-> Nothing, by |-> Nothing]
Posts == [value : Outcomes \cup {Nothing}, by : Sends \cup {Nothing}]

TypeOK ==
    /\ pc \in [Sends -> {"idle", "sending", "done"}]
    /\ inbox \in Seq(Posts)
    /\ result \in Posts
    /\ timers \subseteq Sends
    /\ history \in [TransferRecords -> Nat]
    /\ saved \in [TransferRecords -> Nat]
    /\ dirty \in BOOLEAN
    /\ saving \in BOOLEAN
    /\ removed \subseteq shown /\ shown \subseteq Sends
    /\ onDisk \subseteq shown

Init ==
    /\ pc = [s \in Sends |-> "idle"]
    /\ inbox = <<>>
    /\ result = Hidden
    /\ timers = {}
    /\ history = NoRecords
    /\ saved = NoRecords
    /\ dirty = TRUE
    /\ saving = FALSE
    /\ shown = {}
    /\ removed = {}
    /\ onDisk = {}

file == <<saved, saving, onDisk>>
------------------------------------------------------------------------------
(* A send thread, and the thread that dismisses its bar after 5 s. *)

Send(s) ==
    /\ pc[s] = "idle"
    /\ pc' = [pc EXCEPT ![s] = "sending"]
    /\ UNCHANGED <<inbox, result, timers, history, dirty, file, shown, removed>>

\* send_file has returned, or the device picked was not in the list any more.
SendEnds(s) ==
    /\ pc[s] = "sending"
    /\ pc' = [pc EXCEPT ![s] = "done"]
    /\ \E ok \in BOOLEAN :
          inbox' = Append(inbox, [value |-> [ok |-> ok, name |-> NameOf[s]], by |-> s])
    /\ UNCHANGED <<result, timers, history, dirty, file, shown, removed>>

Dismiss(s) ==
    /\ s \in timers
    /\ timers' = timers \ {s}
    /\ inbox' = Append(inbox, [value |-> Nothing, by |-> s])
    /\ UNCHANGED <<pc, result, history, dirty, file, shown, removed>>
------------------------------------------------------------------------------
(* The UI thread: renders, the effects they run, and the user's clicks.       *)

UIFree == ~saving

Push(r) == history' = [history EXCEPT ![r] = @ + 1]

\* Mutation: the effect does not look at the kind of outcome.
EffectOfAny(post) ==
    /\ timers' = timers \cup {post.by}
    /\ Push(Uploaded(post.value.name))

\* Mutation: only a success bar is dismissed.
EffectSuccessOnly(post) ==
    IF post.value.ok
    THEN /\ Push(Uploaded(post.value.name))
         /\ timers' = timers \cup {post.by}
    ELSE UNCHANGED <<timers, history>>

\* The effect on a new outcome: MarkUploaded, and the thread for the dismissal.
Effect(post) ==
    /\ timers' = timers \cup {post.by}
    /\ IF post.value.ok THEN Push(Uploaded(post.value.name)) ELSE UNCHANGED history

Render ==
    /\ UIFree
    /\ inbox # <<>>
    /\ inbox' = Tail(inbox)
    /\ LET post == Head(inbox)
       IN IF post.value = result.value
          THEN UNCHANGED <<result, timers, history>>
          ELSE /\ result' = IF post.value = Nothing THEN Hidden ELSE post
               /\ IF post.value = Nothing THEN UNCHANGED <<timers, history>>
                                          ELSE Effect(post)
    /\ shown' = IF Head(inbox).value # Nothing /\ Head(inbox).value.ok
                THEN shown \cup {Head(inbox).by} ELSE shown
    /\ dirty' = (dirty \/ history' # history)
    /\ UNCHANGED <<pc, file, removed>>

\* An incoming upload was accepted.
MarkDownloaded(n) ==
    /\ UIFree
    /\ history[Downloaded(n)] < MaxHistory
    /\ Push(Downloaded(n))
    /\ dirty' = TRUE
    /\ UNCHANGED <<pc, inbox, result, timers, file, shown, removed>>

Forgotten(r) == IF r.direction = "Uploaded" THEN {s \in shown : NameOf[s] = r.name} ELSE {}

\* Mutation: the record's direction is not looked at.
RemoveName(r) ==
    /\ UIFree
    /\ history[r] > 0
    /\ history' = [h \in TransferRecords |-> IF h.name = r.name THEN 0 ELSE history[h]]
    /\ removed' = removed \cup Forgotten(r)
    /\ dirty' = TRUE
    /\ UNCHANGED <<pc, inbox, result, timers, file, shown>>

\* The delete button of a row removes every record of its name and direction.
RemoveRecord(r) ==
    /\ UIFree
    /\ history[r] > 0
    /\ history' = [history EXCEPT ![r] = 0]
    /\ removed' = removed \cup Forgotten(r)
    /\ dirty' = TRUE
    /\ UNCHANGED <<pc, inbox, result, timers, file, shown>>

\* save_history: fs::write empties the file, then fills it.
SaveBegins ==
    /\ dirty /\ ~saving
    /\ dirty' = FALSE
    /\ saving' = TRUE
    /\ saved' = NoRecords
    /\ onDisk' = {}
    /\ UNCHANGED <<pc, inbox, result, timers, history, shown, removed>>

SaveEnds ==
    /\ saving
    /\ saving' = FALSE
    /\ saved' = history
    /\ onDisk' = shown \ removed
    /\ UNCHANGED <<pc, inbox, result, timers, history, dirty, shown, removed>>

\* The app ends, with all its threads, and starts again: load_history, and the
\* first render saves what was loaded.  It may end in the middle of a save.
Restart ==
    /\ pc' = [s \in Sends |-> IF pc[s] = "sending" THEN "done" ELSE pc[s]]
    /\ inbox' = <<>>
    /\ result' = Hidden
    /\ timers' = {}
    /\ history' = saved
    /\ dirty' = TRUE
    /\ saving' = FALSE
    /\ removed' = shown \ onDisk
    /\ UNCHANGED <<saved, shown, onDisk>>
------------------------------------------------------------------------------
Next ==
    \/ \E s \in Sends : Send(s) \/ SendEnds(s) \/ Dismiss(s)
    \/ Render
    \/ \E n \in Names : MarkDownloaded(n)
    \/ \E r \in TransferRecords : RemoveRecord(r)
    \/ SaveBegins \/ SaveEnds
    \/ Restart

Spec == Init /\ [][Next]_vars

\* The dismissal threads wake up, and the UI thread serves its queue in order:
\* other events delay what is posted, they do not keep it from being handled.
FairSpec ==
    /\ Spec
    /\ \A s \in Sends : WF_vars(Dismiss(s))
    /\ SF_vars(Render)
    /\ WF_vars(SaveBegins \/ SaveEnds)
------------------------------------------------------------------------------
(* Safety *)

Delivered(n) == {s \in shown : NameOf[s] = n}

Kept(n) == Delivered(n) \ removed

\* The history never holds more uploads of a file than were delivered and not
\* removed: no failed send, dismissal, download or restart makes a record.
NoPhantomUpload == \A n \in Names : history[Uploaded(n)] <= Cardinality(Kept(n))

\* "Success is recorded in Transfer history" (main.rs:200): a delivered file has
\* a record until a row of its name and direction is deleted, or the app ends
\* before the history is written (save_history, transfer.rs:54-55).  One record
\* may stand for several deliveries: a second success of the same name, while
\* the first is shown, is the same value and is not recorded.
SuccessRecorded ==
    \A n \in Names :
        Delivered(n) # {} /\ Kept(n) = Delivered(n) => history[Uploaded(n)] > 0
------------------------------------------------------------------------------
(* Liveness *)

\* Every bar goes away without the user: no outcome stays up for ever, however
\* outcomes, dismissals and saves interleave.
BarGoes == result # Hidden ~> result = Hidden
=============================================================================
