---------------------------- MODULE UploadConsent ----------------------------
(* What the confirmation of incoming uploads promises, whatever threads and   *)
(* queues carry it out: a file is written where the user's first verdict on   *)
(* that very upload said, and nowhere when there is no such verdict.  The one *)
(* exception the code makes is an upload that arrives before the UI is ready: *)
(* it is written without a question (`open_direct`).                          *)
(* UploadGate, the model of the code, implements this specification.          *)

CONSTANTS Uploads,      \* SFTP opens made by the peers
          Folders,      \* folders the user may pick
          Reject,       \* the verdict "decline"
          NoDecision    \* no verdict yet

VARIABLES ready,        \* the UI can show questions
          status,       \* how far each upload is
          verdict,      \* the user's first verdict on each upload
          place         \* the folder an upload was written to

vars == <<ready, status, verdict, place>>

Init ==
    /\ ready = FALSE
    /\ status = [u \in Uploads |-> "new"]
    /\ verdict = [u \in Uploads |-> NoDecision]
    /\ place = [u \in Uploads |-> NoDecision]

BecomeReady ==
    /\ ready' = TRUE
    /\ UNCHANGED <<status, verdict, place>>

Ask(u) ==
    /\ ready
    /\ status[u] = "new"
    /\ status' = [status EXCEPT ![u] = "asked"]
    /\ UNCHANGED <<ready, verdict, place>>

Bypass(u) ==
    /\ ~ready
    /\ status[u] = "new"
    /\ status' = [status EXCEPT ![u] = "unconfirmed"]
    /\ UNCHANGED <<ready, verdict, place>>

\* Only the first verdict counts: any later one changes nothing.
Answer(u) ==
    /\ status[u] \in {"asked", "saved", "refused"}
    /\ verdict[u] = NoDecision
    /\ \E d \in Folders \cup {Reject} : verdict' = [verdict EXCEPT ![u] = d]
    /\ UNCHANGED <<ready, status, place>>

Save(u) ==
    /\ status[u] = "asked"
    /\ verdict[u] \in Folders
    /\ status' = [status EXCEPT ![u] = "saved"]
    /\ place' = [place EXCEPT ![u] = verdict[u]]
    /\ UNCHANGED <<ready, verdict>>

\* A rejection, no answer in time, a lost connection or a file error.
Refuse(u) ==
    /\ status[u] \in {"asked", "unconfirmed"}
    /\ status' = [status EXCEPT ![u] = "refused"]
    /\ UNCHANGED <<ready, verdict, place>>

Next ==
    \/ BecomeReady
    \/ \E u \in Uploads : Ask(u) \/ Bypass(u) \/ Answer(u) \/ Save(u) \/ Refuse(u)

Spec == Init /\ [][Next]_vars
=============================================================================
