----------------------------- MODULE TransferList -----------------------------
(* What the list of transfers in progress promises the user, whatever flags,  *)
(* threads and snapshots carry it out.  A transfer whose name no other has    *)
(* meanwhile is listed with its own count from its start to its end; deleting *)
(* its row hides it for good, and only a transfer so deleted is cut short.    *)
(* Transfers of one name at the same time share one row and one request to    *)
(* cancel.  Rows of files whose connection was lost stay, as does that of one *)
(* that was cut short while another of its name was there; deleting such a    *)
(* row may cut short a later file of the same name.                           *)
(* TransferProgress, the model of the code, implements this specification.    *)
EXTENDS Naturals

CONSTANTS Transfers,    \* sent and received files
          Uploads,      \* the sent ones
          NameOf,       \* the name each is listed under
          Length        \* of every file

VARIABLES phase,        \* how far each transfer is, as the user knows it
          count,        \* how much of each is through
          rows          \* the list

vars == <<phase, count, rows>>

Row(t, n) == [name |-> NameOf[t], upload |-> t \in Uploads, done |-> n]

RowsWithout(n) == {r \in rows : r.name # n}

SameName(t) == {o \in Transfers : NameOf[o] = NameOf[t]}

InProgress == {"listed", "hidden", "shared"}

\* One that is ending has no row any more, but may take a request to cancel.
Present == InProgress \cup {"ending"}

Init ==
    /\ phase = [t \in Transfers |-> "new"]
    /\ count = [t \in Transfers |-> 0]
    /\ rows = {}

Enter(t, p) == phase' = [phase EXCEPT ![t] = p]

Listing(t) == rows' = RowsWithout(NameOf[t]) \cup {Row(t, count[t])}

\* A row of that name that was left behind is replaced.
Begin(t) ==
    /\ phase[t] = "new"
    /\ \A o \in SameName(t) : phase[o] \notin Present
    /\ Enter(t, "listed")
    /\ Listing(t)
    /\ UNCHANGED count

\* Another of its name is there.
Join(t) ==
    /\ phase[t] = "new"
    /\ \E o \in SameName(t) : phase[o] \in Present
    /\ phase' = [o \in Transfers |->
                    IF o = t \/ (o \in SameName(t) /\ phase[o] \in InProgress)
                    THEN "shared" ELSE phase[o]]
    /\ Listing(t)
    /\ UNCHANGED count

\* More of the file is through, which its own row shows, or the row it shares.
Advance(t) ==
    /\ phase[t] \in InProgress
    /\ \E n \in count[t]..Length :
          /\ count' = [count EXCEPT ![t] = n]
          /\ \/ phase[t] = "listed" /\ rows' = RowsWithout(NameOf[t]) \cup {Row(t, n)}
             \/ phase[t] = "hidden" /\ rows' = rows
             \/ phase[t] = "shared"
                /\ rows' = {IF r.name = NameOf[t] THEN [r EXCEPT !.done = n] ELSE r : r \in rows}
    /\ UNCHANGED phase

\* The user deletes the row of that name.
Delete(n) ==
    /\ rows' = RowsWithout(n)
    /\ phase' = [t \in Transfers |->
                    IF NameOf[t] = n /\ phase[t] = "listed" THEN "hidden" ELSE phase[t]]
    /\ UNCHANGED count

\* Complete or failed: the row goes with the transfer.
End(t) ==
    /\ phase[t] \in {"listed", "shared"}
    /\ Enter(t, "ending")
    /\ rows' = RowsWithout(NameOf[t])
    /\ UNCHANGED count

\* A deleted transfer stops, the list stays as it is.
Stop(t) ==
    /\ phase[t] = "hidden"
    /\ Enter(t, "ending") \/ (t \notin Uploads /\ Enter(t, "over"))
    /\ UNCHANGED <<count, rows>>

Ended(t) ==
    /\ phase[t] = "ending"
    /\ Enter(t, "over")
    /\ UNCHANGED <<count, rows>>

\* The connection is lost; the row stays if there is one.
Lose(t) ==
    /\ t \notin Uploads
    /\ phase[t] \in InProgress
    /\ Enter(t, "left")
    /\ UNCHANGED <<count, rows>>

\* A received file is cut short by what was meant for one it shares its name
\* with, or for one before it that left its row behind.  Its own row stays.
CutShort(t) ==
    /\ t \notin Uploads
    /\ \/ phase[t] = "shared" /\ Enter(t, "left")
       \/ /\ phase[t] = "listed"
          /\ \E o \in SameName(t) : phase[o] = "left"
          /\ Enter(t, "over")
    /\ UNCHANGED <<count, rows>>

Next ==
    \/ \E t \in Transfers :
          \/ Begin(t) \/ Join(t) \/ Advance(t) \/ End(t) \/ Stop(t) \/ Ended(t)
          \/ Lose(t) \/ CutShort(t)
    \/ \E r \in rows : Delete(r.name)

Spec == Init /\ [][Next]_vars
=============================================================================
