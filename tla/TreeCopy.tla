------------------------------ MODULE TreeCopy ------------------------------
(* What receiving over scp does, record by record (the abstract specification *)
(* of ScpSink): the records of a session take effect on the disk one by one,  *)
(* in their order, each at once; only the file being received is ever missing *)
(* or incomplete, and only records that took effect are confirmed to the      *)
(* peer.  It is no promise to the user: no step waits for the user's consent, *)
(* contrary to README.md:132-133, and a session may leave Root, by a drive in *)
(* a name or by ending more directories than it began, contrary to "writing   *)
(* files into `root`" (ssh_server.rs:898-899).                                *)
EXTENDS Naturals, Sequences

CONSTANTS Root,    \* the folder files are received into: the names on its path
          Clean,   \* [names peers send -> the name used on disk, or Bad]
          Bad,
          Drive    \* names that begin with a drive: [those names -> drive]

Dir == <<0, 0>>                     \* on disk: a folder
Whole(i, r) == <<i, r.size>>        \* on disk: all bytes of the file of record i

\* Functions over the paths that exist.
Put(d, path, what) ==
    [p \in DOMAIN d \cup {path} |-> IF p = path THEN what ELSE d[p]]
Without(d, path) == [p \in DOMAIN d \ {path} |-> d[p]]

\* `join`: a name with a drive is a path of its own.
Child(folder, name) ==
    IF name \in DOMAIN Drive THEN <<Drive[name], Clean[name]>>
    ELSE Append(folder, Clean[name])

\* `parent`: none above the root of the drive, nor of a path on another one.
Parent(path) ==
    IF path = <<>> \/ path \in {<<Drive[d]>> : d \in DOMAIN Drive} THEN path
    ELSE SubSeq(path, 1, Len(path) - 1)

VARIABLES session,     \* the records the peer has to send
          taken,       \* how many of them have taken effect
          confirmed,   \* how many of them the peer knows to have taken effect
          cur,         \* the folder the session is in
          disk         \* [paths that exist -> folder or contents]

vars == <<session, taken, confirmed, cur, disk>>

Rec == session[taken + 1]

Init ==
    /\ taken = 0
    /\ confirmed = 0
    /\ cur = Root

\* The file of the next record is about to be written: what was there is gone.
Truncate ==
    /\ taken < Len(session)
    /\ Rec.kind \in {"C", "B"}
    /\ disk' = Without(disk, Child(cur, Rec.name))
    /\ UNCHANGED <<session, taken, confirmed, cur>>

Effect(r) ==
    \/ /\ r.kind \in {"C", "B"}
       /\ Clean[r.name] # Bad
       /\ disk' = Put(disk, Child(cur, r.name), Whole(taken + 1, r))
       /\ UNCHANGED cur
    \/ /\ r.kind = "D"
       /\ Clean[r.name] # Bad
       /\ cur' = Child(cur, r.name)
       /\ disk' = Put(disk, cur', Dir)
    \/ /\ r.kind = "E"
       /\ cur' = Parent(cur)
       /\ UNCHANGED disk
    \/ /\ r.kind = "T"
       /\ UNCHANGED <<cur, disk>>

TakeEffect ==
    /\ taken < Len(session)
    /\ Effect(Rec)
    /\ taken' = taken + 1
    /\ UNCHANGED <<session, confirmed>>

Confirm ==
    /\ confirmed < taken
    /\ confirmed' = confirmed + 1
    /\ UNCHANGED <<session, taken, cur, disk>>

Next == Truncate \/ TakeEffect \/ Confirm

Spec == Init /\ [][Next]_vars
=============================================================================
