---------------------------- MODULE PairedDevices ----------------------------
(* Which phones are paired: the sessions of the SSH server that authenticate  *)
(* with the token of the QR or with a key it knows and run `tumbleweed        *)
(* add-key` (SshHandler, src/tools/ssh_server.rs), the two files they append  *)
(* to, authorized_keys and paired_ips, and the thread that asks the paired    *)
(* devices whether they are online (src/main.rs).                             *)
(*                                                                            *)
(* A file is the set of its lines and the line at its end that has no newline *)
(* yet, empty if there is none.  A line is the sequence of what was appended  *)
(* to it: writeln! writes the text and the newline one after the other, and   *)
(* nothing keeps two writers apart.                                           *)
EXTENDS Naturals, Sequences

CONSTANTS Phones,      \* each with its key and its IP address
          Sessions,    \* connections of phones to the server
          PhoneOf,     \* [Sessions -> Phones]
          MaxTokens, MaxChanges, MaxCrashes   \* bounds for TLC

ASSUME PairedConstants == PhoneOf \in [Sessions -> Phones]

VARIABLES
    token,     \* the current pairing token, made with the key pair: numbered
    scanned,   \* per phone: the token, and the key, it scanned last, or 0
    reach,     \* phones that can be reached
    keys, ips, \* the files: [lines, open]
    pc,        \* per session: what its handler does next
    user,      \* per session: the username of its authentication, 0 if it is no token
    pairing,   \* sessions whose `pairing_key` is set
    fresh,     \* auxiliary: sessions that connected with the current token
    failed,    \* auxiliary: sessions whose key could not be written
    overlap,   \* auxiliary: phones whose key shares a line of the file
    \* the thread that checks who is online
    todo, map, \* its round: phones to ask, and the answers so far
    shown,     \* `last`, posted as `paired_online`
    place,     \* "idle", "asking" or "stuck"
    changes, crashes

files == <<keys, ips>>
session == <<pc, user, pairing, fresh, failed>>
checker == <<todo, map, shown, place>>
vars == <<token, scanned, reach, files, session, overlap, checker, changes, crashes>>

None == [p \in {} |-> FALSE]
Empty == [lines |-> {}, open |-> <<>>]
Has(file, p) == <<p>> \in file.lines \cup {file.open}

\* Of a line that was appended to twice no key is read, and no address.
Authorized == {p \in Phones : Has(keys, p)}
Listed == {p \in Phones : Has(ips, p)}

\* A phone that can be reached, whose host key the PC knows (check_server_key)
\* and that knows the PC's key, as of the QR it scanned, answers a ping.
Answers(p) == p \in reach /\ p \in Authorized /\ scanned[p] = token

Text(file, p) == [lines |-> file.lines, open |-> Append(file.open, p)]
NewLine(file) ==
    IF file.open = <<>> THEN file ELSE [lines |-> file.lines \cup {file.open}, open |-> <<>>]

Init ==
    /\ token = 1
    /\ scanned = [p \in Phones |-> 0]
    /\ reach = Phones
    /\ keys = Empty /\ ips = Empty
    /\ pc = [s \in Sessions |-> "off"]
    /\ user = [s \in Sessions |-> 0]
    /\ pairing = {} /\ fresh = {} /\ failed = {}
    /\ overlap = {}
    /\ todo = {} /\ map = None /\ shown = None /\ place = "idle"
    /\ changes = 0 /\ crashes = 0
------------------------------------------------------------------------------
(* The user and the phones *)

Outside == UNCHANGED <<token, scanned, reach, changes>>

\* A new key pair and a new token.
Regenerate ==
    /\ token < MaxTokens
    /\ token' = token + 1
    /\ UNCHANGED <<scanned, reach, files, session, overlap, checker, changes, crashes>>

Scan(p) ==
    /\ scanned[p] < token
    /\ scanned' = [scanned EXCEPT ![p] = token]
    /\ UNCHANGED <<token, reach, files, session, overlap, checker, changes, crashes>>

\* A phone comes or goes.
Move(p) ==
    /\ changes < MaxChanges
    /\ changes' = changes + 1
    /\ reach' = IF p \in reach THEN reach \ {p} ELSE reach \cup {p}
    /\ UNCHANGED <<token, scanned, files, session, overlap, checker, crashes>>

\* The username is a token the phone scanned, or a name of its own (0).
Connect(s) ==
    /\ pc[s] = "off"
    /\ \E u \in {0, scanned[PhoneOf[s]]} :
          /\ user' = [user EXCEPT ![s] = u]
          /\ fresh' = IF u = token THEN fresh \cup {s} ELSE fresh
    /\ pc' = [pc EXCEPT ![s] = "auth"]
    /\ UNCHANGED <<files, pairing, failed, overlap, checker, crashes>>
    /\ Outside
------------------------------------------------------------------------------
(* The server's handler of a session *)

Goes(s, to) == pc' = [pc EXCEPT ![s] = to]
Elsewhere == Outside /\ UNCHANGED <<checker, crashes>>

\* Mutation: any token that was ever shown will do.
HasAnyToken(s) == user[s] # 0

\* The username is the pairing token, read from its file each time.
HasToken(s) == user[s] = token

\* is_authorized, at auth_publickey (auth_publickey_offered changes nothing).
IsAuthorized(s) == HasToken(s) \/ PhoneOf[s] \in Authorized

Authenticate(s) ==
    /\ pc[s] = "auth"
    /\ Goes(s, IF IsAuthorized(s) THEN "accepted" ELSE "gone")
    /\ user' = [user EXCEPT ![s] = IF IsAuthorized(s) THEN @ ELSE 0]
    /\ UNCHANGED <<files, pairing, fresh, failed, overlap>>
    /\ Elsewhere

\* auth_publickey reads the token a second time.
TakePairing(s) ==
    /\ pc[s] = "accepted"
    /\ pairing' = IF HasToken(s) THEN pairing \cup {s} ELSE pairing
    /\ user' = [user EXCEPT ![s] = 0]
    /\ Goes(s, "open")
    /\ UNCHANGED <<files, fresh, failed, overlap>>
    /\ Elsewhere

\* Mutation: a key that is there needs no address.
AddKeyOnce(s) ==
    /\ pc[s] = "open"
    /\ pairing' = pairing \ {s}
    /\ Goes(s, IF s \in pairing THEN "read ips" ELSE "gone")
    /\ UNCHANGED <<files, user, fresh, failed, overlap>>
    /\ Elsewhere

\* `tumbleweed add-key`; "no pairing session" without a pairing key.
AddKey(s) ==
    /\ pc[s] = "open"
    /\ pairing' = pairing \ {s}
    /\ Goes(s, IF s \in pairing THEN "read keys" ELSE "gone")
    /\ UNCHANGED <<files, user, fresh, failed, overlap>>
    /\ Elsewhere

\* add_authorized_key and record_paired_ip: nothing to do for a line that is
\* there, else the text and the newline, to the end of what is there then.
ReadFile(s, file, here, append, next) ==
    /\ pc[s] = here
    /\ Goes(s, IF Has(file, PhoneOf[s]) THEN next ELSE append)
    /\ UNCHANGED <<files, user, pairing, fresh, failed, overlap>>
    /\ Elsewhere

ReadKeys(s) == ReadFile(s, keys, "read keys", "append key", "read ips")
ReadIps(s) == ReadFile(s, ips, "read ips", "append ip", "reply")

\* Mutation: the file is truncated, not appended to.
AppendKeyTruncating(s) ==
    /\ pc[s] = "append key"
    /\ keys' = Text(Empty, PhoneOf[s])
    /\ overlap' = overlap
    /\ Goes(s, "end key")
    /\ UNCHANGED <<ips, user, pairing, fresh, failed>>
    /\ Elsewhere

\* The lines of an append in whose midst another was are one line.
AppendKey(s) ==
    /\ pc[s] = "append key"
    /\ keys' = Text(keys, PhoneOf[s])
    /\ overlap' = IF keys.open = <<>> THEN overlap
                  ELSE overlap \cup {PhoneOf[s]} \cup {keys.open[i] : i \in 1..Len(keys.open)}
    /\ Goes(s, "end key")
    /\ UNCHANGED <<ips, user, pairing, fresh, failed>>
    /\ Elsewhere

AppendIp(s) ==
    /\ pc[s] = "append ip"
    /\ ips' = Text(ips, PhoneOf[s])
    /\ Goes(s, "end ip")
    /\ UNCHANGED <<keys, user, pairing, fresh, failed, overlap>>
    /\ Elsewhere

EndKey(s) ==
    /\ pc[s] = "end key"
    /\ keys' = NewLine(keys)
    /\ Goes(s, "read ips")
    /\ UNCHANGED <<ips, user, pairing, fresh, failed, overlap>>
    /\ Elsewhere

EndIp(s) ==
    /\ pc[s] = "end ip"
    /\ ips' = NewLine(ips)
    /\ Goes(s, "reply")
    /\ UNCHANGED <<keys, user, pairing, fresh, failed, overlap>>
    /\ Elsewhere

\* No folder, no file, no room: logged for the key, ignored for the address.
KeyFails(s) ==
    /\ pc[s] \in {"append key", "end key"}
    /\ failed' = IF pc[s] = "append key" THEN failed \cup {s} ELSE failed
    /\ Goes(s, "read ips")
    /\ UNCHANGED <<files, user, pairing, fresh, overlap>>
    /\ Elsewhere

IpFails(s) ==
    /\ pc[s] \in {"append ip", "end ip"}
    /\ Goes(s, "reply")
    /\ UNCHANGED <<files, user, pairing, fresh, failed, overlap>>
    /\ Elsewhere

\* "registered", whatever became of the appends.
Reply(s) ==
    /\ pc[s] = "reply"
    /\ Goes(s, "told")
    /\ UNCHANGED <<files, user, pairing, fresh, failed, overlap>>
    /\ Elsewhere
------------------------------------------------------------------------------
(* The thread of `app` that asks the paired devices every 15 seconds *)

Others == UNCHANGED <<token, scanned, files, session, overlap, crashes>>

BeginRound ==
    /\ place = "idle"
    /\ place' = "asking"
    /\ todo' = Listed
    /\ map' = None
    /\ UNCHANGED <<shown, reach, changes>>
    /\ Others

\* is_online: connects, and runs `tumbleweed ping`.
Ping(p) ==
    /\ place = "asking"
    /\ p \in todo
    /\ todo' = todo \ {p}
    /\ map' = [q \in DOMAIN map \cup {p} |-> IF q = p THEN Answers(p) ELSE map[q]]
    /\ UNCHANGED <<shown, place, reach, changes>>
    /\ Others

\* The phone goes after it took the connection and before it has answered the
\* handshake: of the steps of open_ssh_session none has a timeout.
PingHangs(p) ==
    /\ place = "asking"
    /\ p \in todo \cap reach
    /\ changes < MaxChanges
    /\ changes' = changes + 1
    /\ reach' = reach \ {p}
    /\ place' = "stuck"
    /\ UNCHANGED <<todo, map, shown>>
    /\ Others

\* Mutation: only another set of devices is a change.
EndRoundSameDevices ==
    /\ place = "asking" /\ todo = {}
    /\ place' = "idle"
    /\ map' = None
    /\ shown' = IF DOMAIN map # DOMAIN shown THEN map ELSE shown
    /\ UNCHANGED <<todo, reach, changes>>
    /\ Others

EndRound ==
    /\ place = "asking" /\ todo = {}
    /\ place' = "idle"
    /\ map' = None
    /\ shown' = IF map # shown THEN map ELSE shown
    /\ UNCHANGED <<todo, reach, changes>>
    /\ Others

\* The app ends, in whatever it does, and is started again: the files stay.
Restart ==
    /\ crashes < MaxCrashes
    /\ crashes' = crashes + 1
    /\ pc' = [s \in Sessions |-> IF pc[s] \in {"off", "told"} THEN pc[s] ELSE "gone"]
    /\ user' = [s \in Sessions |-> 0] /\ pairing' = {}
    /\ todo' = {} /\ map' = None /\ shown' = None /\ place' = "idle"
    /\ UNCHANGED <<files, fresh, failed, overlap>>
    /\ Outside

Handler(s) ==
    \/ Authenticate(s) \/ TakePairing(s) \/ AddKey(s)
    \/ ReadKeys(s) \/ AppendKey(s) \/ EndKey(s) \/ KeyFails(s)
    \/ ReadIps(s) \/ AppendIp(s) \/ EndIp(s) \/ IpFails(s)
    \/ Reply(s)

Checker == BeginRound \/ EndRound \/ \E p \in Phones : Ping(p)

Next ==
    \/ Regenerate \/ Restart
    \/ \E p \in Phones : Scan(p) \/ Move(p) \/ PingHangs(p)
    \/ \E s \in Sessions : Connect(s) \/ Handler(s)
    \/ Checker

Spec == Init /\ [][Next]_vars

\* The thread that checks runs; a session may stop anywhere.
FairSpec == Spec /\ WF_vars(Checker)
------------------------------------------------------------------------------
File == [lines : SUBSET Seq(Phones), open : Seq(Phones)]

TypeOK ==
    /\ token \in Nat /\ token > 0
    /\ scanned \in [Phones -> Nat]
    /\ keys \in File /\ ips \in File
    /\ pc \in [Sessions -> {"off", "auth", "accepted", "open", "read keys", "append key",
                            "end key", "read ips", "append ip", "end ip", "reply", "told",
                            "gone"}]
    /\ user \in [Sessions -> Nat]
    /\ pairing \subseteq Sessions /\ fresh \subseteq Sessions /\ failed \subseteq Sessions
    /\ overlap \subseteq Phones

Registering == {"read keys", "append key", "end key", "read ips", "append ip", "end ip",
                "reply", "told"}

\* A phone that was told it is registered can come back with its key, whatever
\* tokens, pairings and restarts come after, unless its key could not be written
\* or was written in the midst of another append (add_authorized_key).
RegisteredCanReturn ==
    \A s \in Sessions : pc[s] = "told" =>
        PhoneOf[s] \in Authorized \cup overlap \/ s \in failed

\* A phone that connects with a token that was replaced by then registers
\* nothing (is_authorized: "while the token is current"), whatever is
\* generated and scanned between its two checks and its add-key.
StaleTokenRegistersNobody ==
    \A s \in Sessions : pc[s] \in Registering => s \in fresh

\* A phone listed as paired has a key, but for failed or overlapping appends:
\* also when the app ended between the two files.
PairedIsAuthorized ==
    \A p \in Listed :
        p \in Authorized \cup overlap \/ \E s \in Sessions : PhoneOf[s] = p /\ s \in failed

\* The devices shown as online settle on those that are: a phone that came, went
\* or was paired is seen in a later round, also after a restart, unless a phone
\* that went in the midst of a handshake has stopped the rounds for good.
OnlineSettles ==
    <>[](\/ place = "stuck"
         \/ DOMAIN shown = Listed /\ \A p \in DOMAIN shown : shown[p] = Answers(p))
=============================================================================
