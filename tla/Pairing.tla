------------------------------- MODULE Pairing -------------------------------
(* The SSH identity of this PC and the pairing QR code that shows it:         *)
(* src/tools/ssh_pair.rs, used by the "Generate" button of the Settings page, *)
(* by the preload at startup (src/main.rs) and, for the token, by the server. *)
(*                                                                            *)
(* A worker thread per click removes the key files and the token, lets        *)
(* ssh-keygen write new ones, reads them back and posts the QR to the UI.     *)
(* Nothing locks the files: a step is one access to the file system.  Nor does *)
(* anything keep the user from clicking again while a worker runs.            *)
(* ssh-keygen is external: it refuses to overwrite a private key, having      *)
(* nobody to ask, and writes the private file first.                          *)
EXTENDS Naturals, Sequences

CONSTANTS Clicks,      \* clicks on "Generate"
          Preload,     \* the worker that loads an existing pair at startup
          Sessions,    \* calls of pairing_token by the server
          Old,         \* maker of the files left by an earlier launch
          NoFile,      \* the file does not exist
          NoQR,        \* no pairing result yet, or nothing painted
          Failed,      \* a pairing result with an error
          MayFail      \* whether file operations and ssh-keygen may fail

Workers == Clicks \cup {Preload}
Rounds == {"regenerate", "build"}

\* Who made a key, in which of the two calls of generate_keypair; and a token.
Keys == (Workers \cup {Old}) \X Rounds
Tokens == Workers \cup Sessions \cup {Old}
QRs == [pk : Keys, token : Tokens]

ASSUME PairingConstants ==
    /\ Preload \notin Clicks
    /\ NoFile \notin Keys \cup Tokens
    /\ NoQR \notin QRs /\ Failed \notin QRs /\ NoQR # Failed
    /\ MayFail \in BOOLEAN

VARIABLES
    private,   \* tumbleweed_ed25519
    public,    \* tumbleweed_ed25519.pub
    token,     \* pairing_token
    pc,        \* [Workers -> control state]
    round,     \* [Workers -> the call of generate_keypair it is in]
    gen,       \* [Workers -> the generation its result will carry]
    read,      \* [Workers -> the public key read back]
    got,       \* [Workers -> the pairing result]
    spc,       \* [Sessions -> control state of the call of pairing_token]
    inbox,     \* results posted to the UI thread
    pairing,   \* the UI state: generation and result
    painted,   \* what the QR canvas shows, and the generation of its key
    faults,    \* history variable: what has failed since the last click, with
               \* an error that is "dropped" - a removal, the first ssh-keygen
               \* after writing half a pair, a token's write - or "noticed"
    mixed      \* history variable: the last click came while another worker ran
               \* or its result was under way

files == <<private, public, token>>
worker == <<pc, round, gen, read, got>>
screen == <<inbox, pairing, painted>>
vars == <<files, worker, spc, screen, faults, mixed>>

States == {"idle", "removePrivate", "removePublic", "removeToken", "generate",
           "keygen", "keygenPublic", "readPublic", "readToken", "writeToken",
           "post", "done"}

Results == [gen : Nat, info : QRs \cup {NoQR, Failed}]

TypeOK ==
    /\ private \in Keys \cup {NoFile}
    /\ public \in Keys \cup {NoFile}
    /\ token \in Tokens \cup {NoFile}
    /\ pc \in [Workers -> States]
    /\ round \in [Workers -> Rounds]
    /\ gen \in [Workers -> Nat]
    /\ read \in [Workers -> Keys \cup {NoFile}]
    /\ got \in [Workers -> QRs \cup {NoQR, Failed}]
    /\ \A w \in Workers : pc[w] \in {"readToken", "writeToken"} => read[w] \in Keys
    /\ spc \in [Sessions -> {"idle", "missing", "done"}]
    /\ inbox \in Seq(Results)
    /\ pairing \in Results
    /\ painted = NoQR \/ painted \in [gen : Nat, qr : QRs]
    /\ faults \subseteq {"dropped", "noticed"}
    /\ mixed \in BOOLEAN

OldKey == <<Old, "build">>

\* An earlier launch may have ended between any two accesses to the files.
\* The preload starts at the first render if has_keypair says so.
Init ==
    /\ private \in {NoFile, OldKey}
    /\ public \in {NoFile, OldKey}
    /\ token \in {NoFile, Old}
    /\ pc = [w \in Workers |->
                IF w # Preload THEN "idle"
                ELSE IF private # NoFile /\ public # NoFile THEN "generate" ELSE "done"]
    /\ round = [w \in Workers |-> IF w = Preload THEN "build" ELSE "regenerate"]
    /\ gen = [w \in Workers |-> 1]
    /\ read = [w \in Workers |-> NoFile]
    /\ got = [w \in Workers |-> NoQR]
    /\ spc = [s \in Sessions |-> "idle"]
    /\ inbox = <<>>
    /\ pairing = [gen |-> 0, info |-> NoQR]
    /\ painted = NoQR
    /\ faults = {}
    /\ mixed = FALSE
------------------------------------------------------------------------------
Goto(w, state) == pc' = [pc EXCEPT ![w] = state]

Quiet == inbox = <<>> /\ \A w \in Workers : pc[w] \in {"idle", "done"}

\* Mutation: the result carries the generation on screen.
ClickSameGeneration(c) ==
    /\ pc[c] = "idle"
    /\ gen' = [gen EXCEPT ![c] = pairing.gen]
    /\ Goto(c, "removePrivate")
    /\ faults' = {}
    /\ mixed' = ~Quiet
    /\ UNCHANGED <<files, round, read, got, spc, screen>>

\* The closure has the generation of the last render, so that two clicks may
\* carry the same one.  The button is never disabled.
Click(c) ==
    /\ pc[c] = "idle"
    /\ gen' = [gen EXCEPT ![c] = pairing.gen + 1]
    /\ Goto(c, "removePrivate")
    /\ faults' = {}
    /\ mixed' = ~Quiet
    /\ UNCHANGED <<files, round, read, got, spc, screen>>
------------------------------------------------------------------------------
(* regenerate_keypair: the three removals ignore their errors. *)

\* A file operation fails, and nobody is told.
Dropped == MayFail /\ faults' = faults \cup {"dropped"}

\* Mutation: the private key is not removed.
RemovePrivateNot(w) ==
    /\ pc[w] = "removePrivate"
    /\ Goto(w, "removePublic")
    /\ UNCHANGED <<files, round, gen, read, got, spc, screen, faults>>

RemovePrivate(w) ==
    /\ pc[w] = "removePrivate"
    /\ \/ private' = NoFile /\ UNCHANGED faults
       \/ private # NoFile /\ Dropped /\ UNCHANGED private
    /\ Goto(w, "removePublic")
    /\ UNCHANGED <<public, token, round, gen, read, got, spc, screen>>

RemovePublic(w) ==
    /\ pc[w] = "removePublic"
    /\ \/ public' = NoFile /\ UNCHANGED faults
       \/ public # NoFile /\ Dropped /\ UNCHANGED public
    /\ Goto(w, "removeToken")
    /\ UNCHANGED <<private, token, round, gen, read, got, spc, screen>>

RemoveToken(w) ==
    /\ pc[w] = "removeToken"
    /\ \/ token' = NoFile /\ UNCHANGED faults
       \/ token # NoFile /\ Dropped /\ UNCHANGED token
    /\ Goto(w, "generate")
    /\ UNCHANGED <<private, public, round, gen, read, got, spc, screen>>
------------------------------------------------------------------------------
(* generate_keypair, once in regenerate_keypair and once in build_pairing_info. *)

\* Only the second call's failure is reported.
GenerateEnds(w, ok) ==
    IF round[w] = "regenerate"
    THEN /\ round' = [round EXCEPT ![w] = "build"]
         /\ Goto(w, "generate")
         /\ UNCHANGED got
    ELSE /\ got' = IF ok THEN got ELSE [got EXCEPT ![w] = Failed]
         /\ Goto(w, IF ok THEN "readPublic" ELSE "post")
         /\ UNCHANGED round

Generate(w) ==
    /\ pc[w] = "generate"
    /\ IF private # NoFile
       THEN GenerateEnds(w, TRUE)
       ELSE Goto(w, "keygen") /\ UNCHANGED <<round, got>>
    /\ UNCHANGED <<files, gen, read, spc, screen, faults>>

\* ssh-keygen starts; another worker may have made a key since the check.
Keygen(w) ==
    /\ pc[w] = "keygen"
    /\ IF private = NoFile
       THEN /\ private' = <<w, round[w]>>
            /\ Goto(w, "keygenPublic")
            /\ UNCHANGED <<round, got>>
       ELSE GenerateEnds(w, FALSE) /\ UNCHANGED private
    /\ UNCHANGED <<public, token, gen, read, spc, screen, faults>>

KeygenPublic(w) ==
    /\ pc[w] = "keygenPublic"
    /\ public' = <<w, round[w]>>
    /\ GenerateEnds(w, TRUE)
    /\ UNCHANGED <<private, token, gen, read, spc, screen, faults>>

\* ssh-keygen is missing, or cannot write one of its files.
KeygenFails(w) ==
    /\ MayFail
    /\ pc[w] \in {"keygen", "keygenPublic"}
    /\ GenerateEnds(w, FALSE)
    /\ faults' = faults \cup
          IF round[w] = "regenerate" /\ pc[w] = "keygenPublic" THEN {"dropped"} ELSE {"noticed"}
    /\ UNCHANGED <<files, gen, read, spc, screen>>
------------------------------------------------------------------------------
(* The rest of build_pairing_info, with pairing_token inlined. *)

\* No public key, or no LAN address, makes an error.
ReadPublic(w) ==
    /\ pc[w] = "readPublic"
    /\ \/ /\ public # NoFile
          /\ read' = [read EXCEPT ![w] = public]
          /\ Goto(w, "readToken")
          /\ UNCHANGED <<got, faults>>
       \/ /\ \/ public = NoFile /\ UNCHANGED faults
             \/ MayFail /\ faults' = faults \cup {"noticed"}
          /\ got' = [got EXCEPT ![w] = Failed]
          /\ Goto(w, "post")
          /\ UNCHANGED read
    /\ UNCHANGED <<files, round, gen, spc, screen>>

Embed(w, t) == got' = [got EXCEPT ![w] = [pk |-> read[w], token |-> t]]

ReadToken(w) ==
    /\ pc[w] = "readToken"
    /\ IF token # NoFile
       THEN Embed(w, token) /\ Goto(w, "post")
       ELSE Goto(w, "writeToken") /\ UNCHANGED got
    /\ UNCHANGED <<files, round, gen, read, spc, screen, faults>>

\* Mutation: the fresh token is not kept.
WriteTokenNot(w) ==
    /\ pc[w] = "writeToken"
    /\ Embed(w, w)
    /\ Goto(w, "post")
    /\ UNCHANGED <<files, round, gen, read, spc, screen, faults>>

\* A fresh token, whatever has been written since there was none.
WriteToken(w) ==
    /\ pc[w] = "writeToken"
    /\ \/ token' = w /\ UNCHANGED faults
       \/ Dropped /\ UNCHANGED token
    /\ Embed(w, w)
    /\ Goto(w, "post")
    /\ UNCHANGED <<private, public, round, gen, read, spc, screen>>

\* The worker ends, and its variables with it.
Post(w) ==
    /\ pc[w] = "post"
    /\ inbox' = Append(inbox, [gen |-> gen[w], info |-> got[w]])
    /\ Goto(w, "done")
    /\ gen' = [gen EXCEPT ![w] = 1]
    /\ read' = [read EXCEPT ![w] = NoFile]
    /\ got' = [got EXCEPT ![w] = NoQR]
    /\ UNCHANGED <<files, round, spc, pairing, painted, faults>>
------------------------------------------------------------------------------
(* The server's calls of pairing_token: at its start and at authentications. *)

SessionReads(s) ==
    /\ spc[s] = "idle"
    /\ spc' = [spc EXCEPT ![s] = IF token # NoFile THEN "done" ELSE "missing"]
    /\ UNCHANGED <<files, worker, screen, faults>>

SessionWrites(s) ==
    /\ spc[s] = "missing"
    /\ (token' = s) \/ (MayFail /\ UNCHANGED token)
    /\ spc' = [spc EXCEPT ![s] = "done"]
    /\ UNCHANGED <<private, public, worker, screen, faults>>
------------------------------------------------------------------------------
(* The UI: the QR canvas paints when it is mounted or its key changes. *)

Paint == painted' = [gen |-> pairing'.gen, qr |-> pairing'.info]

Render ==
    /\ inbox # <<>>
    /\ inbox' = Tail(inbox)
    /\ pairing' = Head(inbox)
    /\ IF pairing'.info = Failed THEN painted' = NoQR
       ELSE IF painted # NoQR /\ painted.gen = pairing'.gen THEN UNCHANGED painted
       ELSE Paint
    /\ UNCHANGED <<files, worker, spc, faults>>

\* Another page was visited, or the accent color or the theme changed.
Remount ==
    /\ pairing.info \in QRs
    /\ UNCHANGED pairing
    /\ Paint
    /\ UNCHANGED <<files, worker, spc, inbox, faults>>
------------------------------------------------------------------------------
WorkerStep(w) ==
    \/ RemovePrivate(w) \/ RemovePublic(w) \/ RemoveToken(w)
    \/ Generate(w) \/ Keygen(w) \/ KeygenPublic(w) \/ KeygenFails(w)
    \/ ReadPublic(w) \/ ReadToken(w) \/ WriteToken(w) \/ Post(w)

Next ==
    \/ \E c \in Clicks : Click(c)
    \/ /\ \/ \E w \in Workers : WorkerStep(w)
          \/ \E s \in Sessions : SessionReads(s) \/ SessionWrites(s)
          \/ Render \/ Remount
       /\ UNCHANGED mixed

Spec == Init /\ [][Next]_vars
------------------------------------------------------------------------------
(* Safety.  Workers that run at once mix up their files, and results of one     *)
(* generation leave the canvas as it is; the next click that finds the workers  *)
(* at rest puts everything right, whatever state it finds.                      *)

\* Once no worker runs, the QR on screen shows the key pair on disk, both of
\* its halves: "the QR always reflects the current key pair"
\* (ssh_pair.rs:155-156), and the server presents that key.  The exceptions are
\* a failure whose error the code drops, and a last click that overlapped.
KeyShown ==
    Quiet /\ painted # NoQR /\ "dropped" \notin faults /\ ~mixed =>
        painted.qr.pk = public /\ public = private

\* Once no worker runs, the QR on screen holds the token that the server
\* compares with: "a random secret the QR encodes so a phone can register"
\* (ssh_pair.rs:32-33).  A further exception is a token that the server itself
\* made, between a look at the file and a write.
TokenShown ==
    Quiet /\ painted # NoQR /\ "dropped" \notin faults /\ ~mixed =>
        painted.qr.token = token \/ token \in Sessions

\* "The counter is bumped on every regeneration so the QR element gets a fresh
\* key and re-renders" (main.rs:236-237): the canvas has the generation of the
\* result that the page holds, and once no worker runs shows that very result,
\* but for a last click that overlapped and carried the same generation.
PaintedIsPairing ==
    painted # NoQR =>
        /\ painted.gen = pairing.gen
        /\ Quiet /\ ~mixed => painted.qr = pairing.info

\* "Clicking it always produces a fresh identity (and therefore a fresh QR)"
\* (ssh_pair.rs:136-137): a click that finds the workers at rest, and is not
\* overtaken by another, ends with its own key, or reports an error that there
\* was, unless another was dropped.
GenerateIsFresh ==
    \A c \in Clicks :
        pc[c] = "post" /\ "dropped" \notin faults /\ ~mixed =>
            \/ "noticed" \in faults /\ got[c] = Failed
            \/ got[c] \in QRs /\ got[c].pk[1] = c
=============================================================================
