---------------------------- MODULE PairingProofs ----------------------------
(* Proofs about Pairing, for any clicks, sessions and failures.               *)
EXTENDS Pairing, SequenceTheorems, TLAPS

\* A worker posts a result, never nothing.
PostsResult ==
    /\ \A w \in Workers : pc[w] = "post" => got[w] # NoQR
    /\ \A i \in DOMAIN inbox : inbox[i].info # NoQR

TypeInv == TypeOK /\ PostsResult

Busy(w) == pc[w] \notin {"idle", "done"}

\* One worker or its result is under way at a time, one generation ahead.
Serial ==
    /\ \A v, w \in Workers : Busy(v) /\ Busy(w) => v = w
    /\ \A w \in Workers : Busy(w) => inbox = <<>> /\ gen[w] = pairing.gen + 1
    /\ inbox # <<>> => Len(inbox) = 1 /\ inbox[1].gen = pairing.gen + 1

\* Once no worker runs, what the canvas shows is what the page holds.
PaintedUpToDate ==
    painted # NoQR /\ Quiet => painted.qr = pairing.info

\* The QR has the key pair on disk and the server's token.
Agrees(qr) ==
    qr \in QRs => /\ qr.pk = public /\ public = private
                  /\ qr.token = token \/ token \in Sessions

\* How far a worker got, as the files tell if no failure was dropped.
Phase(w) ==
    /\ pc[w] \in {"removePublic", "removeToken"} => private = NoFile
    /\ pc[w] \in {"removeToken", "generate"} => public = private
    /\ pc[w] = "generate" /\ round[w] = "regenerate" => private = NoFile
    /\ pc[w] = "keygen" => private = NoFile /\ public = NoFile
    /\ pc[w] = "keygenPublic" => private = <<w, round[w]>>
    /\ pc[w] = "readPublic" => private # NoFile /\ public = private
    /\ pc[w] \in {"readToken", "writeToken"} => read[w] = public /\ public = private
    /\ pc[w] = "post" => Agrees(got[w])

\* Where a click's own key is, if no failure was dropped.
Fresh(c) ==
    /\ pc[c] \in {"generate", "keygen"} /\ round[c] = "build" =>
          IF private = NoFile THEN "noticed" \in faults ELSE private[1] = c
    /\ pc[c] = "readPublic" => private[1] = c
    /\ pc[c] \in {"readToken", "writeToken"} => read[c][1] = c
    /\ pc[c] = "post" =>
          \/ "noticed" \in faults /\ got[c] = Failed
          \/ got[c] \in QRs /\ got[c].pk[1] = c

\* A click starts with the first of the two calls of generate_keypair.
StartsOver ==
    \A c \in Clicks :
        pc[c] \in {"idle", "removePrivate", "removePublic", "removeToken"} =>
            round[c] = "regenerate"

Phases ==
    "dropped" \notin faults =>
        /\ \A w \in Workers : Phase(w)
        /\ \A c \in Clicks : Fresh(c)

\* A result on its way to the page, and one the page holds with no worker.
Posted ==
    "dropped" \notin faults =>
        /\ inbox # <<>> => Agrees(inbox[1].info)
        /\ Quiet => Agrees(pairing.info)

\* The canvas has the generation of the page, however many workers ran.
PaintedOfPage == painted # NoQR => painted.gen = pairing.gen

\* What a click that found the workers at rest relies on and achieves.
Alone == Serial /\ PaintedUpToDate /\ Phases /\ Posted

\* However the workers overlapped, only these two are left for the next click.
PairingInv == PaintedOfPage /\ StartsOver /\ (~mixed => Alone)
------------------------------------------------------------------------------
(* Types *)

\* What the workers' control states and results must be.
WorkOK ==
    /\ pc \in [Workers -> States]
    /\ round \in [Workers -> Rounds]
    /\ got \in [Workers -> QRs \cup {NoQR, Failed}]
    /\ \A w \in Workers :
          /\ pc[w] \in {"readToken", "writeToken"} => read[w] \in Keys
          /\ pc[w] = "post" => got[w] # NoQR

\* A call of generate_keypair ends in the next one or in the rest of
\* build_pairing_info, with an error or without.
LEMMA GenerateEndsOK ==
    ASSUME WorkOK, NEW w \in Workers, NEW ok \in BOOLEAN, GenerateEnds(w, ok), read' = read
    PROVE  WorkOK'
<1> USE PairingConstants DEF WorkOK, GenerateEnds, Goto, States, Rounds
<1>1. CASE round[w] = "regenerate"
  BY <1>1
<1>2. CASE round[w] # "regenerate" /\ ok
  BY <1>2
<1>3. CASE round[w] # "regenerate" /\ ~ok
  BY <1>3
<1> QED BY <1>1, <1>2, <1>3

\* A worker is done with a QR or an error.
LEMMA PostOK ==
    ASSUME WorkOK, NEW w \in Workers, NEW result \in QRs \cup {Failed}, Goto(w, "post"),
           got' = [got EXCEPT ![w] = result], round' = round, read' = read
    PROVE  WorkOK'
BY PairingConstants DEF WorkOK, Goto, States

\* Which parts of the type are a worker's to change.
LEMMA WorkIsTyped ==
    ASSUME TypeInv, WorkOK',
           private' \in Keys \cup {NoFile}, public' \in Keys \cup {NoFile},
           token' \in Tokens \cup {NoFile}, read' \in [Workers -> Keys \cup {NoFile}],
           faults' \subseteq {"dropped", "noticed"},
           UNCHANGED <<gen, spc, screen, mixed>>
    PROVE  TypeInv'
BY DEF TypeInv, TypeOK, PostsResult, WorkOK, screen

LEMMA TypeStep ==
    ASSUME TypeInv, NEW w \in Workers, WorkerStep(w), UNCHANGED mixed
    PROVE  TypeInv'
<1>0. WorkOK /\ <<w, round[w]>> \in Keys
  BY DEF TypeInv, TypeOK, PostsResult, WorkOK, Keys
<1> USE PairingConstants DEF TypeInv, TypeOK, PostsResult, States, Goto, files, worker, screen
<1>1. CASE RemovePrivate(w)
  BY <1>1 DEF RemovePrivate, Dropped
<1>2. CASE RemovePublic(w)
  BY <1>2 DEF RemovePublic, Dropped
<1>3. CASE RemoveToken(w)
  BY <1>3 DEF RemoveToken, Dropped
<1>4. CASE Generate(w)
  <2>1. CASE private # NoFile
    BY <1>0, <1>4, <2>1, GenerateEndsOK, WorkIsTyped DEF Generate
  <2>2. CASE private = NoFile
    BY <1>4, <2>2 DEF Generate
  <2> QED BY <2>1, <2>2
<1>5. CASE Keygen(w)
  <2>1. CASE private # NoFile
    BY <1>0, <1>5, <2>1, GenerateEndsOK, WorkIsTyped DEF Keygen
  <2>2. CASE private = NoFile
    BY <1>0, <1>5, <2>2 DEF Keygen
  <2> QED BY <2>1, <2>2
<1>6. CASE KeygenPublic(w)
  BY <1>0, <1>6, GenerateEndsOK, WorkIsTyped DEF KeygenPublic
<1>7. CASE KeygenFails(w)
  <2>1. faults' \subseteq {"dropped", "noticed"}
    BY <1>7 DEF KeygenFails
  <2> QED BY <1>0, <1>7, <2>1, GenerateEndsOK, WorkIsTyped DEF KeygenFails
<1>8. CASE ReadPublic(w)
  <2>1. CASE /\ Goto(w, "readToken") /\ got' = got
             /\ read' = [read EXCEPT ![w] = public] /\ public # NoFile
    BY <1>0, <1>8, <2>1, WorkIsTyped DEF ReadPublic, WorkOK
  <2>2. CASE Goto(w, "post") /\ got' = [got EXCEPT ![w] = Failed] /\ read' = read
    <3>1. faults' \subseteq {"dropped", "noticed"}
      BY <1>8 DEF ReadPublic
    <3>2. WorkOK'
      BY <1>0, <1>8, <2>2, PostOK DEF ReadPublic
    <3> QED BY <3>1, <3>2, <1>8, <2>2, WorkIsTyped DEF ReadPublic
  <2> QED BY <1>8, <2>1, <2>2 DEF ReadPublic
<1>9. CASE ReadToken(w)
  <2>1. CASE token # NoFile
    <3>1. [pk |-> read[w], token |-> token] \in QRs
      BY <1>9, <2>1 DEF ReadToken, QRs
    <3>2. WorkOK'
      BY <1>0, <1>9, <2>1, <3>1, PostOK DEF ReadToken, Embed
    <3> QED BY <1>9, <3>2, WorkIsTyped DEF ReadToken
  <2>2. CASE token = NoFile
    BY <1>9, <2>2 DEF ReadToken
  <2> QED BY <2>1, <2>2
<1>10. CASE WriteToken(w)
  <2>1. w \in Tokens
    BY DEF Tokens
  <2>2. [pk |-> read[w], token |-> w] \in QRs
    BY <1>10, <2>1 DEF WriteToken, QRs
  <2>3. token' \in Tokens \cup {NoFile} /\ faults' \subseteq {"dropped", "noticed"}
    BY <1>10, <2>1 DEF WriteToken, Dropped
  <2>4. WorkOK' /\ UNCHANGED <<private, public, gen, read, spc, screen>>
    BY <1>0, <1>10, <2>2, PostOK DEF WriteToken, Embed
  <2> QED BY <2>3, <2>4, WorkIsTyped
<1>11. CASE Post(w)
  <2>1. [gen |-> gen[w], info |-> got[w]] \in Results /\ got[w] # NoQR
    BY <1>11 DEF Post, Results
  <2>2. inbox' \in Seq(Results) /\ \A i \in DOMAIN inbox' : inbox'[i].info # NoQR
    BY <1>11, <2>1 DEF Post
  <2>3. pc'[w] = "done" /\ \A v \in Workers \ {w} : pc'[v] = pc[v] /\ got'[v] = got[v] /\ read'[v] = read[v]
    BY <1>11 DEF Post
  <2> QED BY <1>11, <2>2, <2>3 DEF Post
<1> QED BY <1>1, <1>2, <1>3, <1>4, <1>5, <1>6, <1>7, <1>8, <1>9, <1>10, <1>11 DEF WorkerStep

\* The page paints a result only.
LEMMA TypeRender ==
    ASSUME TypeInv, Render, UNCHANGED mixed
    PROVE  TypeInv'
<1> USE PairingConstants DEF TypeInv, TypeOK, PostsResult, files, worker, screen
<1>1. inbox # <<>> /\ inbox \in Seq(Results)
  BY DEF Render
<1>2. Head(inbox) = inbox[1] /\ 1 \in DOMAIN inbox /\ Head(inbox) \in Results
  BY <1>1, HeadTailProperties
<1>3. Tail(inbox) \in Seq(Results)
  BY <1>1
<1>4. \A i \in DOMAIN Tail(inbox) : Tail(inbox)[i].info # NoQR
  BY <1>1
<1>5. pairing' \in Results /\ pairing'.info # NoQR
  BY <1>2 DEF Render
<1>6. painted' = NoQR \/ painted' \in [gen : Nat, qr : QRs]
  BY <1>5 DEF Render, Paint, Results
<1> QED BY <1>3, <1>4, <1>5, <1>6 DEF Render

LEMMA TypeNext ==
    ASSUME TypeInv, [Next]_vars
    PROVE  TypeInv'
<1> USE PairingConstants DEF TypeInv
<1>1. ASSUME NEW c \in Clicks, Click(c) PROVE TypeInv'
  BY <1>1 DEF Click, Goto, TypeOK, PostsResult, States, Results, Workers, files, screen
<1>2. ASSUME NEW w \in Workers, WorkerStep(w), UNCHANGED mixed PROVE TypeInv'
  BY <1>2, TypeStep
<1>3. ASSUME NEW s \in Sessions, SessionReads(s) \/ SessionWrites(s), UNCHANGED mixed PROVE TypeInv'
  BY <1>3 DEF SessionReads, SessionWrites, TypeOK, PostsResult, Tokens, files, worker, screen
<1>4. CASE Render /\ UNCHANGED mixed
  BY <1>4, TypeRender
<1>5. CASE Remount /\ UNCHANGED mixed
  BY <1>5 DEF Remount, Paint, TypeOK, PostsResult, Results, files, worker
<1>6. CASE UNCHANGED vars
  BY <1>6 DEF vars, files, worker, screen, TypeOK, PostsResult
<1> QED BY <1>1, <1>2, <1>3, <1>4, <1>5, <1>6 DEF Next

LEMMA TypeInit == Init => TypeInv
<1> SUFFICES ASSUME Init PROVE TypeInv
  OBVIOUS
<1> USE PairingConstants DEF Init, OldKey
<1>1. OldKey \in Keys /\ Old \in Tokens
  BY DEF Keys, Rounds, Tokens
<1>2. /\ private \in Keys \cup {NoFile} /\ public \in Keys \cup {NoFile}
      /\ token \in Tokens \cup {NoFile}
  BY <1>1
<1>3. pairing \in Results /\ inbox \in Seq(Results)
  BY DEF Results
<1>4. pc \in [Workers -> States] /\ round \in [Workers -> Rounds] /\ gen \in [Workers -> Nat]
  BY DEF States, Rounds
<1>5. PostsResult
  BY DEF PostsResult
<1>6. /\ read \in [Workers -> Keys \cup {NoFile}] /\ got \in [Workers -> QRs \cup {NoQR, Failed}]
      /\ \A w \in Workers : pc[w] \notin {"readToken", "writeToken"}
      /\ spc \in [Sessions -> {"idle", "missing", "done"}]
  OBVIOUS
<1>7. faults \subseteq {"dropped", "noticed"} /\ mixed \in BOOLEAN /\ painted = NoQR
  OBVIOUS
<1> QED BY ONLY <1>2, <1>3, <1>4, <1>5, <1>6, <1>7 DEF TypeInv, TypeOK

\* Every file, result and painting stays in its type, and no worker posts
\* nothing: what build_pairing_info returns is a QR or an error.
THEOREM TypeInvariant == Spec => []TypeOK
<1>1. TypeInv /\ [Next]_vars => TypeInv'
  BY TypeNext
<1>2. TypeInv => TypeOK
  BY DEF TypeInv
<1> QED BY TypeInit, <1>1, <1>2, PTL DEF Spec
------------------------------------------------------------------------------
(* One worker at a time *)

\* What a worker does between its click and its result concerns nobody else:
\* the others rest, and the page waits.
LEMMA StepKeeps ==
    ASSUME TypeInv, PairingInv, ~mixed, UNCHANGED mixed, NEW w \in Workers, Busy(w), Busy(w)',
           \A v \in Workers \ {w} : pc'[v] = pc[v] /\ round'[v] = round[v],
           UNCHANGED <<gen, screen>>,
           w \in Clicks /\ pc'[w] \in {"removePrivate", "removePublic", "removeToken"} =>
               round'[w] = "regenerate",
           "dropped" \notin faults' => Phase(w)' /\ (w \in Clicks => Fresh(w)')
    PROVE  PairingInv'
<1>1. inbox = <<>> /\ inbox' = <<>> /\ pairing' = pairing /\ painted' = painted
  BY DEF PairingInv, Alone, Serial, screen
<1>2. \A v \in Workers \ {w} : pc'[v] \in {"idle", "done"}
  BY DEF PairingInv, Alone, Serial, Busy
<1>3. Serial'
  <2>1. \A v \in Workers : Busy(v)' => v = w
    BY <1>2 DEF Busy
  <2>2. gen'[w] = pairing'.gen + 1
    BY <1>1 DEF PairingInv, Alone, Serial
  <2> QED BY <1>1, <2>1, <2>2 DEF Serial
<1>4. PaintedUpToDate' /\ PaintedOfPage'
  BY <1>1 DEF PairingInv, PaintedOfPage, PaintedUpToDate, Quiet, Busy
<1>5. StartsOver'
  BY DEF PairingInv, StartsOver, Workers, Busy
<1>6. Phases'
  <2>1. \A v \in Workers \ {w} : Phase(v)'
    BY <1>2 DEF Phase
  <2>2. \A v \in Workers \ {w} : Fresh(v)'
    BY <1>2 DEF Fresh
  <2> QED BY <2>1, <2>2 DEF Phases, Workers
<1>7. Posted'
  BY <1>1 DEF Posted, Quiet, Busy
<1> QED BY <1>3, <1>4, <1>5, <1>6, <1>7 DEF PairingInv, Alone

\* The three removals.
LEMMA RemovesKeep ==
    ASSUME TypeInv, PairingInv, ~mixed, UNCHANGED mixed, NEW w \in Workers,
           RemovePrivate(w) \/ RemovePublic(w) \/ RemoveToken(w)
    PROVE  PairingInv'
<1> USE PairingConstants DEF TypeInv, TypeOK, Goto, worker, files
<1>0. "dropped" \notin faults => Phase(w) /\ (w \in Clicks => Fresh(w))
  BY DEF PairingInv, Alone, Phases
<1>1. w \in Clicks => round[w] = "regenerate"
  BY DEF PairingInv, StartsOver, RemovePrivate, RemovePublic, RemoveToken
<1>2. CASE RemovePrivate(w)
  <2>1. /\ pc[w] = "removePrivate" /\ pc'[w] = "removePublic"
        /\ round' = round /\ UNCHANGED <<gen, screen>>
        /\ \A v \in Workers \ {w} : pc'[v] = pc[v]
    BY <1>2 DEF RemovePrivate
  <2>2. "dropped" \notin faults' => private' = NoFile
    BY <1>2 DEF RemovePrivate, Dropped
  <2>3. "dropped" \notin faults' => Phase(w)' /\ Fresh(w)'
    BY <2>1, <2>2 DEF Phase, Fresh
  <2> QED BY <1>1, <2>1, <2>3, StepKeeps DEF Busy
<1>3. CASE RemovePublic(w)
  <2>1. /\ pc[w] = "removePublic" /\ pc'[w] = "removeToken"
        /\ round' = round /\ UNCHANGED <<gen, screen>>
        /\ \A v \in Workers \ {w} : pc'[v] = pc[v]
    BY <1>3 DEF RemovePublic
  <2>2. "dropped" \notin faults' => private' = NoFile /\ public' = NoFile
    BY <1>0, <1>3, <2>1 DEF RemovePublic, Dropped, Phase
  <2>3. "dropped" \notin faults' => Phase(w)' /\ Fresh(w)'
    BY <2>1, <2>2 DEF Phase, Fresh
  <2> QED BY <1>1, <2>1, <2>3, StepKeeps DEF Busy
<1>4. CASE RemoveToken(w)
  <2>1. /\ pc[w] = "removeToken" /\ pc'[w] = "generate"
        /\ round' = round /\ UNCHANGED <<private, public, gen, screen>>
        /\ \A v \in Workers \ {w} : pc'[v] = pc[v]
    BY <1>4 DEF RemoveToken
  <2>2. "dropped" \notin faults' => private = NoFile /\ public = NoFile
    BY <1>0, <1>4, <2>1 DEF RemoveToken, Dropped, Phase
  <2>3. "dropped" \notin faults' => Phase(w)'
    BY <2>1, <2>2 DEF Phase
  <2>4. w \in Clicks => Fresh(w)'
    BY <1>1, <2>1 DEF Fresh
  <2> QED BY <1>1, <2>1, <2>3, <2>4, StepKeeps DEF Busy
<1> QED BY <1>2, <1>3, <1>4

\* A call of generate_keypair that ends leaves a pair, or in the first of the
\* two calls nothing, and an error that the second one repeats or repairs.
LEMMA EndsKeep ==
    ASSUME TypeInv, PairingInv, ~mixed, UNCHANGED mixed, NEW w \in Workers, NEW ok \in BOOLEAN,
           pc[w] \in {"generate", "keygen", "keygenPublic"},
           GenerateEnds(w, ok), UNCHANGED <<gen, read, screen>>,
           "dropped" \notin faults' =>
               /\ private' = public' \/ (~ok /\ round[w] = "build")
               /\ ok => private' # NoFile
               /\ ~ok /\ round[w] = "regenerate" => private' = NoFile
               /\ ~ok => "noticed" \in faults'
               /\ ok /\ w \in Clicks => private'[1] = w
    PROVE  PairingInv'
<1> USE PairingConstants DEF TypeInv, TypeOK, Goto
<1>1. CASE round[w] = "regenerate"
  <2>1. /\ pc'[w] = "generate" /\ round'[w] = "build"
        /\ \A v \in Workers \ {w} : pc'[v] = pc[v] /\ round'[v] = round[v]
    BY <1>1 DEF GenerateEnds
  <2>2. "dropped" \notin faults' => Phase(w)'
    BY <1>1, <2>1 DEF Phase
  <2>3. "dropped" \notin faults' /\ w \in Clicks => Fresh(w)'
    BY <1>1, <2>1 DEF Fresh
  <2> QED BY <2>1, <2>2, <2>3, StepKeeps DEF Busy
<1>2. CASE round[w] # "regenerate"
  <2>0. round[w] = "build"
    BY <1>2 DEF Rounds
  <2>1. /\ pc'[w] = IF ok THEN "readPublic" ELSE "post"
        /\ got'[w] = IF ok THEN got[w] ELSE Failed
        /\ round' = round
        /\ \A v \in Workers \ {w} : pc'[v] = pc[v]
    BY <1>2 DEF GenerateEnds
  <2>2. "dropped" \notin faults' => Phase(w)'
    BY <2>0, <2>1 DEF Phase, Agrees
  <2>3. "dropped" \notin faults' /\ w \in Clicks => Fresh(w)'
    BY <2>0, <2>1 DEF Fresh
  <2> QED BY <2>1, <2>2, <2>3, StepKeeps DEF Busy
<1> QED BY <1>1, <1>2

\* generate_keypair: a pair that is there is kept, or ssh-keygen writes one.
LEMMA GeneratesKeep ==
    ASSUME TypeInv, PairingInv, ~mixed, UNCHANGED mixed, NEW w \in Workers,
           Generate(w) \/ Keygen(w) \/ KeygenPublic(w) \/ KeygenFails(w)
    PROVE  PairingInv'
<1> USE PairingConstants DEF TypeInv, TypeOK, Goto, files
<1>0. "dropped" \notin faults => Phase(w) /\ (w \in Clicks => Fresh(w))
  BY DEF PairingInv, Alone, Phases
<1>k. <<w, round[w]>> \in Keys /\ round[w] \in {"regenerate", "build"}
  BY DEF Keys, Rounds
<1>1. CASE Generate(w)
  <2>1. pc[w] = "generate" /\ UNCHANGED <<private, public, token, gen, read, spc, screen, faults>>
    BY <1>1 DEF Generate
  <2>2. CASE private # NoFile
    <3>1. GenerateEnds(w, TRUE)
      BY <1>1, <2>2 DEF Generate
    <3>2. "dropped" \notin faults' => private' = public' /\ (w \in Clicks => private'[1] = w)
      BY <1>0, <1>k, <2>1, <2>2 DEF Phase, Fresh
    <3> QED BY <2>1, <2>2, <3>1, <3>2, EndsKeep
  <2>3. CASE private = NoFile
    <3>1. /\ pc'[w] = "keygen" /\ round' = round
          /\ \A v \in Workers \ {w} : pc'[v] = pc[v]
      BY <1>1, <2>3 DEF Generate
    <3>2. "dropped" \notin faults' => Phase(w)'
      BY <1>0, <2>1, <2>3, <3>1 DEF Phase
    <3>3. "dropped" \notin faults' /\ w \in Clicks => Fresh(w)'
      BY <1>0, <2>1, <2>3, <3>1 DEF Fresh
    <3> QED BY <2>1, <3>1, <3>2, <3>3, StepKeeps DEF Busy
  <2> QED BY <2>2, <2>3
<1>2. CASE Keygen(w)
  <2>1. pc[w] = "keygen" /\ UNCHANGED <<public, token, gen, read, spc, screen, faults>>
    BY <1>2 DEF Keygen
  <2>2. CASE private # NoFile
    <3>1. GenerateEnds(w, FALSE)
      BY <1>2, <2>2 DEF Keygen
    <3>2. "dropped" \in faults'
      BY <1>0, <2>1, <2>2 DEF Phase
    <3> QED BY <2>1, <3>1, <3>2, EndsKeep
  <2>3. CASE private = NoFile
    <3>1. /\ pc'[w] = "keygenPublic" /\ round' = round /\ private' = <<w, round[w]>>
          /\ \A v \in Workers \ {w} : pc'[v] = pc[v]
      BY <1>2, <2>3 DEF Keygen
    <3>2. Phase(w)'
      BY <3>1 DEF Phase
    <3>3. Fresh(w)'
      BY <3>1 DEF Fresh
    <3> QED BY <2>1, <3>1, <3>2, <3>3, StepKeeps DEF Busy
  <2> QED BY <2>2, <2>3
<1>3. CASE KeygenPublic(w)
  <2>1. /\ pc[w] = "keygenPublic" /\ UNCHANGED <<private, token, gen, read, spc, screen, faults>>
        /\ public' = <<w, round[w]>> /\ GenerateEnds(w, TRUE)
    BY <1>3 DEF KeygenPublic
  <2>2. "dropped" \notin faults' => private' = <<w, round[w]>>
    BY <1>0, <2>1 DEF Phase
  <2>3. "dropped" \notin faults' => private' = public' /\ private' # NoFile
    BY <1>k, <2>1, <2>2
  <2>4. "dropped" \notin faults' => private'[1] = w
    BY ONLY <2>2
  <2> QED BY <2>1, <2>3, <2>4, EndsKeep
<1>4. CASE KeygenFails(w)
  <2>1. /\ pc[w] \in {"keygen", "keygenPublic"}
        /\ UNCHANGED <<private, public, token, gen, read, spc, screen>>
        /\ GenerateEnds(w, FALSE)
    BY <1>4 DEF KeygenFails
  <2>2. "dropped" \notin faults' =>
            "dropped" \notin faults /\ "noticed" \in faults' /\
            (pc[w] = "keygen" \/ round[w] = "build")
    BY <1>4, <1>k DEF KeygenFails
  <2>3. "dropped" \notin faults' /\ pc[w] = "keygen" => private = NoFile /\ public = NoFile
    BY <1>0, <2>2 DEF Phase
  <2> QED BY <1>k, <2>1, <2>2, <2>3, EndsKeep
<1> QED BY <1>1, <1>2, <1>3, <1>4

\* The rest of build_pairing_info up to its result.
LEMMA ReadsKeep ==
    ASSUME TypeInv, PairingInv, ~mixed, UNCHANGED mixed, NEW w \in Workers,
           ReadPublic(w) \/ ReadToken(w) \/ WriteToken(w)
    PROVE  PairingInv'
<1> USE PairingConstants DEF TypeInv, TypeOK, Goto, files
<1>0. "dropped" \notin faults => Phase(w) /\ (w \in Clicks => Fresh(w))
  BY DEF PairingInv, Alone, Phases
<1>1. CASE ReadPublic(w)
  <2>1. /\ pc[w] = "readPublic"
        /\ UNCHANGED <<private, public, token, round, gen, spc, screen>>
        /\ \A v \in Workers \ {w} : pc'[v] = pc[v]
        /\ "dropped" \notin faults' => "dropped" \notin faults
    BY <1>1 DEF ReadPublic
  <2>2. CASE pc'[w] = "readToken" /\ read'[w] = public
    <3>1. "dropped" \notin faults' => Phase(w)'
      BY <1>0, <2>1, <2>2 DEF Phase
    <3>2. "dropped" \notin faults' /\ w \in Clicks => Fresh(w)'
      BY <1>0, <2>1, <2>2 DEF Phase, Fresh
    <3> QED BY <2>1, <2>2, <3>1, <3>2, StepKeeps DEF Busy
  <2>3. CASE pc'[w] = "post" /\ got'[w] = Failed /\ (public = NoFile \/ "noticed" \in faults')
    <3>1. "dropped" \notin faults' => Phase(w)'
      BY <2>3 DEF Phase, Agrees
    <3>2. "dropped" \notin faults' /\ w \in Clicks => Fresh(w)'
      BY <1>0, <2>1, <2>3 DEF Phase, Fresh
    <3> QED BY <2>1, <2>3, <3>1, <3>2, StepKeeps DEF Busy
  <2> QED BY <1>1, <2>2, <2>3 DEF ReadPublic
<1>2. CASE ReadToken(w)
  <2>1. /\ pc[w] = "readToken"
        /\ UNCHANGED <<private, public, token, round, gen, read, spc, screen, faults>>
        /\ \A v \in Workers \ {w} : pc'[v] = pc[v]
        /\ \/ pc'[w] = "writeToken"
           \/ pc'[w] = "post" /\ got'[w] = [pk |-> read[w], token |-> token] /\ token # NoFile
    BY <1>2 DEF ReadToken, Embed
  <2>2. read[w] \in Keys /\ (token # NoFile => [pk |-> read[w], token |-> token] \in QRs)
    BY <2>1 DEF QRs
  <2>3. "dropped" \notin faults' => Phase(w)'
    BY <1>0, <2>1 DEF Phase, Agrees
  <2>4. "dropped" \notin faults' /\ w \in Clicks => Fresh(w)'
    BY <1>0, <2>1, <2>2 DEF Fresh
  <2> QED BY <2>1, <2>3, <2>4, StepKeeps DEF Busy
<1>3. CASE WriteToken(w)
  <2>1. /\ pc[w] = "writeToken" /\ pc'[w] = "post"
        /\ got'[w] = [pk |-> read[w], token |-> w]
        /\ UNCHANGED <<private, public, round, gen, read, spc, screen>>
        /\ \A v \in Workers \ {w} : pc'[v] = pc[v]
    BY <1>3 DEF WriteToken, Embed
  <2>2. "dropped" \notin faults' => "dropped" \notin faults /\ token' = w
    BY <1>3 DEF WriteToken, Dropped
  <2>3. got'[w] \in QRs
    BY <2>1 DEF QRs, Tokens
  <2>4. "dropped" \notin faults' => Phase(w)'
    BY <1>0, <2>1, <2>2 DEF Phase, Agrees
  <2>5. "dropped" \notin faults' /\ w \in Clicks => Fresh(w)'
    BY <1>0, <2>1, <2>2, <2>3 DEF Fresh
  <2> QED BY <2>1, <2>4, <2>5, StepKeeps DEF Busy
<1> QED BY <1>1, <1>2, <1>3

\* The result goes to the page, with the generation after the page's.
LEMMA PostKeeps ==
    ASSUME TypeInv, PairingInv, ~mixed, UNCHANGED mixed, NEW w \in Workers, Post(w)
    PROVE  PairingInv'
<1> USE PairingConstants DEF TypeInv, TypeOK, Goto, files
<1>1. pc[w] = "post" /\ inbox = <<>> /\ gen[w] = pairing.gen + 1
  BY DEF PairingInv, Alone, Serial, Busy, Post
<1>2. /\ inbox' = <<[gen |-> gen[w], info |-> got[w]]>>
      /\ UNCHANGED <<files, round, pairing, painted, faults>>
  BY <1>1 DEF Post
<1>3. pc'[w] = "done" /\ \A v \in Workers \ {w} : pc'[v] = pc[v] /\ pc[v] \in {"idle", "done"}
  BY <1>1 DEF Post, PairingInv, Alone, Serial, Busy
<1>4. Serial'
  BY <1>1, <1>2, <1>3 DEF Serial, Busy
<1>5. PaintedUpToDate' /\ PaintedOfPage'
  BY <1>2 DEF PairingInv, PaintedOfPage, PaintedUpToDate, Quiet
<1>6. StartsOver'
  BY <1>2, <1>3 DEF PairingInv, StartsOver, Workers
<1>7. Phases'
  <2>1. \A v \in Workers : Phase(v)'
    BY <1>3 DEF Phase
  <2>2. \A c \in Clicks : Fresh(c)'
    BY <1>3 DEF Fresh, Workers
  <2> QED BY <2>1, <2>2 DEF Phases
<1>8. Posted'
  <2>1. "dropped" \notin faults => Agrees(got[w])
    BY <1>1 DEF PairingInv, Alone, Phases, Phase
  <2>2. inbox'[1].info = got[w] /\ inbox' # <<>>
    BY <1>2
  <2>3. "dropped" \notin faults' => Agrees(inbox[1].info)'
    BY <1>2, <2>1, <2>2 DEF Agrees
  <2> QED BY <2>2, <2>3 DEF Posted, Quiet
<1> QED BY <1>4, <1>5, <1>6, <1>7, <1>8 DEF PairingInv, Alone

\* A click that finds the workers at rest starts anew, whatever files, flags and
\* paintings those before it have left.
LEMMA ClickKeeps ==
    ASSUME TypeInv, PairingInv, Quiet, NEW c \in Clicks, Click(c)
    PROVE  PairingInv'
<1> USE PairingConstants DEF TypeInv, TypeOK, Goto, files, Workers
<1>1. Quiet /\ pc[c] = "idle" /\ round[c] = "regenerate"
  BY DEF Click, PairingInv, StartsOver
<1>2. /\ pc'[c] = "removePrivate" /\ gen'[c] = pairing.gen + 1
      /\ \A v \in Workers \ {c} : pc'[v] = pc[v] /\ pc[v] \in {"idle", "done"}
      /\ UNCHANGED <<files, round, read, got, screen>>
  BY <1>1 DEF Click, Quiet
<1>3. inbox' = <<>> /\ pairing' = pairing /\ painted' = painted
  BY <1>1, <1>2 DEF Quiet, screen
<1>4. Serial'
  BY <1>2, <1>3 DEF Serial, Busy
<1>5. PaintedUpToDate' /\ PaintedOfPage'
  BY <1>2, <1>3 DEF PairingInv, PaintedOfPage, PaintedUpToDate, Quiet
<1>6. StartsOver'
  BY <1>1, <1>2 DEF PairingInv, StartsOver
<1>7. Phases'
  <2>1. \A v \in Workers : Phase(v)'
    BY <1>2 DEF Phase
  <2>2. \A d \in Clicks : Fresh(d)'
    BY <1>2 DEF Fresh
  <2> QED BY <2>1, <2>2 DEF Phases
<1>8. Posted'
  BY <1>2, <1>3 DEF Posted, Quiet
<1> QED BY <1>4, <1>5, <1>6, <1>7, <1>8 DEF PairingInv, Alone

\* A session changes the token only, to one of its own.
LEMMA SessionsKeep ==
    ASSUME TypeInv, PairingInv, ~mixed, UNCHANGED mixed, NEW s \in Sessions, SessionReads(s) \/ SessionWrites(s)
    PROVE  PairingInv'
<1> USE DEF files, worker, screen
<1>1. /\ UNCHANGED <<private, public, pc, round, gen, read, got, inbox, pairing, painted, faults>>
      /\ token' = token \/ token' \in Sessions
  BY DEF SessionReads, SessionWrites
<1>2. \A qr : Agrees(qr) => Agrees(qr)'
  BY <1>1 DEF Agrees
<1>3. Serial' /\ PaintedUpToDate' /\ PaintedOfPage' /\ StartsOver'
  BY <1>1 DEF PairingInv, Alone, Serial, PaintedUpToDate, PaintedOfPage, StartsOver, Busy, Quiet
<1>4. \A w \in Workers : Phase(w) => Phase(w)'
  BY <1>1, <1>2 DEF Phase
<1>5. \A c \in Clicks : Fresh(c) => Fresh(c)'
  BY <1>1 DEF Fresh
<1>6. Phases'
  BY <1>1, <1>4, <1>5 DEF PairingInv, Alone, Phases
<1>7. Posted'
  BY <1>1, <1>2 DEF PairingInv, Alone, Posted, Quiet
<1> QED BY <1>3, <1>6, <1>7 DEF PairingInv, Alone

\* The page takes the one result under way, of a newer generation than the
\* canvas shows: so the canvas is painted again.
LEMMA RenderKeeps ==
    ASSUME TypeInv, PairingInv, ~mixed, UNCHANGED mixed, Render \/ Remount
    PROVE  PairingInv'
<1> USE PairingConstants DEF TypeInv, TypeOK, files, worker
<1>0. UNCHANGED <<files, worker, spc, faults>>
  BY DEF Render, Remount
<1>1. CASE Render
  <2>1. Len(inbox) = 1 /\ inbox[1].gen = pairing.gen + 1 /\ inbox # <<>>
    BY <1>1 DEF Render, PairingInv, Alone, Serial
  <2>2. inbox' = <<>> /\ pairing' = inbox[1] /\ pairing'.gen = pairing.gen + 1
    BY <1>1, <2>1, HeadTailProperties DEF Render
  <2>3. \A w \in Workers : ~Busy(w)
    BY <2>1 DEF PairingInv, Alone, Serial
  <2>4. Serial' /\ StartsOver' /\ Phases'
    <3>1. Serial'
      BY <1>0, <2>2, <2>3 DEF Serial, Busy
    <3>2. StartsOver'
      BY <1>0 DEF PairingInv, StartsOver
    <3>3. (\A w \in Workers : Phase(w)') /\ (\A c \in Clicks : Fresh(c)')
      BY <1>0, <2>3 DEF Phase, Fresh, Busy, Workers
    <3> QED BY <3>1, <3>2, <3>3 DEF Phases
  <2>5. PaintedUpToDate' /\ PaintedOfPage'
    <3>0. painted = NoQR \/ painted.gen = pairing.gen
      BY DEF PairingInv, PaintedOfPage
    <3>1. painted # NoQR => painted.gen # pairing'.gen
      BY <2>2, <3>0 DEF Results
    <3>2. painted' = NoQR \/ painted' = [gen |-> pairing'.gen, qr |-> pairing'.info]
      BY <1>1, <3>1 DEF Render, Paint
    <3> QED BY <3>2 DEF PaintedUpToDate, PaintedOfPage
  <2>6. Posted'
    BY <1>0, <2>1, <2>2 DEF PairingInv, Alone, Posted, Agrees
  <2> QED BY <2>4, <2>5, <2>6 DEF PairingInv, Alone
<1>2. CASE Remount
  <2>1. UNCHANGED <<inbox, pairing>> /\ painted' = [gen |-> pairing.gen, qr |-> pairing.info]
    BY <1>2 DEF Remount, Paint
  <2>2. PaintedUpToDate' /\ PaintedOfPage'
    BY <2>1 DEF PaintedUpToDate, PaintedOfPage
  <2>3. Serial' /\ StartsOver'
    BY <1>0, <2>1 DEF PairingInv, Alone, Serial, StartsOver, Busy
  <2>4. Phases'
    BY <1>0 DEF PairingInv, Alone, Phases, Phase, Fresh, Agrees
  <2>5. Posted'
    BY <1>0, <2>1 DEF PairingInv, Alone, Posted, Agrees, Quiet
  <2> QED BY <2>2, <2>3, <2>4, <2>5 DEF PairingInv, Alone
<1> QED BY <1>1, <1>2

\* What remains true while workers overlap.
LEMMA MixedKeeps ==
    ASSUME TypeInv, PairingInv, [Next]_vars, mixed'
    PROVE  PairingInv'
<1> USE PairingConstants DEF TypeInv, TypeOK, Goto, files, worker, screen
<1>1. PaintedOfPage'
  <2>1. Render \/ Remount \/ UNCHANGED <<pairing, painted>>
    BY DEF Next, vars, Click, WorkerStep, RemovePrivate, RemovePublic, RemoveToken, Generate,
       Keygen, KeygenPublic, KeygenFails, ReadPublic, ReadToken, WriteToken, Post,
       SessionReads, SessionWrites
  <2> QED BY <2>1 DEF PairingInv, PaintedOfPage, Render, Remount, Paint
<1>2. StartsOver'
  <2> SUFFICES ASSUME NEW c \in Clicks,
                      pc'[c] \in {"idle", "removePrivate", "removePublic", "removeToken"}
               PROVE  round'[c] = "regenerate"
    BY DEF StartsOver
  <2>0. pc[c] \in {"idle", "removePrivate", "removePublic", "removeToken"} =>
            round[c] = "regenerate"
    BY DEF PairingInv, StartsOver
  <2>1. ASSUME NEW d \in Clicks, Click(d) PROVE round'[c] = "regenerate"
    BY <2>0, <2>1 DEF Click, Workers
  <2>2. ASSUME NEW w \in Workers, RemovePrivate(w) \/ RemovePublic(w) \/ RemoveToken(w)
        PROVE  round'[c] = "regenerate"
    BY <2>0, <2>2 DEF RemovePrivate, RemovePublic, RemoveToken, Workers
  <2>3. ASSUME NEW w \in Workers, NEW ok \in BOOLEAN, GenerateEnds(w, ok)
        PROVE  round'[c] = "regenerate"
    BY <2>0, <2>3 DEF GenerateEnds, Workers
  <2>4. ASSUME NEW w \in Workers,
               Generate(w) \/ Keygen(w) \/ KeygenPublic(w) \/ KeygenFails(w)
        PROVE  round'[c] = "regenerate"
    BY <2>0, <2>3, <2>4 DEF Generate, Keygen, KeygenPublic, KeygenFails, Workers
  <2>5. ASSUME NEW w \in Workers, ReadPublic(w) \/ ReadToken(w) \/ WriteToken(w) \/ Post(w)
        PROVE  round'[c] = "regenerate"
    BY <2>0, <2>5 DEF ReadPublic, ReadToken, WriteToken, Post, Workers
  <2>6. ASSUME UNCHANGED <<pc, round>> PROVE round'[c] = "regenerate"
    BY <2>0, <2>6
  <2> QED BY <2>1, <2>2, <2>4, <2>5, <2>6 DEF Next, vars, WorkerStep, SessionReads,
             SessionWrites, Render, Remount
<1> QED BY <1>1, <1>2 DEF PairingInv

\* A step of a worker that is alone, or of a click that finds none.
LEMMA AloneKeeps ==
    ASSUME TypeInv, PairingInv, [Next]_vars, ~mixed'
    PROVE  PairingInv'
<1>1. ASSUME NEW c \in Clicks, Click(c) PROVE PairingInv'
  <2>1. Quiet
    BY <1>1 DEF Click
  <2> QED BY <1>1, <2>1, ClickKeeps
<1>2. ASSUME NEW w \in Workers, WorkerStep(w), UNCHANGED mixed PROVE PairingInv'
  BY <1>2, RemovesKeep, GeneratesKeep, ReadsKeep, PostKeeps DEF WorkerStep
<1>3. ASSUME NEW s \in Sessions, SessionReads(s) \/ SessionWrites(s), UNCHANGED mixed
      PROVE  PairingInv'
  BY <1>3, SessionsKeep
<1>4. CASE (Render \/ Remount) /\ UNCHANGED mixed
  BY <1>4, RenderKeeps
<1>5. CASE UNCHANGED vars
  <2>1. UNCHANGED <<private, public, token, pc, round, gen, read, got,
                    inbox, pairing, painted, faults, mixed>>
    BY <1>5 DEF vars, files, worker, screen
  <2>2. Serial' /\ PaintedUpToDate' /\ PaintedOfPage' /\ StartsOver'
    BY <2>1 DEF PairingInv, Alone, Serial, PaintedUpToDate, PaintedOfPage, StartsOver, Busy, Quiet
  <2>3. Phases'
    BY <2>1 DEF PairingInv, Alone, Phases, Phase, Fresh, Agrees
  <2>4. Posted'
    BY <2>1 DEF PairingInv, Alone, Posted, Agrees, Quiet
  <2> QED BY <2>2, <2>3, <2>4 DEF PairingInv, Alone
<1> QED BY <1>1, <1>2, <1>3, <1>4, <1>5 DEF Next

LEMMA PairingInit == Init => TypeInv /\ PairingInv
<1> SUFFICES ASSUME Init PROVE PairingInv
  BY TypeInit
<1> USE PairingConstants DEF Init
<1>1. \A w \in Workers : Busy(w) => w = Preload /\ pc[w] = "generate"
  BY DEF Busy
<1>2. Serial
  BY <1>1 DEF Serial
<1>3. PaintedUpToDate /\ PaintedOfPage
  BY DEF PaintedUpToDate, PaintedOfPage
<1>4. \A c \in Clicks : pc[c] = "idle" /\ round[c] = "regenerate"
  BY DEF Workers
<1>5. StartsOver
  BY <1>4 DEF StartsOver
<1>6. \A w \in Workers : Phase(w)
  BY <1>1 DEF Phase, Busy
<1>7. Phases
  BY <1>4, <1>6 DEF Phases, Fresh
<1>8. Posted
  BY DEF Posted, Agrees
<1> QED BY <1>2, <1>3, <1>5, <1>7, <1>8 DEF PairingInv, Alone

LEMMA PairingAlways == Spec => [](TypeInv /\ PairingInv)
<1>1. TypeInv /\ PairingInv /\ [Next]_vars => (TypeInv /\ PairingInv)'
  BY TypeNext, MixedKeeps, AloneKeeps
<1> QED BY PairingInit, <1>1, PTL DEF Spec
------------------------------------------------------------------------------
(* What the user sees *)

\* With clicks at any time, and whatever fails: once no worker runs, the QR on
\* screen shows the key pair on disk, both of its halves, unless the last click
\* overlapped with a worker or the error of a failed file operation was dropped.
THEOREM ShownKey == Spec => []KeyShown
<1>1. TypeInv /\ PairingInv => KeyShown
  BY PairingConstants DEF TypeInv, TypeOK, PairingInv, Alone, PaintedUpToDate, Posted, Agrees,
     KeyShown
<1> QED BY <1>1, PairingAlways, PTL

\* Likewise the QR holds the token that the server compares with, unless a
\* session of the server made the token.
THEOREM ShownToken == Spec => []TokenShown
<1>1. TypeInv /\ PairingInv => TokenShown
  BY PairingConstants DEF TypeInv, TypeOK, PairingInv, Alone, PaintedUpToDate, Posted, Agrees,
     TokenShown
<1> QED BY <1>1, PairingAlways, PTL

\* A click on "Generate" that finds the workers at rest and that no other
\* overtakes ends with a key of its own or with an error, whatever files the
\* clicks before it have mixed up.
THEOREM FreshKey == Spec => []GenerateIsFresh
<1>1. PairingInv => GenerateIsFresh
  BY DEF PairingInv, Alone, Phases, Fresh, GenerateIsFresh
<1> QED BY <1>1, PairingAlways, PTL

\* The canvas has the generation of the page, however clicks overlap, so that
\* a click that finds the workers at rest makes it repaint: then it shows what
\* the page holds.
THEOREM CanvasFollows == Spec => []PaintedIsPairing
<1>1. PairingInv => PaintedIsPairing
  BY DEF PairingInv, PaintedOfPage, Alone, PaintedUpToDate, PaintedIsPairing
<1> QED BY <1>1, PairingAlways, PTL
==============================================================================
