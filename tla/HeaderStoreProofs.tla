-------------------------- MODULE HeaderStoreProofs --------------------------
(* That the store and its file are one linked chain, and that no step takes  *)
(* work from it: proofs for every set of chains, every number of restarts    *)
(* and every order of the threads.                                           *)
EXTENDS HeaderChainProofs

-----------------------------------------------------------------------------
(* The invariant: the store, its file and the worker of the current token.   *)

\* A message's headers start where it says, without gaps, and link.
From(raws, start) ==
    DOMAIN raws = {} \/ \E e \in Nat : start <= e /\ DOMAIN raws = start .. e

Msgs == {m \in [kind : {"tip", "batch", "error"}, start : Nat, raws : HeaderMap,
                header : HeaderRec] : From(m.raws, m.start) /\ Linked(m.raws)}

\* Workers of earlier tokens are left out: they no longer write.  Those of later
\* ones have not been spawned.
WorkersInv ==
    /\ token \in Tokens
    /\ wk = [k \in Tokens |-> wk[k]] /\ req = [k \in Tokens |-> req[k]]
    /\ resp = [k \in Tokens |-> resp[k]] /\ up = [k \in Tokens |-> up[k]]
    /\ \A k \in Tokens : k > token =>
          wk[k] = NoWorker /\ req[k] = << >> /\ resp[k] = << >> /\ up[k] = FALSE
    /\ Fits(wk[token], store)
    /\ req[token] \in Seq(Asks) /\ resp[token] \in Seq(Msgs)
    /\ best \in DOMAIN Chains
    /\ wanted \subseteq Nat

\* The store and its file are what was loaded, then empty or already accepted,
\* and from then on a chain.
ChainsInv ==
    /\ checkpoint \in Checkpoints
    /\ \/ /\ replay = "check" /\ store = snapshot /\ disk = snapshot
          /\ FileMap(snapshot) /\ SanityCheck(checkpoint, snapshot)
       \/ replay = "publish" /\ store = NoChain /\ disk = NoChain
       \/ /\ replay = "done"
          /\ ChainOrEmpty(checkpoint, store) /\ disk = store

\* A step keeps that, and takes no work from the store.
ChainsKept == ChainsInv' /\ Gains(store, store')

\* The messages a server sends are of that form, whatever it is asked.
LEMMA MsgTypes ==
    ASSUME best \in DOMAIN Chains
    PROVE  TipMsg \in Msgs /\ \A ask \in Asks : BatchMsg(ask) \in Msgs /\ ErrorMsg(ask) \in Msgs
<1>1. PICK tip \in Nat : Chains[best] \in [0 .. tip -> Header]
  BY ChainsAssumption
<1>0. \A h \in DOMAIN Chains[best] \ {0} : Prev[Chains[best][h]] = Chains[best][h - 1]
  BY ChainsAssumption, Zenon
<1>2. PICK c \in [0 .. tip -> HeaderOrNone] : c = Chains[best]
  BY <1>1 DEF HeaderOrNone
<1>3. Top(c) = tip /\ c \in HeaderMap /\ c[tip] \in HeaderOrNone
  <2>1. 0 .. tip \in SUBSET Nat /\ DOMAIN c = 0 .. tip /\ 0 <= tip /\ tip \in 0 .. tip
    OBVIOUS
  <2> QED
    BY <2>1, Ends, MapIntro, Zenon
<1>4. NoChain \in HeaderMap /\ NoHeader \in HeaderRec /\ Linked(NoChain)
      /\ \A n : From(NoChain, n)
  BY NoChainIsMap, Zenon DEF NoHeader, HeaderRec, HeaderOrNone, From, Linked
<1>5. TipMsg \in Msgs
  <2>1. BestTip \in HeaderRec
    BY <1>2, <1>3, Zenon DEF BestTip, HeaderRec
  <2> QED
    BY <1>2, <1>3, <1>4, <2>1 DEF TipMsg, Msgs
<1>6. ASSUME NEW ask \in Asks PROVE BatchMsg(ask) \in Msgs /\ ErrorMsg(ask) \in Msgs
  <2> DEFINE raws == Part(c, ask.start .. ask.start + ask.count - 1)
  <2>1. ask.start \in Nat /\ ask.count \in Int
    BY DEF Asks
  <2>2. raws \in HeaderMap
    BY <1>3, PartType
  <2>3. DOMAIN raws = (0 .. tip) \cap (ask.start .. ask.start + ask.count - 1)
    BY PartValues, Zenon
  <2>6. \A h \in DOMAIN raws : raws[h] = c[h]
    BY <2>3, PartValues, Zenon
  <2> HIDE DEF raws
  <2>7. Linked(raws)
    <3> SUFFICES ASSUME NEW h \in DOMAIN raws, h - 1 \in DOMAIN raws
                 PROVE  Prev[raws[h]] = raws[h - 1]
      BY DEF Linked
    <3>1. raws[h] = c[h] /\ raws[h - 1] = c[h - 1]
      BY <2>6, Zenon
    <3>2. h \in DOMAIN Chains[best] \ {0}
      BY <1>1, <2>3
    <3> QED
      BY <1>0, <1>2, <3>1, <3>2, Zenon
  <2>4. From(raws, ask.start)
    <3>1. PICK e \in Int : e = IF tip < ask.start + ask.count - 1 THEN tip
                               ELSE ask.start + ask.count - 1
      BY <2>1
    <3>2. DOMAIN raws = ask.start .. e
      BY <2>1, <2>3, <3>1
    <3>3. e < ask.start \/ (e \in Nat /\ ask.start <= e)
      BY <2>1, <3>1
    <3>4. e < ask.start => ask.start .. e = {}
      BY <2>1
    <3> QED
      BY <3>2, <3>3, <3>4 DEF From
  <2>5. BatchMsg(ask) = [kind |-> "batch", start |-> ask.start, header |-> NoHeader,
                         raws |-> raws]
    BY <1>2 DEF BatchMsg, raws
  <2> QED
    BY <1>4, <2>1, <2>2, <2>4, <2>5, <2>7 DEF ErrorMsg, Msgs
<1> QED
  BY <1>5, <1>6

\* What a queue of a kind gives, and stays.
LEMMA SeqOps ==
    ASSUME NEW S, NEW q \in Seq(S)
    PROVE  /\ \A a \in S : Append(q, a) \in Seq(S)
           /\ q # << >> => Head(q) \in S /\ Tail(q) \in Seq(S)
OBVIOUS

\* Changing the entry of one worker.
LEMMA Updated ==
    ASSUME NEW f, f = [k \in Tokens |-> f[k]], NEW t \in Tokens, NEW v,
           NEW g, g = [f EXCEPT ![t] = v]
    PROVE  /\ g = [k \in Tokens |-> g[k]] /\ g[t] = v
           /\ \A k \in Tokens : k # t => g[k] = f[k]
<1>1. DOMAIN f = Tokens
  OBVIOUS
<1>2. g = [k \in Tokens |-> IF k = t THEN v ELSE f[k]]
  BY <1>1, Zenon
<1> QED
  BY <1>2

\* The current worker's step: its record fits the store it leaves, and it sends
\* at most one request and takes at most one response.
LEMMA OwnStep ==
    ASSUME WorkersInv, NEW r, Fits(r, store'), wk' = [wk EXCEPT ![token] = r],
           req' = req \/ \E a \in Asks : req' = [req EXCEPT ![token] = Append(@, a)],
           resp' = resp \/ (resp[token] # << >> /\ resp' = [resp EXCEPT ![token] = Tail(@)]),
           UNCHANGED <<token, best, up>>, wanted' \subseteq wanted
    PROVE  WorkersInv'
<1>0. /\ token \in Tokens
      /\ wk = [k \in Tokens |-> wk[k]] /\ req = [k \in Tokens |-> req[k]]
      /\ resp = [k \in Tokens |-> resp[k]]
      /\ req[token] \in Seq(Asks) /\ resp[token] \in Seq(Msgs)
  BY DEF WorkersInv
<1>1. token' \in Tokens /\ up' = [k \in Tokens |-> up'[k]] /\ best' \in DOMAIN Chains
      /\ wanted' \subseteq Nat
  BY DEF WorkersInv
<1>2. wk' = [k \in Tokens |-> wk'[k]] /\ wk'[token] = r
      /\ \A k \in Tokens : k # token => wk'[k] = wk[k]
  BY <1>0, Updated, Zenon
<1>3. req' = [k \in Tokens |-> req'[k]] /\ req'[token] \in Seq(Asks)
      /\ \A k \in Tokens : k # token => req'[k] = req[k]
  <2>1. CASE req' = req
    BY <1>0, <2>1
  <2>2. ASSUME NEW a \in Asks, req' = [req EXCEPT ![token] = Append(@, a)]
        PROVE  /\ req' = [k \in Tokens |-> req'[k]] /\ req'[token] \in Seq(Asks)
               /\ \A k \in Tokens : k # token => req'[k] = req[k]
    <3>0. req[token] \in Seq(Asks)
      BY <1>0
    <3>1. PICK q \in Seq(Asks) : q = Append(req[token], a)
      BY <3>0, SeqOps, Zenon
    <3>2. req' = [req EXCEPT ![token] = q]
      BY <2>2, <3>1
    <3> QED
      BY <1>0, <3>2, Updated, Zenon
  <2> QED
    BY <2>1, <2>2
<1>4. resp' = [k \in Tokens |-> resp'[k]] /\ resp'[token] \in Seq(Msgs)
      /\ \A k \in Tokens : k # token => resp'[k] = resp[k]
  <2>1. CASE resp' = resp
    BY <1>0, <2>1, Zenon
  <2>2. CASE resp[token] # << >> /\ resp' = [resp EXCEPT ![token] = Tail(@)]
    <3>0. resp[token] \in Seq(Msgs)
      BY <1>0
    <3>1. PICK q \in Seq(Msgs) : q = Tail(resp[token])
      BY <2>2, <3>0, SeqOps, Zenon
    <3>2. resp' = [resp EXCEPT ![token] = q]
      BY <2>2, <3>1
    <3> QED
      BY <1>0, <3>2, Updated, Zenon
  <2> QED
    BY <2>1, <2>2
<1>5. ASSUME NEW k \in Tokens, k > token'
      PROVE  wk'[k] = NoWorker /\ req'[k] = << >> /\ resp'[k] = << >> /\ up'[k] = FALSE
  <2>1. k # token /\ k > token
    BY <1>0, <1>5 DEF Tokens
  <2> QED
    BY <1>2, <1>3, <1>4, <2>1 DEF WorkersInv
<1> QED
  BY <1>1, <1>2, <1>3, <1>4, <1>5, Zenon DEF WorkersInv

\* The same, for a step that may ask.
LEMMA BecomeStep ==
    ASSUME WorkersInv, NEW r, Fits(r, store'), Become(token, r),
           resp' = resp \/ (resp[token] # << >> /\ Consume(token)),
           UNCHANGED <<token, best, up>>, wanted' \subseteq wanted
    PROVE  WorkersInv'
<1>1. r.ask \in Asks
  BY DEF Fits, WorkerRec
<1>2. wk' = [wk EXCEPT ![token] = r]
      /\ (req' = req \/ req' = [req EXCEPT ![token] = Append(@, r.ask)])
  BY DEF Become
<1>3. resp' = resp \/ (resp[token] # << >> /\ resp' = [resp EXCEPT ![token] = Tail(@)])
  BY Zenon DEF Consume
<1> QED
  BY <1>1, <1>2, <1>3, OwnStep, Zenon

\* f and g differ at k at most.
Apart(f, g, k) == g = [j \in Tokens |-> IF j = k THEN g[k] ELSE f[j]]

\* A step of a superseded worker disturbs nothing.
LEMMA OtherStep ==
    ASSUME WorkersInv, NEW k \in Tokens, k < token,
           Apart(wk, wk', k), Apart(req, req', k), Apart(resp, resp', k), Apart(up, up', k),
           UNCHANGED <<store, token, best>>, wanted' \subseteq wanted
    PROVE  WorkersInv'
<1> USE DEF WorkersInv, Apart, Tokens
<1>1. token # k
  OBVIOUS
<1>2. wk' = [j \in Tokens |-> wk'[j]] /\ req' = [j \in Tokens |-> req'[j]]
      /\ resp' = [j \in Tokens |-> resp'[j]] /\ up' = [j \in Tokens |-> up'[j]]
  BY Zenon
<1>3. ASSUME NEW j \in Tokens, j >= token
      PROVE  wk'[j] = wk[j] /\ req'[j] = req[j] /\ resp'[j] = resp[j] /\ up'[j] = up[j]
  BY <1>1, <1>3
<1>4. wk'[token] = wk[token] /\ req'[token] = req[token] /\ resp'[token] = resp[token]
  BY <1>3
<1>5. \A j \in Tokens : j > token =>
          wk'[j] = NoWorker /\ req'[j] = << >> /\ resp'[j] = << >> /\ up'[j] = FALSE
  BY <1>3
<1> QED
  BY <1>2, <1>4, <1>5, Zenon

\* A mutation that leaves chains keeps them; so does a step that writes nothing.
LEMMA Commits ==
    ASSUME ChainsInv, replay = "done", NEW m, Chained(m), Commit(m), UNCHANGED openVars
    PROVE  ChainsKept
<1>1. UNCHANGED <<checkpoint, replay>> /\ store' = m.store /\ disk' = m.disk
  BY DEF Commit, openVars
<1> QED
  BY <1>1 DEF ChainsInv, Chained, ChainsKept

\* A step that leaves the store and its file alone keeps what they are.
LEMMA StoreStays ==
    ASSUME ChainsInv, UNCHANGED <<store, disk, openVars>>
    PROVE  ChainsKept
<1>1. Gains(store, store')
  BY GainsByKeeping DEF Keeps
<1> QED
  BY <1>1 DEF ChainsInv, ChainsKept, openVars

-----------------------------------------------------------------------------
(* The steps of the current worker.                                          *)

\* What WorkersInv says of its record and of the response it has next.
LEMMA OwnRecord ==
    ASSUME WorkersInv
    PROVE  /\ wk[token] \in WorkerRec /\ Fits(wk[token], store)
           /\ wk[token].pc \notin Holding => wk[token].buf = NoChain
           /\ wk[token].inc \in HeaderRec /\ wk[token].inc.h \in Nat
           /\ wk[token].inc.b \in HeaderOrNone /\ wk[token].deferred \in Seq(HeaderRec)
           /\ resp[token] # << >> => Head(resp[token]) \in Msgs
<1>1. Fits(wk[token], store) /\ resp[token] \in Seq(Msgs)
  BY Zenon DEF WorkersInv
<1>2. wk[token] \in WorkerRec /\ (wk[token].pc \notin Holding => wk[token].buf = NoChain)
  BY <1>1, Zenon DEF Fits
<1>3. wk[token].inc \in HeaderRec /\ wk[token].deferred \in Seq(HeaderRec)
  BY <1>2, Zenon DEF WorkerRec
<1>4. wk[token].inc.h \in Nat /\ wk[token].inc.b \in HeaderOrNone
  BY <1>3 DEF HeaderRec
<1> QED
  BY <1>1, <1>2, <1>3, <1>4, SeqOps, Zenon

\* The fields of a message.
LEMMA MsgFields ==
    ASSUME NEW m \in Msgs
    PROVE  m.start \in Nat /\ m.raws \in HeaderMap /\ m.header \in HeaderRec
           /\ From(m.raws, m.start) /\ Linked(m.raws)
BY DEF Msgs

\* What most steps of a worker leave alone.
LEMMA Unmoved ==
    ASSUME UNCHANGED Others
    PROVE  UNCHANGED openVars /\ UNCHANGED <<token, best, up>>
BY Zenon DEF Others, ownVars

\* The subscription, when the replay is settled.
LEMMA UnparksKeeps ==
    ASSUME WorkersInv, ChainsInv, Unparks(token)
    PROVE  WorkersInv' /\ ChainsKept
<1>1. UNCHANGED <<store, disk, openVars, token, best, up, wanted, resp>>
  BY Unmoved, Zenon DEF Unparks, storeVars
<1>2. ChainsKept
  BY <1>1, StoreStays
<1>3. CASE wk' = [wk EXCEPT ![token] = Dead] /\ req' = req
  BY <1>1, <1>2, <1>3, PlainRecords, OwnStep, Zenon
<1>4. CASE /\ wk' = [wk EXCEPT ![token].pc = "tip"]
           /\ req' = [req EXCEPT ![token] = Append(@, Subscribe)]
  <2>1. PICK r \in WorkerRec : r = wk[token] /\ r.buf = NoChain
    BY OwnRecord DEF Unparks, Holding
  <2>2. [r EXCEPT !.pc = "tip"] \in WorkerRec /\ [r EXCEPT !.pc = "tip"].pc = "tip"
        /\ [r EXCEPT !.pc = "tip"].buf = NoChain
    BY <2>1, StepNames DEF WorkerRec, Anywhere
  <2>3. Fits([r EXCEPT !.pc = "tip"], store')
    BY <2>2, FitsAnywhere, Zenon DEF Anywhere
  <2>4. wk' = [wk EXCEPT ![token] = [r EXCEPT !.pc = "tip"]]
    BY <1>4, <2>1
  <2>5. Subscribe \in Asks
    BY DEF Subscribe, Asks
  <2> QED
    BY <1>1, <1>2, <1>4, <2>3, <2>4, <2>5, OwnStep, Zenon
<1> QED
  BY <1>2, <1>3, <1>4, Zenon DEF Unparks

\* The first tip.
LEMMA FirstTipKeeps ==
    ASSUME WorkersInv, ChainsInv, FirstTip(token)
    PROVE  WorkersInv' /\ ChainsKept
<1>1. UNCHANGED <<store, disk, openVars, token, best, up, wanted, req>>
  BY Unmoved, Zenon DEF FirstTip, storeVars
<1>2. ChainsKept
  BY <1>1, StoreStays
<1>3. PICK r \in WorkerRec : r = wk[token] /\ r.pc = "tip" /\ r.buf = NoChain
  BY OwnRecord DEF FirstTip, Holding
<1>4. CASE wk' = [wk EXCEPT ![token] = Dead] /\ resp' = resp
  BY <1>1, <1>2, <1>4, PlainRecords, OwnStep, Zenon
<1>5. CASE resp[token] # << >> /\ ~(wk' = [wk EXCEPT ![token] = Dead] /\ resp' = resp)
  <2>1. PICK msg \in Msgs : msg = Head(resp[token])
    BY <1>5, OwnRecord
  <2>2. resp' = [resp EXCEPT ![token] = Tail(@)]
    BY <1>5 DEF FirstTip, Consume
  <2>3. PICK q : /\ q = IF Stale(token) THEN Dead
                        ELSE IF msg.kind = "tip" THEN [r EXCEPT !.pc = "sync", !.inc = msg.header]
                        ELSE r
                 /\ wk' = [wk EXCEPT ![token] = q]
    BY <1>3, <1>5, <2>1 DEF FirstTip
  <2>4. [r EXCEPT !.pc = "sync", !.inc = msg.header] \in WorkerRec
        /\ [r EXCEPT !.pc = "sync", !.inc = msg.header].pc = "sync"
        /\ [r EXCEPT !.pc = "sync", !.inc = msg.header].buf = NoChain
    BY <1>3, <2>1, MsgFields, StepNames, Zenon DEF WorkerRec, Anywhere
  <2>5. Fits(q, store')
    BY <1>3, <2>3, <2>4, FitsAnywhere, PlainRecords, Zenon DEF Anywhere
  <2> QED
    BY <1>1, <1>2, <1>5, <2>2, <2>3, <2>5, OwnStep, Zenon
<1> QED
  BY <1>4, <1>5, Zenon DEF FirstTip

\* The extension a sync starts with.
LEMMA SyncKeeps ==
    ASSUME WorkersInv, ChainsInv, replay = "done", Sync(token)
    PROVE  WorkersInv' /\ ChainsKept
<1>1. UNCHANGED <<store, disk, openVars, token, best, up, wanted, resp>>
  BY Unmoved, Zenon DEF Sync, storeVars
<1>2. ChainsKept
  BY <1>1, StoreStays
<1>3. ChainOrEmpty(checkpoint, store) /\ checkpoint \in Checkpoints
  BY Zenon DEF ChainsInv
<1>4. PICK r \in WorkerRec : r = wk[token] /\ r.buf = NoChain /\ r.inc.h \in Nat
  BY OwnRecord DEF Sync, Holding
<1>5. PICK q : Become(token, q)
               /\ (q = ExtendFrom(r, SyncFloor(r.inc.h)) \/ q = At(r, "anchor"))
  BY <1>4, Zenon DEF Sync
<1>6. Fits(ExtendFrom(r, SyncFloor(r.inc.h)), store)
  BY <1>3, <1>4, SyncFloorType, ExtendFits, Zenon
<1>7. Fits(At(r, "anchor"), store)
  BY <1>4, AtFits, Zenon DEF Anywhere
<1>8. Fits(q, store')
  BY <1>1, <1>5, <1>6, <1>7
<1> QED
  BY <1>1, <1>2, <1>5, <1>8, BecomeStep

\* The wipe of a range above the floor, and what is asked for then.
LEMMA AnchorKeeps ==
    ASSUME WorkersInv, ChainsInv, replay = "done", Anchor(token)
    PROVE  WorkersInv' /\ ChainsKept
<1>1. UNCHANGED <<openVars, token, best, up, wanted, resp>>
  BY Unmoved, Zenon DEF Anchor
<1>2. ChainOrEmpty(checkpoint, store) /\ disk = store
      /\ checkpoint \in Checkpoints
  BY Zenon DEF ChainsInv
<1>3. PICK r \in WorkerRec : r = wk[token] /\ r.buf = NoChain /\ r.inc.h \in Nat
  BY OwnRecord, Zenon DEF Anchor, Holding
<1>4. PICK low \in Nat : low = SyncFloor(r.inc.h)
  BY <1>2, <1>3, SyncFloorType
<1>5. PICK m : /\ m = IF store = NoChain THEN Untouched("ok")
                      ELSE IF low < Floor(store) THEN Wipe ELSE Untouched("ok")
               /\ Commit(m)
               /\ IF (low = 0 /\ 0 \notin DOMAIN m.store) \/ (low > 0 /\ m.store = NoChain)
                  THEN Become(token, Ask(r, "genesis", 0, 1))
                  ELSE Become(token, Fill(r, m.store))
  BY <1>3, <1>4, Zenon DEF Anchor, WithWriter
<1>6. Chained(m)
  BY <1>2, <1>5, PlainResults, Zenon
<1>7. ChainsKept /\ store' = m.store /\ ChainOrEmpty(checkpoint, m.store)
  BY <1>1, <1>5, <1>6, Commits, Zenon DEF Commit, Chained
<1>8. CASE Become(token, Fill(r, m.store))
  BY <1>1, <1>2, <1>3, <1>7, <1>8, FillFits, BecomeStep, Zenon
<1>9. CASE /\ (low = 0 /\ 0 \notin DOMAIN m.store) \/ (low > 0 /\ m.store = NoChain)
           /\ Become(token, Ask(r, "genesis", 0, 1))
  <2>1. m.store = NoChain
    <3> SUFFICES ASSUME low = 0, 0 \notin DOMAIN m.store, m.store # NoChain PROVE FALSE
      BY <1>9
    <3>1. m.store = store /\ store # NoChain /\ ~(low < Floor(store))
      BY <1>5, ResultFields DEF Wipe
    <3>2. PICK a, b \in Nat : ChainFrom(checkpoint, store, a, b)
      BY <1>2, <3>1 DEF ChainOrEmpty
    <3>3. DOMAIN store = a .. b /\ Floor(store) = a /\ a <= b
      BY <3>2, ChainShape, Zenon
    <3> QED
      BY <3>1, <3>3
  <2>2. "genesis" \in Waiting /\ 0 \in Nat /\ 1 \in Int
    BY DEF Waiting
  <2>3. PICK q : q = Ask(r, "genesis", 0, 1)
    BY Zenon
  <2>4. q \in WorkerRec /\ q.pc = "genesis" /\ q.ask.start = 0 /\ q.buf = NoChain
    BY <1>3, <2>2, <2>3, AskFields
  <2>5. Fits(q, store')
    BY <1>7, <2>1, <2>4, Zenon DEF Fits
  <2> QED
    BY <1>1, <1>7, <1>9, <2>3, <2>5, BecomeStep, Zenon
<1> QED
  BY <1>5, <1>8, <1>9, Zenon

\* The genesis arrives.
LEMMA GenesisKeeps ==
    ASSUME WorkersInv, ChainsInv, replay = "done", GenesisAnswer(token)
    PROVE  WorkersInv' /\ ChainsKept
<1>1. UNCHANGED <<openVars, token, best, up, wanted>> /\ resp[token] # << >>
      /\ Consume(token)
  BY Unmoved, Zenon DEF GenesisAnswer, Answered
<1>2. ChainOrEmpty(checkpoint, store) /\ disk = store
      /\ checkpoint \in Checkpoints
  BY DEF ChainsInv
<1>3. PICK r \in WorkerRec : r = wk[token] /\ r.buf = NoChain /\ Fits(r, store)
                             /\ r.pc = "genesis"
  BY OwnRecord, Zenon DEF GenesisAnswer, Holding
<1>4. store = NoChain /\ r.ask.start = 0
  BY <1>3, Zenon DEF Fits
<1>5. PICK b \in HeaderOrNone : b = Head(resp[token]).raws[0]
  <2>1. PICK msg \in Msgs : msg = Head(resp[token])
    BY <1>1, OwnRecord, Zenon
  <2>2. msg.start = 0 /\ DOMAIN msg.raws # {}
    BY <1>3, <1>4, <2>1, Zenon DEF GenesisAnswer, Answered
  <2>3. msg.raws \in [DOMAIN msg.raws -> HeaderOrNone] /\ 0 \in DOMAIN msg.raws
    BY <2>2, MsgFields, MapElim DEF From
  <2> QED
    BY <2>1, <2>3, Zenon
<1>6. PICK m : /\ m = CASE b # Genesis -> Wipe
                        [] b = Genesis /\ SyncFloor(r.inc.h) = 0 -> Append1(0, b)
                        [] OTHER -> Untouched("ok")
               /\ Commit(IF m.res = "error" THEN Wipe ELSE m)
               /\ Become(token, IF b # Genesis \/ m.res # "ok" THEN SyncFailed(r)
                                ELSE Fill(r, m.store))
  BY <1>3, <1>5, Zenon DEF GenesisAnswer, WithWriter
<1>7. m = Wipe \/ m = Append1(0, b) \/ m = Untouched("ok")
  BY <1>6, Zenon
<1>8. Chained(m) /\ Chained(Wipe)
  <2>1. Chained(Wipe) /\ Chained(Untouched("ok"))
    BY <1>2, PlainResults, Zenon
  <2>2. Chained(Append1(0, b))
    BY <1>2, <1>4, <1>5, Append1Keeps
  <2> QED
    BY <1>7, <2>1, <2>2, Zenon
<1>9. PICK c : Commit(c) /\ c = IF m.res = "error" THEN Wipe ELSE m
  BY <1>6, Zenon
<1>10. ChainsKept /\ store' = c.store
  BY <1>1, <1>8, <1>9, Commits, Zenon DEF Commit
<1>11. CASE b # Genesis \/ m.res # "ok"
  BY <1>1, <1>3, <1>6, <1>10, <1>11, ReturnFits, BecomeStep
<1>12. CASE ~(b # Genesis \/ m.res # "ok")
  <2>1. Become(token, Fill(r, m.store)) /\ store' = m.store
    BY <1>6, <1>9, <1>10, <1>12, Zenon
  <2>2. Fits(Fill(r, m.store), store')
    BY <1>2, <1>3, <1>8, <2>1, FillFits, Zenon DEF Chained
  <2> QED
    BY <1>1, <1>10, <2>1, <2>2, BecomeStep, Zenon
<1> QED
  BY <1>11, <1>12

\* A batch of the backfill arrives.
LEMMA FillKeeps ==
    ASSUME WorkersInv, ChainsInv, replay = "done", FillAnswer(token)
    PROVE  WorkersInv' /\ ChainsKept
<1>1. UNCHANGED <<openVars, token, best, up, wanted>> /\ resp[token] # << >>
      /\ Consume(token)
  BY Unmoved, Zenon DEF FillAnswer, Answered
<1>2. ChainOrEmpty(checkpoint, store) /\ disk = store
      /\ checkpoint \in Checkpoints
  BY DEF ChainsInv
<1>3. PICK r \in WorkerRec : r = wk[token] /\ r.buf = NoChain /\ Fits(r, store)
                             /\ r.pc = "fill"
  BY OwnRecord, Zenon DEF FillAnswer, Holding
<1>4. store = NoChain \/ r.ask.start = Top(store) + 1
  BY <1>3, Zenon DEF Fits
<1>5. PICK msg \in Msgs : msg = Head(resp[token])
  BY <1>1, OwnRecord
<1>6. msg.start = r.ask.start /\ DOMAIN msg.raws # {}
  BY <1>3, <1>5, Zenon DEF FillAnswer, Answered
<1>7. PICK m : m = AppendBatch(msg.raws) /\ Commit(m)
               /\ Become(token, IF m.res = "ok" THEN Fill(r, m.store) ELSE SyncFailed(r))
  BY <1>3, <1>5, Zenon DEF FillAnswer, WithWriter
<1>8. Chained(m)
  <2>1. PICK start \in Nat, e \in Nat : start = msg.start /\ start <= e
                                        /\ DOMAIN msg.raws = start .. e
    BY <1>6, MsgFields, Zenon DEF From
  <2>2. msg.raws \in HeaderMap /\ Linked(msg.raws)
    BY MsgFields, Zenon
  <2> QED
    BY <1>2, <1>4, <1>6, <1>7, <2>1, <2>2, AppendBatchKeeps, Zenon
<1>9. ChainsKept /\ store' = m.store
  BY <1>1, <1>7, <1>8, Commits, Zenon DEF Commit
<1>10. Fits(Fill(r, m.store), store') /\ Fits(SyncFailed(r), store')
  BY <1>2, <1>3, <1>8, <1>9, FillFits, ReturnFits, Zenon DEF Chained
<1> QED
  BY <1>1, <1>7, <1>9, <1>10, BecomeStep, Zenon

\* Retries and cancellations of the initial sync.
LEMMA InitialKeeps ==
    ASSUME WorkersInv, ChainsInv, InitialRetries(token) \/ InitialCancelled(token)
    PROVE  WorkersInv' /\ ChainsKept
<1>1. UNCHANGED <<store, disk, openVars, token, best, up, wanted>>
  BY Unmoved, Zenon DEF InitialRetries, InitialCancelled, storeVars
<1>2. ChainsKept
  BY <1>1, StoreStays, Zenon
<1>3. PICK r \in WorkerRec : r = wk[token] /\ Fits(r, store)
  BY OwnRecord, Zenon
<1>4. CASE InitialRetries(token)
  <2>1. Become(token, r) /\ resp[token] # << >> /\ Consume(token)
    BY <1>3, <1>4, Zenon DEF InitialRetries
  <2> QED
    BY <1>1, <1>2, <1>3, <2>1, BecomeStep, Zenon
<1>5. CASE InitialCancelled(token)
  <2>1. Become(token, SyncFailed(r)) /\ resp' = resp
    BY <1>3, <1>5, Zenon DEF InitialCancelled
  <2> QED
    BY <1>1, <1>2, <1>3, <2>1, ReturnFits, BecomeStep, Zenon
<1> QED
  BY <1>4, <1>5

\* A header that is parked leaves the worker where it is.
LEMMA ParksKeeps ==
    ASSUME WorkersInv, ChainsInv, Parks(token)
    PROVE  WorkersInv' /\ ChainsKept
<1>1. UNCHANGED <<store, disk, openVars, token, best, up, wanted, req>>
      /\ resp[token] # << >> /\ resp' = [resp EXCEPT ![token] = Tail(@)]
  BY Unmoved, Zenon DEF Parks, storeVars, Consume
<1>2. ChainsKept
  BY <1>1, StoreStays, Zenon
<1>3. PICK r \in WorkerRec : r = wk[token] /\ Fits(r, store)
                             /\ r.deferred \in Seq(HeaderRec)
  BY OwnRecord
<1>4. CASE wk' = wk
  <2>1. wk' = [wk EXCEPT ![token] = r]
    <3>1. wk = [k \in Tokens |-> wk[k]]
      BY DEF WorkersInv
    <3> QED
      BY <1>3, <1>4, <3>1
  <2> QED
    BY <1>1, <1>2, <1>3, <2>1, OwnStep, Zenon
<1>5. CASE wk' # wk
  <2>1. PICK msg \in Msgs : msg = Head(resp[token])
    BY <1>1, OwnRecord
  <2>2. wk' = [wk EXCEPT ![token].deferred = PushDeferred(@, msg.header)]
    BY <1>5, <2>1 DEF Parks
  <2>3. PICK d : d = PushDeferred(r.deferred, msg.header)
    OBVIOUS
  <2>4. d \in Seq(HeaderRec)
    <3>1. msg.header \in HeaderRec
      BY MsgFields
    <3> QED
      BY <1>3, <2>3, <3>1, SeqOps, Zenon DEF PushDeferred
  <2>5. PICK q : q = [r EXCEPT !.deferred = d]
    BY Zenon
  <2>6. q \in WorkerRec /\ q.pc = r.pc /\ q.ask = r.ask /\ q.buf = r.buf
        /\ q.floor = r.floor /\ q.fork = r.fork /\ q.inc = r.inc
    BY <2>4, <2>5, Zenon DEF WorkerRec
  <2>7. Fits(q, store)
    BY <1>3, <2>6, ZenonT(30) DEF Fits, Extending, Branching
  <2>8. wk' = [wk EXCEPT ![token] = q]
    BY <1>3, <2>2, <2>3, <2>5
  <2> QED
    BY <1>1, <1>2, <2>7, <2>8, OwnStep, Zenon
<1> QED
  BY <1>4, <1>5

\* A fetch that fails.
LEMMA FetchFailsKeeps ==
    ASSUME WorkersInv, ChainsInv, FetchFails(token)
    PROVE  WorkersInv' /\ ChainsKept
<1>1. UNCHANGED <<store, disk, openVars, token, best, up, wanted>>
  BY Zenon DEF FetchFails, storeVars, ownVars
<1>2. ChainsKept
  BY <1>1, StoreStays, Zenon
<1>3. PICK r \in WorkerRec : r = wk[token]
  BY OwnRecord, Zenon
<1>4. resp' = resp \/ (resp[token] # << >> /\ Consume(token))
  BY Zenon DEF FetchFails
<1>5. PICK q : Become(token, q) /\ (q = Extended(r) \/ q = Applied(r))
  BY <1>3, Zenon DEF FetchFails
<1>6. Fits(q, store')
  BY <1>5, ReturnFits, AppliedFits
<1> QED
  BY <1>1, <1>2, <1>4, <1>5, <1>6, BecomeStep, Zenon

\* A full batch of an extension arrives.
LEMMA ExtendKeeps ==
    ASSUME WorkersInv, ChainsInv, replay = "done", ExtendAnswer(token)
    PROVE  WorkersInv' /\ ChainsKept
<1>1. UNCHANGED <<openVars, token, best, up, wanted>> /\ resp[token] # << >>
      /\ Consume(token)
  BY Unmoved, Zenon DEF ExtendAnswer, Answered
<1>2. ChainOrEmpty(checkpoint, store) /\ disk = store
  BY DEF ChainsInv
<1>3. PICK r \in WorkerRec : r = wk[token] /\ Fits(r, store) /\ r.pc = "extend"
  BY OwnRecord, Zenon DEF ExtendAnswer
<1>4. Extending(r, store) /\ r.buf \in HeaderMap /\ r.floor \in Nat /\ r.ask \in Asks
  BY <1>3 DEF Fits, WorkerRec
<1>5. PICK start \in Nat, count \in Int : start = r.ask.start /\ count = r.ask.count
  BY <1>4, Zenon DEF Asks
<1>6. PICK lo \in Nat : lo % Interval = 0 /\ lo <= start /\ DOMAIN r.buf = lo .. start - 1
  BY <1>4, <1>5, Zenon DEF Extending
<1>7. store # NoChain /\ r.floor = Floor(store) /\ start < r.floor
      /\ 0 < count /\ count <= r.floor - start
  BY <1>4, <1>5, Zenon DEF Extending
<1>8. PICK msg \in Msgs : msg = Head(resp[token])
  BY <1>1, OwnRecord, Zenon
<1>9. msg.start = start /\ Count(msg.raws) = count
  BY <1>3, <1>5, <1>8, Zenon DEF ExtendAnswer, Answered
<1>10. msg.raws \in HeaderMap /\ DOMAIN msg.raws = start .. start + count - 1
  <2>1. DOMAIN msg.raws # {}
    BY <1>7, <1>9 DEF Count
  <2>2. PICK e \in Nat : start <= e /\ DOMAIN msg.raws = start .. e
    BY <1>9, <2>1, MsgFields, Zenon DEF From
  <2>3. Count(msg.raws) = e - start + 1
    BY <2>1, <2>2, Ends DEF Count
  <2>4. e = start + count - 1
    BY <1>9, <2>2, <2>3
  <2> QED
    BY <2>2, <2>4, MsgFields, Zenon
<1>11. PICK range : range = Over(msg.raws, r.buf)
  OBVIOUS
<1>12. PICK next \in Nat : next = start + count /\ lo < next
  BY <1>6, <1>7
<1>13. range \in HeaderMap /\ DOMAIN range = lo .. next - 1
  <2>1. (start .. start + count - 1) \cup (lo .. start - 1) = lo .. next - 1
    BY <1>6, <1>7, <1>12
  <2> QED
    BY <1>4, <1>6, <1>10, <1>11, <2>1, OverType, Zenon DEF Over
<1>14. Top(range) + 1 = next
  <2>1. next - 1 \in Nat /\ lo <= next - 1
    BY <1>12
  <2>2. Top(range) = next - 1
    BY <1>13, <2>1, Ends, Zenon
  <2> QED
    BY <1>12, <2>2
<1>15. CASE next < r.floor
  <2> DEFINE left2 == Min({r.floor - next, Interval})
             rb == [r EXCEPT !.buf = range]
  <2>1. Become(token, Ask(rb, "extend", next, left2)) /\ UNCHANGED <<store, disk>>
    BY <1>3, <1>8, <1>11, <1>14, <1>15, Zenon DEF ExtendAnswer, storeVars
  <2>2. left2 \in Int /\ 0 < left2 /\ left2 <= r.floor - next
    BY <1>4, <1>12, <1>15, OfTwo, ChainsAssumption, SMTT(30)
  <2>3. rb \in WorkerRec /\ rb.buf = range /\ rb.floor = r.floor
    BY <1>13, Zenon DEF WorkerRec
  <2> HIDE DEF left2, rb
  <2>4. PICK q : q = Ask(rb, "extend", next, left2)
    OBVIOUS
  <2>5. "extend" \in Waiting
    BY DEF Waiting
  <2>6. q \in WorkerRec /\ q.pc = "extend" /\ q.floor = rb.floor
        /\ q.ask.start = next /\ q.ask.count = left2 /\ q.buf = rb.buf
    <3>1. next \in Nat /\ left2 \in Int /\ rb \in WorkerRec
      BY <1>12, <2>2, <2>3, Zenon
    <3> QED
      BY <2>4, <2>5, <3>1, AskFields, SMTT(30)
  <2>7. Extending(q, store)
    <3>1. lo <= next
      BY <1>12
    <3> QED
      BY <1>6, <1>7, <1>13, <1>15, <2>2, <2>3, <2>6, <3>1, Zenon DEF Extending
  <2>8. Fits(q, store')
    BY <2>1, <2>6, <2>7, Zenon DEF Fits, Holding
  <2>9. ChainsKept
    BY <1>1, <2>1, StoreStays, Zenon
  <2> QED
    BY <1>1, <2>1, <2>4, <2>8, <2>9, BecomeStep
<1>16. CASE ~(next < r.floor)
  <2>1. Commit(Prepend(range, r.floor)) /\ Become(token, Extended(r))
    BY <1>3, <1>8, <1>11, <1>14, <1>16, Zenon DEF ExtendAnswer, WithWriter
  <2>2. next = r.floor
    BY <1>4, <1>7, <1>12, <1>16
  <2>3. Chained(Prepend(range, r.floor))
    <3>1. PICK floor : floor = r.floor
      OBVIOUS
    <3>2. floor = Floor(store) /\ lo < floor /\ DOMAIN range = lo .. floor - 1
      BY <1>7, <1>12, <1>13, <2>2, <3>1, Zenon
    <3>3. Chained(Prepend(range, floor))
      BY <1>2, <1>6, <1>7, <1>13, <3>2, PrependKeeps
    <3> QED
      BY <3>1, <3>3, Zenon
  <2>4. ChainsKept
    BY <1>1, <2>1, <2>3, Commits, Zenon
  <2> QED
    BY <1>1, <2>1, <2>4, ReturnFits, BecomeStep, Zenon
<1> QED
  BY <1>15, <1>16

\* append only reports an error when it left the store alone.
LEMMA Append1Error ==
    ASSUME NEW h, NEW b, Append1(h, b).res = "error"
    PROVE  Append1(h, b).store = store
<1>1. CASE ~ValidateAppend(store, h, b)
  BY <1>1, ResultFields DEF Append1
<1>2. CASE ValidateAppend(store, h, b)
  <2>1. \/ Append1(h, b) = Refused
        \/ \E t, v : Append1(h, b) = Result(t, v, "ok")
    BY <1>2, Zenon DEF Append1
  <2> QED
    BY <2>1, ResultFields DEF Refused
<1> QED
  BY <1>1, <1>2

\* A header is applied.
LEMMA ApplyKeeps ==
    ASSUME WorkersInv, ChainsInv, replay = "done", ApplyOne(token)
    PROVE  WorkersInv' /\ ChainsKept
<1>1. UNCHANGED <<openVars, token, best, up, wanted, resp>>
  BY Unmoved, Zenon DEF ApplyOne
<1>2. ChainOrEmpty(checkpoint, store) /\ disk = store
  BY DEF ChainsInv
<1>3. PICK r \in WorkerRec : r = wk[token] /\ r.inc.h \in Nat /\ r.inc.b \in HeaderOrNone
  BY OwnRecord, Zenon
<1> DEFINE contiguous == store # NoChain =>
                r.inc.h = Top(store) + 1 /\ Prev[r.inc.b] = store[Top(store)]
<1> DEFINE out == IF contiguous THEN Append1(r.inc.h, r.inc.b) ELSE Untouched("error")
<1>4. PICK m : /\ m = out /\ Commit(m)
               /\ Become(token, IF m.res = "error" THEN ResolveReorg(r, store) ELSE Applied(r))
  <2>1. WithWriter(token, Append1(r.inc.h, r.inc.b)) = Append1(r.inc.h, r.inc.b)
    BY Zenon DEF WithWriter
  <2>2. LET q == wk[token]
            m == IF store # NoChain =>
                      q.inc.h = Top(store) + 1 /\ Prev[q.inc.b] = store[Top(store)]
                 THEN WithWriter(token, Append1(q.inc.h, q.inc.b)) ELSE Untouched("error")
        IN  /\ Commit(m)
            /\ Become(token, IF m.res = "error" THEN ResolveReorg(q, store) ELSE Applied(q))
    BY Zenon DEF ApplyOne
  <2>3. PICK m : m = out
    BY Zenon
  <2>4. m = IF store # NoChain => wk[token].inc.h = Top(store) + 1
                                  /\ Prev[wk[token].inc.b] = store[Top(store)]
            THEN WithWriter(token, Append1(wk[token].inc.h, wk[token].inc.b))
            ELSE Untouched("error")
    BY <1>3, <2>1, <2>3, Zenon
  <2>5. /\ Commit(m)
        /\ Become(token, IF m.res = "error" THEN ResolveReorg(wk[token], store)
                         ELSE Applied(wk[token]))
    BY <2>2, <2>4, Zenon
  <2>6. Become(token, IF m.res = "error" THEN ResolveReorg(r, store) ELSE Applied(r))
    BY <1>3, <2>5
  <2> HIDE DEF out
  <2> QED
    BY <2>3, <2>5, <2>6, Zenon
<1>5. Chained(m)
  <2>1. CASE contiguous
    BY <1>2, <1>3, <1>4, <2>1, Append1Keeps, Zenon
  <2>2. CASE ~contiguous
    BY <1>2, <1>4, <2>2, PlainResults, Zenon
  <2> QED
    BY <2>1, <2>2, Zenon
<1>6. ChainsKept /\ store' = m.store
  BY <1>1, <1>4, <1>5, Commits, Zenon DEF Commit
<1>7. CASE m.res = "error"
  <2>1. store' = store
    BY <1>4, <1>6, <1>7, Append1Error, ResultFields
  <2>2. Fits(ResolveReorg(r, store), store')
    BY <1>2, <1>3, <2>1, ResolveFits, Zenon
  <2>3. Become(token, ResolveReorg(r, store))
    BY <1>4, <1>7, Zenon
  <2> QED
    BY <1>1, <1>6, <2>2, <2>3, BecomeStep, Zenon
<1>8. CASE m.res # "error"
  <2>1. Become(token, Applied(r)) /\ Fits(Applied(r), store')
    BY <1>3, <1>4, <1>8, AppliedFits, Zenon
  <2> QED
    BY <1>1, <1>6, <2>1, BecomeStep, Zenon
<1> QED
  BY <1>7, <1>8

\* A chunk of the walk to the fork arrives.
LEMMA WalkKeeps ==
    ASSUME WorkersInv, ChainsInv, replay = "done", WalkAnswer(token)
    PROVE  WorkersInv' /\ ChainsKept
<1>1. UNCHANGED <<openVars, token, best, up, wanted>> /\ resp[token] # << >>
      /\ Consume(token)
  BY Unmoved, Zenon DEF WalkAnswer, Answered
<1>2. ChainOrEmpty(checkpoint, store) /\ disk = store
  BY DEF ChainsInv
<1>3. PICK r \in WorkerRec : r = wk[token]
  BY OwnRecord, Zenon
<1>4. PICK raws \in HeaderMap : raws = Head(resp[token]).raws
  BY <1>1, OwnRecord, MsgFields, Zenon
<1>5. PICK common : common = {h \in DOMAIN raws \cap DOMAIN store : raws[h] = store[h]}
  BY Zenon
<1>6. PICK seen \in HeaderMap :
          seen = Over(Part(raws, Max(common \cup {0}) .. Top(raws)), r.buf)
  <2>1. r.buf \in HeaderMap
    BY DEF WorkerRec
  <2> QED
    BY <2>1, PartType, OverType, Zenon
<1>7. \/ /\ common # {}
         /\ Become(token, Branch([r EXCEPT !.fork = Max(common), !.buf = seen]))
         /\ UNCHANGED storeVars
      \/ /\ common = {} /\ r.ask.start > r.floor
         /\ Become(token, Walk([r EXCEPT !.buf = seen], r.ask.start - 1))
         /\ UNCHANGED storeVars
      \/ /\ Commit(WithWriter(token, Wipe))
         /\ Become(token, Resync(r))
  BY <1>3, <1>4, <1>5, <1>6, Zenon DEF WalkAnswer
<1>8. CASE /\ common # {}
           /\ Become(token, Branch([r EXCEPT !.fork = Max(common), !.buf = seen]))
           /\ UNCHANGED storeVars
  <2>1. UNCHANGED <<store, disk>> /\ ChainsKept
    BY <1>1, <1>8, StoreStays DEF storeVars
  <2>2. PICK fork \in DOMAIN store : fork = Max(common)
    <3>1. PICK a, b \in Nat : ChainFrom(checkpoint, store, a, b)
      BY <1>2, <1>5, <1>8, NoChainIsMap DEF ChainOrEmpty
    <3>2. DOMAIN store = a .. b
      BY <3>1, ChainShape, Zenon
    <3>3. common \in SUBSET Nat /\ \A h \in common : h <= b /\ h \in DOMAIN store
      BY <1>5, <3>2
    <3>4. Max(common) \in common
      BY <1>8, <3>3, HighestHeight, Zenon
    <3> QED
      BY <3>3, <3>4, Zenon
  <2>3. fork \in Nat
    BY <1>2, <2>2, NoChainIsMap, ChainShape, MapElim DEF ChainOrEmpty
  <2>4. PICK q : q = [r EXCEPT !.fork = fork, !.buf = seen]
    OBVIOUS
  <2>5. q \in WorkerRec /\ q.fork = fork
    BY <1>6, <2>3, <2>4, Zenon DEF WorkerRec
  <2>6. Fits(Branch(q), store')
    BY <2>1, <2>2, <2>5, BranchFits
  <2>7. Become(token, Branch(q))
    BY <1>8, <2>2, <2>4, Zenon
  <2> QED
    BY <1>1, <2>1, <2>6, <2>7, BecomeStep
<1>9. CASE /\ r.ask.start > r.floor
           /\ Become(token, Walk([r EXCEPT !.buf = seen], r.ask.start - 1))
           /\ UNCHANGED storeVars
  <2>1. ChainsKept
    BY <1>1, <1>9, StoreStays DEF storeVars
  <2>2. r.ask.start \in Nat /\ r.floor \in Nat
    BY DEF WorkerRec, Asks
  <2>3. PICK top \in Nat : top = r.ask.start - 1
    BY <1>9, <2>2
  <2>4. PICK q : q = [r EXCEPT !.buf = seen]
    BY Zenon
  <2>5. q \in WorkerRec
    BY <1>6, <2>4 DEF WorkerRec
  <2>6. Fits(Walk(q, top), store')
    BY <2>5, WalkFits
  <2>7. Become(token, Walk(q, top))
    BY <1>9, <2>3, <2>4, Zenon
  <2> QED
    BY <1>1, <2>1, <2>6, <2>7, BecomeStep, Zenon
<1>10. CASE Commit(WithWriter(token, Wipe)) /\ Become(token, Resync(r))
  <2>1. Commit(Wipe)
    BY <1>10, Zenon DEF WithWriter
  <2>2. ChainsKept
    BY <1>1, <1>2, <2>1, PlainResults, Commits, Zenon
  <2> QED
    BY <1>1, <1>3, <1>10, <2>2, ReturnFits, BecomeStep, Zenon
<1> QED
  BY <1>7, <1>8, <1>9, <1>10, Zenon

\* A batch of the branch arrives.
LEMMA BranchKeeps ==
    ASSUME WorkersInv, ChainsInv, BranchAnswer(token)
    PROVE  WorkersInv' /\ ChainsKept
<1>1. UNCHANGED <<store, disk, openVars, token, best, up, wanted>> /\ resp[token] # << >>
      /\ Consume(token)
  BY Unmoved, Zenon DEF BranchAnswer, Answered, storeVars
<1>2. ChainsKept
  BY <1>1, StoreStays
<1>3. PICK r \in WorkerRec : r = wk[token] /\ Fits(r, store) /\ r.pc = "branch"
  BY OwnRecord, Zenon DEF BranchAnswer
<1>4. r.fork \in DOMAIN store /\ r.buf \in HeaderMap
  BY <1>3, Zenon DEF Fits, WorkerRec
<1>5. PICK raws \in HeaderMap : raws = Head(resp[token]).raws
  BY <1>1, OwnRecord, MsgFields, Zenon
<1>6. PICK buf \in HeaderMap : buf = Over(raws, r.buf)
  BY <1>4, OverType
<1>7. PICK q : q = [r EXCEPT !.buf = buf]
  BY Zenon
<1>8. q \in WorkerRec /\ q.fork = r.fork
  BY <1>7 DEF WorkerRec
<1>9. Become(token, Branch(q))
  BY <1>3, <1>5, <1>6, <1>7 DEF BranchAnswer
<1>10. Fits(Branch(q), store')
  BY <1>1, <1>4, <1>8, BranchFits, Zenon
<1> QED
  BY <1>1, <1>2, <1>9, <1>10, BecomeStep

\* A branch that is validated links down to the height it leaves the store at.
LEMMA ValidatedBranch ==
    ASSUME NEW s, NEW fork \in Nat, NEW inc \in Nat, NEW buffer,
           ValidateBranch(s, fork, inc, buffer), fork \in DOMAIN s
    PROVE  /\ fork + 1 .. inc \subseteq DOMAIN buffer
           /\ \A h \in fork + 1 .. inc :
                Prev[buffer[h]] = IF h = fork + 1 THEN s[fork] ELSE buffer[h - 1]
<1> DEFINE combined == Over(Part(s, 0 .. fork), Part(buffer, fork + 1 .. inc))
<1>1. fork + 1 .. inc \subseteq DOMAIN buffer
  BY Zenon DEF ValidateBranch
<1>2. ASSUME NEW h \in fork + 1 .. inc
      PROVE  Prev[buffer[h]] = IF h = fork + 1 THEN s[fork] ELSE buffer[h - 1]
  <2> DEFINE P == Part(combined, 0 .. h - 1)
  <2>1. ValidateAppend(P, h, buffer[h])
    BY DEF ValidateBranch
  <2>2. h \in Nat /\ h > 0
    OBVIOUS
  <2>3. h - 1 \in DOMAIN P /\ Prev[buffer[h]] = P[h - 1]
    <3> HIDE DEF P
    <3> QED
      BY <2>1, <2>2, AncestorBelow DEF ValidateAppend
  <2>4. P[h - 1] = combined[h - 1] /\ h - 1 \in DOMAIN combined
    <3> HIDE DEF combined
    <3>1. DOMAIN P = DOMAIN combined \cap (0 .. h - 1)
          /\ \A g \in DOMAIN combined \cap (0 .. h - 1) : P[g] = combined[g]
      BY PartValues, Zenon
    <3> QED
      BY <2>3, <3>1, Zenon
  <2>5. CASE h = fork + 1
    <3>1. fork \in DOMAIN s \cap (0 .. fork) /\ h - 1 = fork
      BY <2>5
    <3>2. fork \in DOMAIN Part(s, 0 .. fork) /\ Part(s, 0 .. fork)[fork] = s[fork]
      BY <3>1, PartValues, Zenon
    <3>3. combined[fork] = s[fork]
      BY <3>2, OverValues, Zenon
    <3> QED
      BY <2>3, <2>4, <2>5, <3>1, <3>3, Zenon
  <2>6. CASE h # fork + 1
    <3>1. h - 1 \in fork + 1 .. inc /\ h - 1 \notin 0 .. fork
      BY <2>6
    <3>2. h - 1 \in DOMAIN buffer \cap (fork + 1 .. inc) /\ h - 1 \notin DOMAIN s \cap (0 .. fork)
      BY <1>1, <3>1
    <3>3. h - 1 \in DOMAIN Part(buffer, fork + 1 .. inc)
          /\ Part(buffer, fork + 1 .. inc)[h - 1] = buffer[h - 1]
          /\ h - 1 \notin DOMAIN Part(s, 0 .. fork)
      BY <3>2, PartValues, Zenon
    <3>4. combined[h - 1] = buffer[h - 1]
      BY <3>3 DEF Over
    <3> QED
      BY <2>3, <2>4, <2>6, <3>4, Zenon
  <2> QED
    BY <2>5, <2>6, Zenon
<1> QED
  BY <1>1, <1>2, Zenon

\* A branch is weighed: only one that was validated moves on to the switch.
LEMMA WeighKeeps ==
    ASSUME WorkersInv, ChainsInv, Weigh(token)
    PROVE  WorkersInv' /\ ChainsKept
<1>1. UNCHANGED <<store, disk, openVars, token, best, up, wanted, req, resp>>
  BY Unmoved, Zenon DEF Weigh, storeVars
<1>2. ChainsKept
  BY <1>1, StoreStays
<1>3. PICK r \in WorkerRec : r = wk[token] /\ Fits(r, store) /\ r.pc = "weigh"
  BY OwnRecord, Zenon DEF Weigh
<1>4. r.fork \in DOMAIN store /\ r.fork \in Nat /\ r.inc.h \in Nat /\ r.buf \in HeaderMap
  BY <1>3, Zenon DEF Fits, WorkerRec, HeaderRec
<1>5. PICK branch \in HeaderMap : branch = Part(r.buf, r.fork + 1 .. r.inc.h)
  BY <1>4, PartType
<1>6. \/ wk' = [wk EXCEPT ![token] = Applied(r)]
      \/ /\ ValidateBranch(store, r.fork, r.inc.h, r.buf)
         /\ HasMoreWork(store, r.fork, branch)
         /\ wk' = [wk EXCEPT ![token] = [r EXCEPT !.pc = "switch", !.buf = branch]]
  BY <1>3, <1>5, Zenon DEF Weigh
<1>7. CASE wk' = [wk EXCEPT ![token] = Applied(r)]
  BY <1>1, <1>2, <1>7, AppliedFits, OwnStep, Zenon
<1>8. CASE /\ ValidateBranch(store, r.fork, r.inc.h, r.buf)
           /\ HasMoreWork(store, r.fork, branch)
           /\ wk' = [wk EXCEPT ![token] = [r EXCEPT !.pc = "switch", !.buf = branch]]
  <2>1. PICK q : q = [r EXCEPT !.pc = "switch", !.buf = branch]
    OBVIOUS
  <2>2. q \in WorkerRec /\ q.pc = "switch" /\ q.buf = branch /\ q.fork = r.fork
        /\ q.inc = r.inc
    BY <2>1, StepNames, Zenon DEF WorkerRec
  <2>3. /\ r.fork + 1 .. r.inc.h \subseteq DOMAIN r.buf
        /\ \A h \in r.fork + 1 .. r.inc.h :
             Prev[r.buf[h]] = IF h = r.fork + 1 THEN store[r.fork] ELSE r.buf[h - 1]
    BY <1>4, <1>8, ValidatedBranch
  <2>4. /\ DOMAIN branch = r.fork + 1 .. r.inc.h
        /\ \A h \in r.fork + 1 .. r.inc.h : branch[h] = r.buf[h]
    <3>1. DOMAIN r.buf \cap (r.fork + 1 .. r.inc.h) = r.fork + 1 .. r.inc.h
      BY <2>3, Zenon
    <3> QED
      BY <1>5, <3>1, PartValues, Zenon
  <2>5. ASSUME NEW h \in r.fork + 1 .. r.inc.h
        PROVE  Prev[branch[h]] = IF h = r.fork + 1 THEN store[r.fork] ELSE branch[h - 1]
    <3>1. h # r.fork + 1 => h - 1 \in r.fork + 1 .. r.inc.h
      BY <1>4
    <3> QED
      BY <2>3, <2>4, <3>1, Zenon
  <2>6. Branching(q, store)
    BY <2>2, <2>4, <2>5, Zenon DEF Branching
  <2>9. HasMoreWork(store, q.fork, q.buf)
    BY <1>8, <2>2
  <2>7. Fits(q, store')
    BY <1>1, <1>4, <2>2, <2>6, <2>9, Zenon DEF Fits, Holding
  <2>8. wk' = [wk EXCEPT ![token] = q]
    BY <1>8, <2>1
  <2> QED
    BY <1>1, <1>2, <2>7, <2>8, OwnStep, Zenon
<1> QED
  BY <1>6, <1>7, <1>8

\* The switch itself, on the store as it was weighed.
LEMMA SwitchKeeps ==
    ASSUME WorkersInv, ChainsInv, replay = "done", Switch(token)
    PROVE  WorkersInv' /\ ChainsKept
<1>1. UNCHANGED <<openVars, token, best, up, wanted, req, resp>>
  BY Unmoved, Zenon DEF Switch
<1>2. ChainOrEmpty(checkpoint, store) /\ disk = store
  BY DEF ChainsInv
<1>3. PICK r \in WorkerRec : r = wk[token] /\ Fits(r, store) /\ r.pc = "switch"
                             /\ r.inc.h \in Nat
  BY OwnRecord, Zenon DEF Switch
<1>4. r.fork \in DOMAIN store /\ Branching(r, store) /\ r.buf \in HeaderMap
      /\ HasMoreWork(store, r.fork, r.buf)
  BY <1>3, Zenon DEF Fits, WorkerRec
<1>5. Commit(ReplaceBranch(r.fork, r.buf)) /\ wk' = [wk EXCEPT ![token] = Applied(r)]
  BY <1>3, Zenon DEF Switch, WithWriter
<1>6. ChainsKept
  BY <1>1, <1>2, <1>3, <1>4, <1>5, ReplaceKeeps, Commits, Zenon
<1> QED
  BY <1>1, <1>5, <1>6, AppliedFits, OwnStep, Zenon

\* The top of the loop.
LEMMA TopKeeps ==
    ASSUME WorkersInv, ChainsInv, replay = "done", LoopTop(token)
    PROVE  WorkersInv' /\ ChainsKept
<1>1. UNCHANGED <<store, disk, openVars, token, best, up, resp>>
  BY Unmoved, Zenon DEF LoopTop, storeVars
<1>2. ChainsKept
  BY <1>1, StoreStays
<1>3. PICK r \in WorkerRec : r = wk[token] /\ r.buf = NoChain
                             /\ r.deferred \in Seq(HeaderRec)
  BY OwnRecord, Zenon DEF LoopTop, Holding
<1>4. CASE r.deferred # << >>
  <2>1. PICK q : q = [r EXCEPT !.pc = "apply", !.inc = Head(r.deferred),
                               !.deferred = Tail(r.deferred)]
    OBVIOUS
  <2>2. Head(r.deferred) \in HeaderRec /\ Tail(r.deferred) \in Seq(HeaderRec)
    BY <1>3, <1>4, SeqOps, Zenon
  <2>3. q \in WorkerRec /\ q.pc = "apply" /\ q.buf = NoChain
    BY <1>3, <2>1, <2>2, StepNames, Zenon DEF WorkerRec, Anywhere
  <2>4. Fits(q, store')
    BY <2>3, FitsAnywhere DEF Anywhere
  <2>5. UNCHANGED <<req, wanted>>
        /\ (wk' = [wk EXCEPT ![token] = Dead] \/ wk' = [wk EXCEPT ![token] = q])
    BY <1>3, <1>4, <2>1 DEF LoopTop
  <2> QED
    BY <1>1, <1>2, <2>4, <2>5, PlainRecords, OwnStep
<1>5. CASE r.deferred = << >> /\ wanted # {}
  <2>1. PICK height \in Nat : Become(token, ExtendFrom(r, height)) /\ wanted' = {}
    <3>1. (CHOOSE h \in wanted : TRUE) \in Nat
      BY <1>5 DEF WorkersInv
    <3> QED
      BY <1>3, <1>5, <3>1, Zenon DEF LoopTop
  <2>2. ChainOrEmpty(checkpoint, store)
    BY DEF ChainsInv
  <2>3. Fits(ExtendFrom(r, height), store')
    BY <1>1, <1>3, <2>2, ExtendFits
  <2> QED
    BY <1>1, <1>2, <2>1, <2>3, BecomeStep, Zenon
<1>6. CASE r.deferred = << >> /\ wanted = {}
  <2>1. PICK q : q = [r EXCEPT !.pc = "recv"]
    BY Zenon
  <2>2. q \in WorkerRec /\ q.pc = "recv" /\ q.buf = NoChain
    BY <1>3, <2>1, StepNames DEF WorkerRec, Anywhere
  <2>3. Fits(q, store')
    BY <2>2, FitsAnywhere DEF Anywhere
  <2>4. UNCHANGED <<req, wanted>> /\ wk' = [wk EXCEPT ![token].pc = "recv"]
    BY <1>3, <1>6, Zenon DEF LoopTop
  <2>5. wk' = [wk EXCEPT ![token] = q]
    BY <1>3, <2>1, <2>4, Zenon
  <2> QED
    BY <1>1, <1>2, <2>3, <2>4, <2>5, OwnStep, Zenon
<1> QED
  BY <1>4, <1>5, <1>6

\* A late batch as the headers apply_one is called with, one by one.
LEMMA LateHeaders ==
    ASSUME NEW msg \in Msgs
    PROVE  [i \in 1 .. Count(msg.raws) |->
              [h |-> msg.start + i - 1, b |-> msg.raws[msg.start + i - 1]]] \in Seq(HeaderRec)
<1>1. msg.start \in Nat /\ msg.raws \in [DOMAIN msg.raws -> HeaderOrNone]
      /\ From(msg.raws, msg.start)
  BY MsgFields, MapElim, Zenon
<1>2. PICK n \in Nat : n = Count(msg.raws)
                       /\ \A i \in 1 .. n : msg.start + i - 1 \in DOMAIN msg.raws
  <2>1. CASE DOMAIN msg.raws = {}
    BY <2>1 DEF Count
  <2>2. ASSUME NEW e \in Nat, msg.start <= e, DOMAIN msg.raws = msg.start .. e
        PROVE  Count(msg.raws) \in Nat
               /\ \A i \in 1 .. Count(msg.raws) :
                      msg.start + i - 1 \in DOMAIN msg.raws
    <3>1. PICK start \in Nat : start = msg.start
      BY <1>1, Zenon
    <3>2. Count(msg.raws) = e - start + 1
      <4>1. Floor(msg.raws) = start /\ Top(msg.raws) = e /\ DOMAIN msg.raws # {}
        BY <2>2, <3>1, Ends
      <4> QED
        BY <4>1, Zenon DEF Count
    <3> QED
      BY <2>2, <3>1, <3>2
  <2> QED
    BY <1>1, <2>1, <2>2, Zenon DEF From
<1>3. \A i \in 1 .. n : [h |-> msg.start + i - 1, b |-> msg.raws[msg.start + i - 1]] \in HeaderRec
  BY <1>1, <1>2 DEF HeaderRec
<1> DEFINE e(i) == [h |-> msg.start + i - 1, b |-> msg.raws[msg.start + i - 1]]
<1>4. \A i \in 1 .. n : e(i) \in HeaderRec
  BY <1>3
<1> HIDE DEF e
<1>5. [i \in 1 .. n |-> e(i)] \in Seq(HeaderRec)
  BY <1>4
<1> QED
  BY <1>2, <1>5, Zenon DEF e

\* The loop receives.
LEMMA ReceiveKeeps ==
    ASSUME WorkersInv, ChainsInv, Receive(token)
    PROVE  WorkersInv' /\ ChainsKept
<1>1. UNCHANGED <<store, disk, openVars, token, best, up, wanted, req>>
  BY Unmoved, Zenon DEF Receive, storeVars
<1>2. ChainsKept
  BY <1>1, StoreStays
<1>3. PICK r \in WorkerRec : r = wk[token] /\ r.buf = NoChain
  BY OwnRecord DEF Receive, Holding
<1>4. PICK top : top = [r EXCEPT !.pc = "top"]
  BY Zenon
<1>5. Fits(top, store')
  <2>1. top \in WorkerRec /\ top.pc = "top" /\ top.buf = NoChain
    BY <1>3, <1>4, StepNames, SMTT(30) DEF WorkerRec, Anywhere
  <2> QED
    BY <2>1, FitsAnywhere DEF Anywhere
<1>6. CASE resp[token] = << >>
  <2>1. resp' = resp /\ (wk' = [wk EXCEPT ![token] = Dead] \/ wk' = [wk EXCEPT ![token] = top])
    BY <1>3, <1>4, <1>6, Zenon DEF Receive
  <2> QED
    BY <1>1, <1>2, <1>5, <2>1, PlainRecords, OwnStep, Zenon
<1>7. CASE resp[token] # << >>
  <2>1. PICK msg \in Msgs : msg = Head(resp[token])
    BY <1>7, OwnRecord
  <2>2. PICK late \in Seq(HeaderRec) :
            late = [i \in 1 .. Count(msg.raws) |->
                      [h |-> msg.start + i - 1, b |-> msg.raws[msg.start + i - 1]]]
    BY LateHeaders, Zenon
  <2>3. PICK tip : tip = [r EXCEPT !.pc = "apply", !.inc = msg.header]
    OBVIOUS
  <2>4. Fits(tip, store')
    <3>1. tip \in WorkerRec /\ tip.pc = "apply" /\ tip.buf = NoChain
      BY <1>3, <2>3, MsgFields, StepNames, Zenon DEF WorkerRec, Anywhere
    <3> QED
      BY <3>1, FitsAnywhere DEF Anywhere
  <2>5. PICK batch : batch = [r EXCEPT !.todo = late]
    BY Zenon
  <2>6. Fits(Applied(batch), store')
    <3>1. batch \in WorkerRec
      BY <2>2, <2>5, Zenon DEF WorkerRec
    <3> QED
      BY <3>1, AppliedFits
  <2>7. PICK q : wk' = [wk EXCEPT ![token] = q]
                 /\ (q = Dead \/ q = tip \/ q = Applied(batch) \/ q = top)
    <3>1. wk' = [wk EXCEPT ![token] =
                    CASE Stale(token) -> Dead
                      [] ~Stale(token) /\ msg.kind = "tip" -> tip
                      [] ~Stale(token) /\ msg.kind = "batch" -> Applied(batch)
                      [] OTHER -> top]
      BY <1>3, <1>4, <1>7, <2>1, <2>2, <2>3, <2>5, Zenon DEF Receive
    <3> QED
      BY <3>1, Zenon
  <2>8. Fits(q, store')
    BY <1>5, <2>4, <2>6, <2>7, PlainRecords, Zenon
  <2>9. resp' = [resp EXCEPT ![token] = Tail(@)]
    BY <1>7, Zenon DEF Receive, Consume
  <2> QED
    BY <1>1, <1>2, <1>7, <2>7, <2>8, <2>9, OwnStep, Zenon
<1> QED
  BY <1>6, <1>7

-----------------------------------------------------------------------------
(* The other steps, and the theorem.                                         *)

\* Whatever the current worker does keeps the invariant.
LEMMA CurrentWorker ==
    ASSUME WorkersInv, ChainsInv, ReplayInv, Worker(token)
    PROVE  WorkersInv' /\ ChainsKept
<1>1. wk[token].pc \notin Parked => replay = "done"
  BY DEF ReplayInv, WorkersInv
<1>2. CASE Unparks(token)
  BY <1>2, UnparksKeeps
<1>3. CASE ~Unparks(token) /\ wk[token].pc \notin Parked
  BY <1>1, <1>3, FirstTipKeeps, SyncKeeps, AnchorKeeps, GenesisKeeps, FillKeeps,
     InitialKeeps, ParksKeeps, FetchFailsKeeps, ExtendKeeps, ApplyKeeps, WalkKeeps,
     BranchKeeps, WeighKeeps, SwitchKeeps, TopKeeps, ReceiveKeeps, Zenon DEF Worker
<1>4. CASE wk[token].pc \in Parked
  <2>1. wk[token].pc \notin {"tip", "sync", "anchor", "genesis", "fill", "extend",
                            "walk", "branch", "apply", "weigh", "switch", "top", "recv"}
    BY <1>4 DEF Parked
  <2>2. Unparks(token)
    BY <2>1, Zenon DEF Worker, FirstTip, Sync, Anchor, GenesisAnswer,
       FillAnswer, InitialRetries, InitialCancelled, Parks, FetchFails,
       ExtendAnswer, ApplyOne, WalkAnswer, BranchAnswer, Weigh, Switch, LoopTop,
       Receive, Waiting
  <2> QED
    BY <2>2, UnparksKeeps
<1> QED
  BY <1>2, <1>3, <1>4, Zenon

\* A superseded worker's mutations are no-ops.
LEMMA SupersededWrites ==
    ASSUME NEW k \in Tokens, k # token, NEW m
    PROVE  WithWriter(k, m) = Untouched("ok")
BY DEF WithWriter

\* Committing nothing changes nothing.
LEMMA CommitsNothing ==
    ASSUME NEW res, Commit(Untouched(res))
    PROVE  UNCHANGED <<store, disk>>
BY DEF Commit, Untouched

\* So a superseded worker leaves the store and its file alone.
LEMMA SupersededStore ==
    ASSUME NEW k \in Tokens, k # token, Worker(k)
    PROVE  UNCHANGED <<store, disk>>
<1>1. CASE Unparks(k) \/ FirstTip(k) \/ Sync(k) \/ InitialRetries(k) \/ InitialCancelled(k)
           \/ Parks(k) \/ FetchFails(k) \/ BranchAnswer(k) \/ Weigh(k) \/ LoopTop(k)
           \/ Receive(k)
  BY <1>1, Zenon DEF Unparks, FirstTip, Sync, InitialRetries, InitialCancelled, Parks,
     FetchFails, BranchAnswer, Weigh, LoopTop, Receive, storeVars
<1>2. CASE Anchor(k)
  <2>1. Commit(Untouched("ok"))
    BY <1>2, SupersededWrites, Zenon DEF Anchor
  <2> QED
    BY <2>1, CommitsNothing, Zenon
<1>3. CASE GenesisAnswer(k)
  <2>1. PICK m : /\ Commit(IF m.res = "error" THEN WithWriter(k, Wipe) ELSE m)
                 /\ m = Untouched("ok") \/ \E w : m = WithWriter(k, w)
    BY <1>3, Zenon DEF GenesisAnswer
  <2>2. m = Untouched("ok")
    BY <2>1, SupersededWrites, Zenon
  <2>3. Commit(Untouched("ok"))
    BY <2>1, <2>2, SupersededWrites
  <2> QED
    BY <2>3, CommitsNothing
<1>4. CASE FillAnswer(k)
  <2>1. Commit(WithWriter(k, AppendBatch(Head(resp[k]).raws)))
    BY <1>4, Zenon DEF FillAnswer
  <2> QED
    BY <2>1, SupersededWrites, CommitsNothing
<1>5. CASE ExtendAnswer(k)
  <2>1. UNCHANGED <<store, disk>> \/ \E m : Commit(WithWriter(k, m))
    BY <1>5, Zenon DEF ExtendAnswer, storeVars
  <2> QED
    BY <2>1, SupersededWrites, CommitsNothing
<1>6. CASE ApplyOne(k)
  <2>1. PICK m : Commit(m) /\ (m = Untouched("error") \/ \E w : m = WithWriter(k, w))
    BY <1>6, Zenon DEF ApplyOne
  <2> QED
    BY <2>1, SupersededWrites, CommitsNothing
<1>7. CASE WalkAnswer(k)
  <2>1. UNCHANGED <<store, disk>> \/ \E m : Commit(WithWriter(k, m))
    BY <1>7, Zenon DEF WalkAnswer, storeVars
  <2> QED
    BY <2>1, SupersededWrites, CommitsNothing
<1>8. CASE Switch(k)
  <2>1. \E m : Commit(WithWriter(k, m))
    BY <1>8, Zenon DEF Switch
  <2> QED
    BY <2>1, SupersededWrites, CommitsNothing
<1> QED
  BY <1>1, <1>2, <1>3, <1>4, <1>5, <1>6, <1>7, <1>8, Zenon DEF Worker

\* Changing the entry of k, or nothing, leaves maps apart at k only.
LEMMA ApartAt ==
    ASSUME NEW f, f = [j \in Tokens |-> f[j]], NEW k \in Tokens, NEW g,
           g = f \/ \E v : g = [f EXCEPT ![k] = v]
    PROVE  Apart(f, g, k)
<1>1. CASE g = f
  BY <1>1 DEF Apart
<1>2. ASSUME NEW v, g = [f EXCEPT ![k] = v] PROVE Apart(f, g, k)
  <2>1. g = [j \in Tokens |-> IF j = k THEN v ELSE f[j]]
    BY <1>2, Zenon
  <2> QED
    BY <2>1 DEF Apart
<1> QED
  BY <1>1, <1>2

\* A worker's step changes its own entries only.
LEMMA OwnEntries ==
    ASSUME NEW k \in Tokens, Worker(k), wk = [j \in Tokens |-> wk[j]]
    PROVE  /\ wk' = wk \/ \E v : wk' = [wk EXCEPT ![k] = v]
           /\ req' = req \/ \E v : req' = [req EXCEPT ![k] = v]
           /\ resp' = resp \/ \E v : resp' = [resp EXCEPT ![k] = v]
           /\ UNCHANGED <<openVars, token, best, up>> /\ wanted' \subseteq wanted
<1>1. ASSUME NEW r, Become(k, r)
      PROVE  /\ \E v : wk' = [wk EXCEPT ![k] = v]
             /\ req' = req \/ \E v : req' = [req EXCEPT ![k] = v]
  BY <1>1, Zenon DEF Become
<1>2. wk' = wk \/ \E v : wk' = [wk EXCEPT ![k] = v]
  BY <1>1, Zenon DEF Worker, Unparks, FirstTip, Sync, Anchor, GenesisAnswer,
     FillAnswer, InitialRetries, InitialCancelled, Parks, FetchFails,
     ExtendAnswer, ApplyOne, WalkAnswer, BranchAnswer, Weigh, Switch, LoopTop, Receive
<1>3. req' = req \/ \E v : req' = [req EXCEPT ![k] = v]
  BY <1>1, Zenon DEF Worker, Unparks, FirstTip, Sync, Anchor, GenesisAnswer,
     FillAnswer, InitialRetries, InitialCancelled, Parks, FetchFails,
     ExtendAnswer, ApplyOne, WalkAnswer, BranchAnswer, Weigh, Switch, LoopTop, Receive
<1>4. resp' = resp \/ \E v : resp' = [resp EXCEPT ![k] = v]
  BY Zenon DEF Worker, Unparks, FirstTip, Sync, Anchor, GenesisAnswer,
     FillAnswer, InitialRetries, InitialCancelled, Parks, FetchFails, Consume,
     ExtendAnswer, ApplyOne, WalkAnswer, BranchAnswer, Weigh, Switch, LoopTop, Receive
<1>5. UNCHANGED <<openVars, token, best, up>>
  BY Unmoved, Zenon DEF Worker, Unparks, FirstTip, Sync, Anchor, GenesisAnswer,
     FillAnswer, InitialRetries, InitialCancelled, Parks, FetchFails, ownVars,
     ExtendAnswer, ApplyOne, WalkAnswer, BranchAnswer, Weigh, Switch, LoopTop, Receive
<1>6. wanted' = wanted \/ wanted' = {}
  BY Zenon DEF Worker, Unparks, FirstTip, Sync, Anchor, GenesisAnswer,
     FillAnswer, InitialRetries, InitialCancelled, Parks, FetchFails,
     ExtendAnswer, ApplyOne, WalkAnswer, BranchAnswer, Weigh, Switch, LoopTop, Receive
<1> QED
  BY <1>2, <1>3, <1>4, <1>5, <1>6, SMTT(30)

\* The step of any other worker: one above the token has not been spawned.
LEMMA OtherWorker ==
    ASSUME WorkersInv, ChainsInv, NEW k \in Tokens, k # token, Worker(k)
    PROVE  WorkersInv' /\ ChainsKept
<1>1. /\ token \in Tokens
      /\ wk = [j \in Tokens |-> wk[j]] /\ req = [j \in Tokens |-> req[j]]
      /\ resp = [j \in Tokens |-> resp[j]] /\ up = [j \in Tokens |-> up[j]]
  BY Zenon DEF WorkersInv
<1>2. UNCHANGED <<store, disk, openVars, token, best, up>> /\ wanted' \subseteq wanted
  BY <1>1, OwnEntries, SupersededStore, SMTT(30)
<1>3. k < token
  <2> SUFFICES ASSUME k > token PROVE FALSE
    BY <1>1 DEF Tokens
  <2>1. wk[k].pc = "none"
    BY DEF WorkersInv, NoWorker
  <2>2. wk[k].pc \notin {"replay", "tip", "sync", "anchor", "genesis", "fill", "extend",
                        "walk", "branch", "apply", "weigh", "switch", "top", "recv"}
    BY <2>1
  <2> QED
    BY <2>2, Zenon DEF Worker, Unparks, FirstTip, Sync, Anchor, GenesisAnswer,
       FillAnswer, InitialRetries, InitialCancelled, Parks, FetchFails,
       ExtendAnswer, ApplyOne, WalkAnswer, BranchAnswer, Weigh, Switch, LoopTop,
       Receive, Waiting
<1>4. Apart(wk, wk', k) /\ Apart(req, req', k) /\ Apart(resp, resp', k)
  BY <1>1, OwnEntries, ApartAt, Zenon
<1>5. Apart(up, up', k)
  BY <1>1, <1>2, ApartAt, Zenon
<1>6. WorkersInv'
  BY <1>2, <1>3, <1>4, <1>5, OtherStep, Zenon
<1> QED
  BY <1>2, <1>6, StoreStays, Zenon

\* A message of the server to one of its connections.
LEMMA ServerSends ==
    ASSUME WorkersInv, NEW k \in Tokens, up[k], NEW msg, k = token => msg \in Msgs,
           resp' = [resp EXCEPT ![k] = Append(@, msg)],
           req' = req \/ (req[k] # << >> /\ req' = [req EXCEPT ![k] = Tail(@)]),
           UNCHANGED <<store, token, wk, up, best, wanted>>
    PROVE  WorkersInv'
<1>1. /\ token \in Tokens
      /\ wk = [j \in Tokens |-> wk[j]] /\ req = [j \in Tokens |-> req[j]]
      /\ resp = [j \in Tokens |-> resp[j]] /\ up = [j \in Tokens |-> up[j]]
  BY Zenon DEF WorkersInv
<1>2. k = token \/ k < token
  <2>1. ~(k > token)
    BY Zenon DEF WorkersInv
  <2> QED
    BY <1>1, <2>1 DEF Tokens
<1>3. CASE k < token
  <2>1. Apart(wk, wk', k) /\ Apart(req, req', k) /\ Apart(resp, resp', k) /\ Apart(up, up', k)
    BY <1>1, ApartAt, Zenon
  <2> QED
    BY <1>3, <2>1, OtherStep, Zenon
<1>4. CASE k = token
  <2>1. req[token] \in Seq(Asks) /\ resp[token] \in Seq(Msgs)
    BY DEF WorkersInv
  <2>2. PICK q \in Seq(Msgs) : q = Append(resp[token], msg)
    BY <1>4, <2>1, SeqOps, Zenon
  <2>3. resp' = [resp EXCEPT ![token] = q]
    BY <1>4, <2>2, Zenon
  <2>4. resp' = [j \in Tokens |-> resp'[j]] /\ resp'[token] = q
        /\ \A j \in Tokens : j # token => resp'[j] = resp[j]
    BY <1>1, <2>3, Updated, Zenon
  <2>5. req' = [j \in Tokens |-> req'[j]] /\ req'[token] \in Seq(Asks)
        /\ \A j \in Tokens : j # token => req'[j] = req[j]
    <3>1. CASE req' = req
      BY <1>1, <2>1, <3>1, Zenon
    <3>2. CASE req[k] # << >> /\ req' = [req EXCEPT ![k] = Tail(@)]
      <4>1. PICK t \in Seq(Asks) : t = Tail(req[token])
        BY <1>4, <2>1, <3>2, SeqOps, Zenon
      <4>2. req' = [req EXCEPT ![token] = t]
        BY <1>4, <3>2, <4>1, Zenon
      <4> QED
        BY <1>1, <4>2, Updated
    <3> QED
      BY <3>1, <3>2
  <2>6. \A j \in Tokens : j > token => j # token
    BY <1>1 DEF Tokens
  <2>7. \A j \in Tokens : j > token =>
            wk[j] = NoWorker /\ req'[j] = << >> /\ resp'[j] = << >> /\ up[j] = FALSE
    BY <2>4, <2>5, <2>6, Zenon DEF WorkersInv
  <2> QED
    BY <1>1, <2>2, <2>4, <2>5, <2>7, SMTT(30) DEF WorkersInv
<1> QED
  BY <1>2, <1>3, <1>4, Zenon

\* The server's steps.
LEMMA ServerKeeps ==
    ASSUME WorkersInv, ChainsInv, NEW k \in Tokens,
           ServerNotifies(k) \/ ServerAnswers(k) \/ ServerErrs(k)
    PROVE  WorkersInv' /\ ChainsKept
<1>1. UNCHANGED <<store, disk, openVars, token, wk, up, best, wanted>> /\ up[k]
  BY Zenon DEF ServerNotifies, ServerAnswers, ServerErrs, Quiet, storeVars, ownVars
<1>2. best \in DOMAIN Chains /\ req[token] \in Seq(Asks)
  BY DEF WorkersInv
<1>3. TipMsg \in Msgs
  BY <1>2, MsgTypes
<1>4. k = token /\ req[k] # << >> =>
          BatchMsg(Head(req[k])) \in Msgs /\ ErrorMsg(Head(req[k])) \in Msgs
  BY <1>2, MsgTypes, SeqOps, Zenon
<1>5. PICK msg : /\ resp' = [resp EXCEPT ![k] = Append(@, msg)]
                 /\ k = token => msg \in Msgs
                 /\ req' = req \/ (req[k] # << >> /\ req' = [req EXCEPT ![k] = Tail(@)])
  BY <1>3, <1>4, Zenon DEF ServerNotifies, ServerAnswers, ServerErrs
<1> QED
  BY <1>1, <1>5, ServerSends, StoreStays, Zenon

\* The end of a connection.
LEMMA CloseKeeps ==
    ASSUME WorkersInv, Close(token), UNCHANGED <<store, token, wk, resp, best, wanted>>
    PROVE  WorkersInv'
<1>1. /\ token \in Tokens
      /\ wk = [j \in Tokens |-> wk[j]] /\ req = [j \in Tokens |-> req[j]]
      /\ resp = [j \in Tokens |-> resp[j]] /\ up = [j \in Tokens |-> up[j]]
  BY DEF WorkersInv
<1>2. up' = [j \in Tokens |-> up'[j]] /\ \A j \in Tokens : j # token => up'[j] = up[j]
  BY <1>1, Updated, Zenon DEF Close
<1>3. req' = [j \in Tokens |-> req'[j]] /\ req'[token] = << >>
      /\ \A j \in Tokens : j # token => req'[j] = req[j]
  BY <1>1, Updated, Zenon DEF Close
<1>4. \A j \in Tokens : j > token => j # token
  BY <1>1 DEF Tokens
<1>5. \A j \in Tokens : j > token =>
          wk[j] = NoWorker /\ req'[j] = << >> /\ resp[j] = << >> /\ up'[j] = FALSE
  BY <1>2, <1>3, <1>4 DEF WorkersInv
<1>6. << >> \in Seq(Asks)
  OBVIOUS
<1> QED
  BY <1>1, <1>2, <1>3, <1>5, <1>6, Zenon DEF WorkersInv

\* A restart: the next token's worker starts with nothing, the last one no longer
\* matters.
LEMMA RestartKeeps ==
    ASSUME WorkersInv, ChainsInv, NEW connects, Restart(connects)
    PROVE  WorkersInv' /\ ChainsKept
<1>1. UNCHANGED <<store, disk, openVars, wanted, resp, best>>
  BY Zenon DEF Restart, storeVars
<1>2. /\ token \in Tokens /\ token' = token + 1 /\ token' \in Tokens /\ token # token'
      /\ \A j \in Tokens : j > token' => j > token /\ j # token /\ j # token'
      /\ token' > token
  BY BoundsAssumption DEF Restart, WorkersInv, Tokens
<1>3. /\ wk = [j \in Tokens |-> wk[j]] /\ req = [j \in Tokens |-> req[j]]
      /\ resp = [j \in Tokens |-> resp[j]] /\ up = [j \in Tokens |-> up[j]]
  BY Zenon DEF WorkersInv
<1>4. wk' = [j \in Tokens |-> wk'[j]] /\ (wk'[token'] = Spawned \/ wk'[token'] = wk[token'])
      /\ \A j \in Tokens : j # token' => wk'[j] = wk[j]
  <2>1. wk' = wk \/ wk' = [wk EXCEPT ![token'] = Spawned]
    BY <1>2, Zenon DEF Restart
  <2>2. CASE wk' = wk
    BY <1>3, <2>2, Zenon
  <2>3. CASE wk' = [wk EXCEPT ![token'] = Spawned]
    BY <1>2, <1>3, <2>3, Updated, Zenon
  <2> QED
    BY <2>1, <2>2, <2>3, Zenon
<1>5. req' = [j \in Tokens |-> req'[j]] /\ \A j \in Tokens : j # token => req'[j] = req[j]
  BY <1>2, <1>3, Updated, Zenon DEF Restart
<1>6. up' = [j \in Tokens |-> up'[j]]
      /\ \A j \in Tokens : j # token /\ j # token' => up'[j] = up[j]
  <2>1. up' = [[up EXCEPT ![token] = FALSE] EXCEPT ![token'] = connects]
    BY <1>2 DEF Restart
  <2>2. PICK u : u = [up EXCEPT ![token] = FALSE]
    BY Zenon
  <2>3. u = [j \in Tokens |-> u[j]] /\ \A j \in Tokens : j # token => u[j] = up[j]
    BY <1>2, <1>3, <2>2, Updated, Zenon
  <2> QED
    BY <1>2, <2>1, <2>2, <2>3, Updated, Zenon
<1>7. ASSUME NEW j \in Tokens, j > token'
      PROVE  wk'[j] = NoWorker /\ req'[j] = << >> /\ resp'[j] = << >> /\ up'[j] = FALSE
  BY <1>1, <1>2, <1>4, <1>5, <1>6, <1>7, SMTT(30) DEF WorkersInv
<1>8. wk[token'] = NoWorker /\ req[token'] = << >> /\ resp[token'] = << >>
  BY <1>2, Zenon DEF WorkersInv
<1>9. Fits(wk'[token'], store')
  BY <1>4, <1>8, PlainRecords, Zenon
<1>10. req'[token'] \in Seq(Asks) /\ resp'[token'] \in Seq(Msgs)
  <2>1. req'[token'] = << >> /\ resp'[token'] = << >>
    BY <1>1, <1>2, <1>5, <1>8, Zenon
  <2>2. << >> \in Seq(Asks) /\ << >> \in Seq(Msgs)
    OBVIOUS
  <2> QED
    BY <2>1, <2>2
<1>11. best' \in DOMAIN Chains /\ wanted' \subseteq Nat
       /\ resp' = [j \in Tokens |-> resp'[j]]
  BY <1>1, <1>3, Zenon DEF WorkersInv
<1>12. WorkersInv'
  BY <1>2, <1>4, <1>5, <1>6, <1>7, <1>9, <1>10, <1>11, Zenon DEF WorkersInv
<1> QED
  BY <1>1, <1>12, StoreStays

\* What a start leaves: the file to replay, or a store that is empty.
LEMMA OpensChains ==
    ASSUME NEW cp, NEW file, FileMap(file)
    PROVE  LET o == Open(cp, file)
           IN  \/ /\ o.replay = "check" /\ o.store = file /\ o.snapshot = file
                  /\ SanityCheck(cp, file)
               \/ o.replay = "done" /\ o.store = NoChain
<1> DEFINE replays == SanityCheck(cp, file) /\ file # NoChain
<1>1. CASE replays
  BY <1>1, Zenon DEF Open
<1>2. CASE ~replays
  BY <1>2, Zenon DEF Open
<1> QED
  BY <1>1, <1>2, Zenon

\* The workers and the connections as a fresh process has them.
Fresh(t, w, q, p, u, wanting) ==
    /\ t = 0 /\ wanting = {} /\ w = FreshWorkers
    /\ q = [k \in Tokens |-> << >>] /\ p = [k \in Tokens |-> << >>]
    /\ u = [k \in Tokens |-> k = 0]

\* What WorkersInv asks of them, but for the server's chain.
Meets(t, w, q, p, u, wanting, s) ==
    /\ t \in Tokens
    /\ w = [k \in Tokens |-> w[k]] /\ q = [k \in Tokens |-> q[k]]
    /\ p = [k \in Tokens |-> p[k]] /\ u = [k \in Tokens |-> u[k]]
    /\ \A k \in Tokens : k > t =>
          w[k] = NoWorker /\ q[k] = << >> /\ p[k] = << >> /\ u[k] = FALSE
    /\ Fits(w[t], s)
    /\ q[t] \in Seq(Asks) /\ p[t] \in Seq(Msgs)
    /\ wanting \subseteq Nat

\* They meet it.
LEMMA FreshKeeps ==
    ASSUME NEW t, NEW w, NEW q, NEW p, NEW u, NEW wanting, Fresh(t, w, q, p, u, wanting), NEW s
    PROVE  Meets(t, w, q, p, u, wanting, s)
<1>1. t = 0 /\ 0 \in Tokens /\ \A k \in Tokens : k > 0 => k # 0
  BY BoundsAssumption DEF Tokens, Fresh
<1>2. w = [k \in Tokens |-> w[k]] /\ w[0] = Spawned /\ \A k \in Tokens : k # 0 => w[k] = NoWorker
  BY <1>1 DEF Fresh, FreshWorkers
<1>3. q = [k \in Tokens |-> q[k]] /\ p = [k \in Tokens |-> p[k]]
      /\ \A k \in Tokens : q[k] = << >> /\ p[k] = << >>
  BY DEF Fresh
<1>4. u = [k \in Tokens |-> u[k]] /\ \A k \in Tokens : k # 0 => u[k] = FALSE
  BY Zenon DEF Fresh
<1>5. << >> \in Seq(Asks) /\ << >> \in Seq(Msgs)
  OBVIOUS
<1>6. wanting \subseteq Nat
  BY DEF Fresh
<1> QED
  BY <1>1, <1>2, <1>3, <1>4, <1>5, <1>6, PlainRecords DEF Meets

\* A first start meets the invariant.
LEMMA InitStore == Init => WorkersInv /\ ChainsInv
<1> SUFFICES ASSUME Init PROVE WorkersInv /\ ChainsInv
  OBVIOUS
<1>1. PICK cp \in Checkpoints, file \in Files :
          /\ checkpoint = cp
          /\ store = Open(cp, file).store /\ disk = Open(cp, file).store
          /\ snapshot = Open(cp, file).snapshot /\ replay = Open(cp, file).replay
  BY Zenon DEF Init
<1>2. FileMap(file)
  <2>1. DOMAIN file \in SUBSET Nat /\ file \in [DOMAIN file -> HeaderOrNone]
    BY BoundsAssumption, Zenon DEF HeaderOrNone
  <2> QED
    BY <2>1, MapIntro, BoundsAssumption, Zenon DEF FileMap
<1>3. ChainsInv
  <2>1. checkpoint \in Checkpoints /\ disk = store
    BY <1>1
  <2>2. \/ /\ replay = "check" /\ store = file /\ snapshot = file
           /\ SanityCheck(checkpoint, file)
        \/ replay = "done" /\ store = NoChain
    BY <1>1, <1>2, OpensChains, Zenon
  <2> QED
    BY <1>2, <2>1, <2>2 DEF ChainsInv, ChainOrEmpty
<1>4. Fresh(token, wk, req, resp, up, wanted)
  BY Zenon DEF Init, Fresh, FreshWorkers
<1>5. best \in DOMAIN Chains
  BY ChainsAssumption DEF Init
<1>6. Meets(token, wk, req, resp, up, wanted, store)
  BY <1>4, FreshKeeps
<1>7. WorkersInv
  BY <1>5, <1>6, Zenon DEF WorkersInv, Meets
<1> QED
  BY <1>3, <1>7

\* What the file holds at any time can be opened.
LEMMA DiskIsFile ==
    ASSUME ChainsInv
    PROVE  FileMap(disk)
<1>1. FileMap(NoChain)
  BY NoChainIsMap DEF FileMap
<1> QED
  BY <1>1, ChainShape, Zenon DEF ChainsInv, ChainOrEmpty

\* So does a start after a crash, on the file as it was flushed.
LEMMA CrashKeeps ==
    ASSUME WorkersInv, ChainsInv, Crash
    PROVE  WorkersInv' /\ ChainsKept
<1>1. PICK cp \in Checkpoints :
          /\ checkpoint' = cp
          /\ store' = Open(cp, disk).store /\ disk' = Open(cp, disk).store
          /\ snapshot' = Open(cp, disk).snapshot /\ replay' = Open(cp, disk).replay
  BY Zenon DEF Crash
<1>2. FileMap(disk) /\ disk = store
  BY DiskIsFile, Zenon DEF ChainsInv
<1>3. ChainsKept
  <2>1. ChainsInv'
    BY <1>1, <1>2, OpensChains, Zenon DEF ChainsInv, ChainOrEmpty
  <2>2. store' = store \/ store' = NoChain
    BY <1>1, <1>2, OpensChains, Zenon
  <2>3. Gains(store, store')
    BY <2>2, GainsByKeeping, Zenon DEF Keeps
  <2> QED
    BY <2>1, <2>3 DEF ChainsKept
<1>4. Fresh(token', wk', req', resp', up', wanted')
  BY Zenon DEF Crash, Fresh, FreshWorkers
<1>5. best' \in DOMAIN Chains
  BY DEF Crash, WorkersInv
<1>6. Meets(token', wk', req', resp', up', wanted', store')
  BY <1>4, FreshKeeps
<1>7. WorkersInv'
  BY <1>5, <1>6, Zenon DEF WorkersInv, Meets
<1> QED
  BY <1>3, <1>7

\* The replay thread: the worker it wipes under is parked.
LEMMA ReplayKeeps ==
    ASSUME WorkersInv, ChainsInv, ReplayInv, ReplayPasses \/ ReplayWipes \/ ReplayPublishes
    PROVE  WorkersInv' /\ ChainsKept
<1>1. UNCHANGED <<checkpoint, snapshot, token, wanted, wk, req, resp, up, best>>
  BY Zenon DEF ReplayPasses, ReplayWipes, ReplayPublishes, Elsewhere, ownVars, linkVars
<1>2. Fits(wk[token], store')
  <2>1. wk[token].pc \in Parked /\ Fits(wk[token], store)
    BY Zenon DEF ReplayInv, WorkersInv, ReplayPasses, ReplayWipes, ReplayPublishes
  <2> QED
    BY <2>1, Zenon DEF Fits, Parked
<1>3. WorkersInv'
  BY <1>1, <1>2, Zenon DEF WorkersInv
<1>7. Gains(store, store')
  <2>1. store' = store \/ store' = NoChain
    BY Zenon DEF ReplayPasses, ReplayWipes, ReplayPublishes
  <2> QED
    BY <2>1, GainsByKeeping, Zenon DEF Keeps
<1>4. CASE ReplayPasses
  <2>1. UNCHANGED <<store, disk>> /\ replay' = "done" /\ replay = "check"
        /\ ReplayValidate(snapshot)
    BY <1>4, Zenon DEF ReplayPasses
  <2>2. ChainOrEmpty(checkpoint, snapshot)
    BY <2>1, ReplayedIsChain, Zenon DEF ChainsInv
  <2> QED
    BY <1>1, <1>3, <1>7, <2>1, <2>2, Zenon DEF ChainsInv, ChainsKept
<1>5. CASE ReplayWipes
  BY <1>1, <1>3, <1>5, <1>7, Zenon DEF ReplayWipes, ChainsInv, ChainsKept
<1>6. CASE ReplayPublishes
  BY <1>1, <1>3, <1>6, <1>7 DEF ReplayPublishes, ChainsInv, ChainOrEmpty, ChainsKept
<1> QED
  BY <1>4, <1>5, <1>6

\* One step per action.
LEMMA StoreStep ==
    WorkersInv /\ ChainsInv /\ ReplayInv /\ [Next]_vars => WorkersInv' /\ ChainsKept
<1> SUFFICES ASSUME WorkersInv, ChainsInv, ReplayInv, [Next]_vars
             PROVE  WorkersInv' /\ ChainsKept
  OBVIOUS
<1>1. CASE ReplayPasses \/ ReplayWipes \/ ReplayPublishes
  BY <1>1, ReplayKeeps
<1>2. ASSUME NEW k \in Tokens, Worker(k) PROVE WorkersInv' /\ ChainsKept
  BY <1>2, CurrentWorker, OtherWorker
<1>3. CASE \E k \in Tokens : ServerNotifies(k) \/ ServerAnswers(k) \/ ServerErrs(k)
  BY <1>3, ServerKeeps
<1>4. CASE ServerMines
  <2>1. UNCHANGED <<store, disk, openVars, token, wanted, wk, req, resp, up>>
    BY <1>4, Zenon DEF ServerMines, Quiet, storeVars, ownVars, linkVars
  <2>2. best' \in DOMAIN Chains
    BY <1>4, ChainsAssumption DEF ServerMines, WorkersInv
  <2>3. WorkersInv'
    BY <2>1, <2>2, Zenon DEF WorkersInv
  <2> QED
    BY <2>1, <2>3, StoreStays
<1>5. CASE ConnectionDrops \/ StopStore
  <2>1. UNCHANGED <<store, disk, openVars, token, wanted, wk, resp, best>> /\ Close(token)
    BY <1>5, Zenon DEF ConnectionDrops, StopStore, storeVars
  <2> QED
    BY <2>1, CloseKeeps, StoreStays, Zenon
<1>6. CASE Follow \/ Reconnect
  BY <1>6, RestartKeeps, Zenon DEF Follow, Reconnect
<1>7. CASE RequestExtendDown
  <2>1. UNCHANGED <<store, disk, openVars, token, wk, req, resp, up, best>>
    BY <1>7, Zenon DEF RequestExtendDown, storeVars, ownVars, linkVars
  <2>2. wanted' \subseteq Nat
    BY <1>7, BoundsAssumption, Zenon DEF RequestExtendDown
  <2>3. WorkersInv'
    BY <2>1, <2>2 DEF WorkersInv
  <2> QED
    BY <2>1, <2>3, StoreStays
<1>8. CASE Crash
  BY <1>8, CrashKeeps, Zenon
<1>9. CASE UNCHANGED vars
  <2>1. UNCHANGED <<store, disk, openVars, token, wanted, wk, req, resp, up, best>>
    BY <1>9, Zenon DEF vars, openVars
  <2>2. WorkersInv'
    BY <2>1 DEF WorkersInv
  <2> QED
    BY <2>1, <2>2, StoreStays
<1> QED
  BY <1>1, <1>2, <1>3, <1>4, <1>5, <1>6, <1>7, <1>8, <1>9, Zenon DEF Next

\* Once the replay thread is done the store and its file are one chain that the
\* next start accepts: for any chains of the server, any file, checkpoint and
\* interval, and any number of workers that were superseded half-way through a
\* sync, an extension or a reorg.
THEOREM StoreStaysAChain == Spec => []StoreIsAChain
<1>1. ChainsInv => StoreIsAChain
  BY ChainIsChain DEF ChainsInv, StoreIsAChain
<1>2. ChainsKept => ChainsInv'
  BY DEF ChainsKept
<1> QED
  BY <1>1, <1>2, InitStore, StoreStep, InitReplayInv, ReplayStep, PTL DEF Spec

\* Short of a wipe, no step takes work from the store: what it has above some
\* height gives way only to a branch of more total work, the one that was
\* weighed.  A worker superseded between has_more_work_than_active and
\* replace_branch writes nothing, a batch goes above the tip and an extension
\* below the floor, and the file a start reads is never behind the store.
THEOREM WorkStaysOrGrows == Spec => WorkNeverDrops
<1>1. WorkersInv /\ ChainsInv /\ ReplayInv /\ [Next]_vars => [Gains(store, store')]_store
  BY StoreStep DEF ChainsKept
<1>2. ChainsKept => ChainsInv'
  BY DEF ChainsKept
<1> QED
  BY <1>1, <1>2, InitStore, StoreStep, InitReplayInv, ReplayStep, PTL DEF Spec, WorkNeverDrops

=============================================================================
