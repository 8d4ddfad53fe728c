-------------------------- MODULE WalletSyncProofs --------------------------
(* Proofs about WalletSync for every set of transactions, scripts and blocks, *)
(* every sequence of server chains and every bound.                           *)
EXTENDS WalletSync, TLAPS

-----------------------------------------------------------------------------
(* The queue of pending claims.                                              *)

\* A history reports each transaction at one height.
LEMMA ReportedOnce ==
  ASSUME NEW new, NEW r \in Reported(new), NEW q \in Reported(new), r.txid = q.txid
  PROVE  r = q
BY DEF Reported

\* record_reported_heights keeps one claim per transaction: what it prunes is
\* every claim at another height than the one it is about to queue.
LEMMA RecordKeepsOneClaim ==
  ASSUME NEW claims, NEW store, NEW new,
         \A c, d \in claims : c.txid = d.txid => c = d,
         \A c \in claims : c = [txid |-> c.txid, height |-> c.height]
  PROVE  \A c, d \in RecordReportedHeights(claims, store, Reported(new)) :
           c.txid = d.txid => c = d
<1>1. \A r \in Reported(new) : r = [txid |-> r.txid, height |-> r.height]
  BY DEF Reported
<1> QED
  BY <1>1, ReportedOnce DEF RecordReportedHeights, PrunePending

-----------------------------------------------------------------------------
(* Types.                                                                    *)

\* Between two proofs the reconciler holds a placeholder of the right type.
LEMMA NoJobType == NoJob \in Job
BY CoinStoreAssumption DEF NoJob, Job, ClaimAt, Height, BlockOrNone

\* HeaderStore::block_hash answers a block or none at every height.
LEMMA HeadersType ==
  ASSUME TypeOK
  PROVE  Headers \in HeaderView
<1> DEFINE Known(h) == loc > 0 /\ floor <= h /\ h <= Len(Chains[loc])
<1>1. loc \in 0..Len(Chains) /\ floor \in 1..MaxHeight
  BY WalletSyncAssumption DEF TypeOK, ServerTypeOK, HeaderTypeOK, Height
<1>2. ASSUME NEW h \in Height, Known(h)
      PROVE  Chains[loc][h] \in Block
  <2>1. Chains[loc] \in Seq(Block)
    BY <1>1, <1>2, WalletSyncAssumption
  <2>2. h \in 1..Len(Chains[loc])
    BY <2>1, <1>2 DEF Height
  <2> QED
    BY <2>1, <2>2
<1>3. \A h \in Height :
        (IF Known(h) THEN Chains[loc][h] ELSE NoBlock) \in BlockOrNone
  BY <1>2 DEF BlockOrNone
<1> QED
  BY <1>3, Zenon DEF Headers, HeaderView

\* A map from some transactions to heights is a history.
LEMMA HistoryIntro ==
  ASSUME NEW S \in SUBSET Txid, NEW f \in [S -> 0..MaxHeight]
  PROVE  f \in History
BY DEF History

\* The empty history, of a script the server knows nothing about.
LEMMA NoHistoryType == NoHistory \in History
<1>1. NoHistory \in [{} -> 0..MaxHeight]
  BY CoinStoreAssumption DEF NoHistory
<1> QED
  BY <1>1, HistoryIntro, Zenon

\* What the server reports of a script is a history.
LEMMA SrvHistoryType ==
  ASSUME NEW s \in Spk
  PROVE  SrvHistory(s) \in History
<1> DEFINE S == {u \in Touches[s] : OnServer(u)}
<1>1. ASSUME NEW t \in Txid PROVE ReportedHeight(t) \in 0..MaxHeight
  <2>1. CASE Mined(srv, t)
    <3>1. \E h \in Height : MinedAt(srv, t, h)
      BY <2>1 DEF Mined
    <3>2. ReportedHeight(t) \in Height
      BY <2>1, <3>1 DEF ReportedHeight
    <3> QED
      BY <3>2, CoinStoreAssumption DEF Height
  <2>2. CASE ~Mined(srv, t)
    BY <2>2, CoinStoreAssumption DEF ReportedHeight
  <2> QED
    BY <2>1, <2>2
<1>2. S \in SUBSET Txid
  BY WalletSyncAssumption
<1>3. SrvHistory(s) \in [S -> 0..MaxHeight]
  BY <1>1, <1>2 DEF SrvHistory
<1> QED
  BY <1>2, <1>3, HistoryIntro

\* A history reports heights of the instance for transactions of the instance.
LEMMA HistoryValues ==
  ASSUME NEW new \in History
  PROVE  DOMAIN new \subseteq Txid /\ \A t \in DOMAIN new : new[t] \in 0..MaxHeight
BY DEF History

\* The heights a history reports are claims.
LEMMA ReportedType ==
  ASSUME NEW new \in History
  PROVE  Reported(new) \subseteq ClaimAt
BY HistoryValues, CoinStoreAssumption DEF Reported, ClaimAt, Height

(* What the operators of CoinStore return.                                   *)

\* update_spk_history keeps the type of the store and yields an Update.
LEMMA FoldTypes ==
  ASSUME NEW store \in [Txid -> TxEntry], NEW prev \in History, NEW new \in History
  PROVE  /\ FoldTxs(store, prev, new) \in [Txid -> TxEntry]
         /\ UpdateFor(store, prev, new) \in Update
BY HistoryValues DEF FoldTxs, Demote, TxEntry, UpdateFor, Update, Added

\* insert_updates keeps the type of the store.
LEMMA InsertType ==
  ASSUME NEW store \in [Txid -> TxEntry], NEW txids
  PROVE  InsertUpdates(store, txids) \in [Txid -> TxEntry]
BY DEF InsertUpdates, TxEntry

\* An entry in a block gives a claim at its height.
LEMMA ClaimOfType ==
  ASSUME NEW store \in [Txid -> TxEntry], NEW t \in Txid, HasBlock(store[t])
  PROVE  /\ ClaimOf(store, t) \in ClaimAt
         /\ store[t] \in [inc : InBlock, height : Height, hash : Block, time : BlockOrNone]
BY DEF ClaimOf, ClaimAt, HasBlock, InBlock, TxEntry, Absent, Unconfirmed

\* An entry is the record of its fields.
LEMMA EntryShape ==
  ASSUME NEW e \in TxEntry
  PROVE  /\ e = [inc |-> e.inc, height |-> e.height, hash |-> e.hash, time |-> e.time]
         /\ e.time \in BlockOrNone
BY DEF TxEntry, Absent, Unconfirmed, BlockOrNone

\* Stamping an entry changes its time only.
LEMMA StampShape ==
  ASSUME NEW e \in TxEntry, NEW b
  PROVE  /\ [e EXCEPT !.time = b].inc = e.inc
         /\ [e EXCEPT !.time = b].height = e.height
         /\ [e EXCEPT !.time = b].hash = e.hash
BY EntryShape

\* update_inclusion to a confirmed variant keeps an entry's type.
LEMMA InclusionType ==
  ASSUME NEW e \in TxEntry, NEW inc \in InBlock, NEW h \in Height, NEW b \in Block
  PROVE  UpdateInclusion(e, inc, h, b) \in TxEntry
<1>1. CASE e.inc = "absent"
  BY <1>1 DEF UpdateInclusion
<1>2. CASE e.inc # "absent"
  <2>1. e = [inc |-> e.inc, height |-> e.height, hash |-> e.hash, time |-> e.time]
        /\ e.time \in BlockOrNone
    BY EntryShape
  <2>2. UpdateInclusion(e, inc, h, b) = [inc |-> inc, height |-> h, hash |-> b, time |-> e.time]
    BY <1>2, <2>1, Zenon DEF UpdateInclusion
  <2> QED
    BY <2>1, <2>2 DEF TxEntry
<1> QED
  BY <1>1, <1>2

\* reverify_remined_entries keeps the type of the store and asks for claims.
LEMMA ReverifyTypes ==
  ASSUME NEW store \in [Txid -> TxEntry], NEW slots, NEW hdr \in HeaderView
  PROVE  /\ ReverifyTxs(store, slots, hdr) \in [Txid -> TxEntry]
         /\ ReverifyClaims(store, slots, hdr) \subseteq ClaimAt
<1>1. ASSUME NEW t \in ToReverify(store, slots, hdr)
      PROVE  /\ t \in Txid /\ ClaimOf(store, t) \in ClaimAt
             /\ store[t].height \in Height /\ hdr[store[t].height] \in Block
  BY <1>1, ClaimOfType DEF ToReverify, HeaderView, BlockOrNone
<1>2. ASSUME NEW t \in ToReverify(store, slots, hdr)
      PROVE  UpdateInclusion(store[t], "unverified", store[t].height, hdr[store[t].height]) \in TxEntry
  BY <1>1, InclusionType DEF InBlock
<1> QED
  BY <1>1, <1>2 DEF ReverifyTxs, ReverifyClaims

\* resolve_pending_claims keeps the type of the store and promotes claims.
LEMMA ResolveTypes ==
  ASSUME NEW store \in [Txid -> TxEntry], NEW hdr \in HeaderView,
         NEW claims \in SUBSET ClaimAt,
         NEW promoted, promoted = Promotable(store, claims, hdr)
  PROVE  /\ ResolveTxs(store, promoted, hdr) \in [Txid -> TxEntry]
         /\ promoted \subseteq ClaimAt
<1>1. \A c \in promoted : c \in ClaimAt /\ c.height \in Height /\ hdr[c.height] \in Block
  BY DEF Promotable, ClaimAt, HeaderView, BlockOrNone
<1>2. ASSUME NEW t \in Txid, \E c \in promoted : c.txid = t
      PROVE  LET c == CHOOSE c \in promoted : c.txid = t
             IN  UpdateInclusion(store[t], "unverified", c.height, hdr[c.height]) \in TxEntry
  BY <1>1, <1>2, InclusionType DEF InBlock
<1> QED
  BY <1>1, <1>2 DEF ResolveTxs

\* stamp_confirmation_times keeps the type of the store.
LEMMA StampType ==
  ASSUME NEW store \in [Txid -> TxEntry], NEW hdr \in HeaderView
  PROVE  StampTxs(store, hdr) \in [Txid -> TxEntry]
<1>1. ASSUME NEW t \in Txid, IsConfirmed(store[t])
      PROVE  [store[t] EXCEPT !.time = hdr[store[t].height]] \in TxEntry
  <2>1. store[t] \in [inc : InBlock, height : Height, hash : Block, time : BlockOrNone]
    BY <1>1, ClaimOfType DEF IsConfirmed, HasBlock, InBlock
  <2> QED
    BY <2>1 DEF HeaderView, TxEntry
<1> QED
  BY <1>1 DEF StampTxs

\* What requeue_confirmed_unverified asks for are claims.
LEMMA RequeueType ==
  ASSUME NEW store \in [Txid -> TxEntry]
  PROVE  ConfirmedUnverifiedClaims(store) \subseteq ClaimAt
BY ClaimOfType DEF ConfirmedUnverifiedClaims, HasBlock, InBlock

(* Every step keeps the types.  What a step leaves alone keeps its type:     *)

\* The variables of a thread that a step leaves alone keep their types.
LEMMA Frames ==
  /\ ServerTypeOK /\ UNCHANGED serverVars => ServerTypeOK'
  /\ HeaderTypeOK /\ UNCHANGED <<serverVars, headerVars>> => HeaderTypeOK'
  /\ MerkleTypeOK /\ UNCHANGED merkleVars => MerkleTypeOK'
  /\ CoinTypeOK /\ UNCHANGED coinVars => CoinTypeOK'
  /\ LinkTypeOK /\ UNCHANGED <<statusVars, linkVars>> => LinkTypeOK'
  /\ ReconTypeOK /\ UNCHANGED reconVars => ReconTypeOK'
BY DEF ServerTypeOK, HeaderTypeOK, MerkleTypeOK, CoinTypeOK, LinkTypeOK, ReconTypeOK,
       serverVars, headerVars, merkleVars, coinVars, statusVars, linkVars, reconVars

\* The freshly opened wallet is well typed.
LEMMA InitTyping == Init => TypeOK
<1> SUFFICES ASSUME Init PROVE TypeOK
  OBVIOUS
<1>1. left \in [Bounds -> Nat]
  BY WalletSyncAssumption DEF Init, Bounds
<1>2. CoinTypeOK
  BY NoHistoryType DEF Init, CoinTypeOK, TxEntry
<1>3. LinkTypeOK
  <2>1. <<>> \in Seq(Request) /\ <<>> \in Seq(Message)
    OBVIOUS
  <2> QED
    BY <2>1, NoHistoryType, Zenon DEF Init, LinkTypeOK, Option
<1>4. MerkleTypeOK
  BY DEF Init, MerkleTypeOK
<1>5. ReconTypeOK
  <2>1. <<>> \in Seq(Outcome)
    OBVIOUS
  <2> QED
    BY <2>1, NoJobType, Zenon DEF Init, ReconTypeOK, Steps
<1>6. ServerTypeOK
  BY WalletSyncAssumption DEF Init, ServerTypeOK
<1>7. HeaderTypeOK
  <2>1. loc \in 0..srv
    BY DEF Init
  <2>2. floor \in Height
    BY WalletSyncAssumption DEF Init
  <2> QED
    BY <2>1, <2>2, Zenon DEF Init, HeaderTypeOK, Option
<1> QED
  BY <1>1, <1>2, <1>3, <1>4, <1>5, <1>6, <1>7 DEF TypeOK

\* Spending from a budget leaves natural numbers.
LEMMA SpendType ==
  ASSUME NEW b \in Bounds, left \in [Bounds -> Nat], Spend(b)
  PROVE  left' \in [Bounds -> Nat]
BY DEF Spend

\* The budgets the disturbances spend from exist.
LEMMA BoundNames ==
  {"pool", "errors", "drops", "merkleDrops", "broadcasts", "crashes"} \subseteq Bounds
BY DEF Bounds

\* One script leaves the oldest history request.
LEMMA PopHistoryType ==
  ASSUME NEW s \in Spk, toSrv \in Seq(Request), toSrv # <<>>, Head(toSrv).kind = "history",
         PopHistory(s)
  PROVE  toSrv' \in Seq(Request)
<1>1. Head(toSrv) \in [kind : {"history"}, spks : SUBSET Spk] /\ toSrv[1] = Head(toSrv)
      /\ 1 \in 1..Len(toSrv)
  BY DEF Request
<1>2. [toSrv[1] EXCEPT !.spks = @ \ {s}] \in Request
  BY <1>1 DEF Request
<1> DEFINE r == [toSrv[1] EXCEPT !.spks = @ \ {s}]
<1>3. [toSrv EXCEPT ![1] = r] \in Seq(Request)
  <2> HIDE DEF r
  <2> QED
    BY <1>1, <1>2 DEF r
<1> QED
  BY <1>3 DEF PopHistory

\* Every step of the server keeps the types.
LEMMA ServerTyping ==
  ASSUME TypeOK,
         ServerReplies \/ ServerMines \/ ServerPoolChanges
           \/ \E s \in Spk : ServerFailsHistory(s)
  PROVE  TypeOK'
<1>1. CASE ServerMines
  <2>1. ServerTypeOK' /\ HeaderTypeOK'
    BY <1>1 DEF ServerMines, TypeOK, ServerTypeOK, HeaderTypeOK, headerVars
  <2> QED
    BY <1>1, <2>1, Frames DEF ServerMines, TypeOK
<1>2. CASE ServerPoolChanges
  <2>1. ServerTypeOK' /\ HeaderTypeOK'
    BY <1>2 DEF ServerPoolChanges, TypeOK, ServerTypeOK, HeaderTypeOK, headerVars
  <2> QED
    BY <1>2, <2>1, Frames, SpendType, BoundNames DEF ServerPoolChanges, TypeOK
<1>3. ASSUME NEW s \in Spk, ServerPushes(s) PROVE TypeOK'
  <2>1. [kind |-> "status", spk |-> s, hist |-> SrvHistory(s)] \in Message
    BY SrvHistoryType DEF Message
  <2>2. fromSrv' \in Seq(Message)
    BY <1>3, <2>1 DEF ServerPushes, TypeOK, LinkTypeOK
  <2>3. seen' \in [Spk -> Option(History)]
    BY <1>3, SrvHistoryType, Zenon DEF ServerPushes, TypeOK, LinkTypeOK, Option
  <2>4. LinkTypeOK'
    BY <1>3, <2>2, <2>3 DEF ServerPushes, TypeOK, LinkTypeOK, statusVars
  <2> QED
    BY <1>3, <2>4, Frames DEF ServerPushes, TypeOK
<1>4. ASSUME NEW s \in Spk, ServerAnswersHistory(s) PROVE TypeOK'
  <2>1. [kind |-> "history", spk |-> s, hist |-> SrvHistory(s)] \in Message
    BY SrvHistoryType DEF Message
  <2>2. toSrv' \in Seq(Request)
    BY <1>4, PopHistoryType DEF ServerAnswersHistory, TypeOK, LinkTypeOK
  <2>3. LinkTypeOK'
    BY <1>4, <2>1, <2>2 DEF ServerAnswersHistory, TypeOK, LinkTypeOK, statusVars
  <2> QED
    BY <1>4, <2>3, Frames DEF ServerAnswersHistory, TypeOK
<1>5. ASSUME NEW s \in Spk, ServerFailsHistory(s) PROVE TypeOK'
  <2>1. toSrv' \in Seq(Request)
    BY <1>5, PopHistoryType DEF ServerFailsHistory, TypeOK, LinkTypeOK
  <2>2. LinkTypeOK'
    BY <1>5, <2>1 DEF ServerFailsHistory, TypeOK, LinkTypeOK, statusVars
  <2> QED
    BY <1>5, <2>2, Frames, SpendType, BoundNames DEF ServerFailsHistory, TypeOK
<1>6. CASE ServerAnswersTxs
  <2> DEFINE known == {t \in Head(toSrv).ids : OnServer(t)}
  <2>1. Head(toSrv) \in [kind : {"txs"}, ids : SUBSET Txid]
    BY <1>6 DEF ServerAnswersTxs, TypeOK, LinkTypeOK, Request
  <2>2. [kind |-> "txs", ids |-> known] \in Message
    BY <2>1 DEF Message
  <2>3. fromSrv' = fromSrv \/ fromSrv' = Append(fromSrv, [kind |-> "txs", ids |-> known])
    BY <1>6 DEF ServerAnswersTxs
  <2> HIDE DEF known
  <2>4. LinkTypeOK'
    BY <1>6, <2>2, <2>3 DEF ServerAnswersTxs, TypeOK, LinkTypeOK, statusVars
  <2> QED
    BY <1>6, <2>4, Frames DEF ServerAnswersTxs, TypeOK
<1> QED
  BY <1>1, <1>2, <1>3, <1>4, <1>5, <1>6 DEF ServerReplies

\* Every step of the header store keeps the types.
LEMMA HeaderTyping ==
  ASSUME TypeOK, HeaderStoreSteps
  PROVE  TypeOK'
<1>1. CASE HeaderStoreValidated
  <2>1. HeaderTypeOK' /\ ReconTypeOK'
    BY <1>1 DEF HeaderStoreValidated, TypeOK, HeaderTypeOK, ReconTypeOK, serverVars
  <2> QED
    BY <1>1, <2>1, Frames DEF HeaderStoreValidated, TypeOK
<1>2. CASE HeaderStoreAdvances
  <2>1. HeaderTypeOK'
    BY <1>2 DEF HeaderStoreAdvances, TypeOK, HeaderTypeOK, ServerTypeOK, serverVars
  <2>2. ReconTypeOK'
    BY <1>2 DEF HeaderStoreAdvances, TypeOK, ReconTypeOK
  <2> QED
    BY <1>2, <2>1, <2>2, Frames DEF HeaderStoreAdvances, TypeOK
<1>3. CASE HeaderStoreExtendsDown
  <2>1. wanted \subseteq Height
    BY DEF TypeOK, HeaderTypeOK, Option
  <2>2. floor' \in Height
    BY <1>3, <2>1 DEF HeaderStoreExtendsDown, TypeOK, HeaderTypeOK
  <2>3. HeaderTypeOK'
    BY <1>3, <2>2 DEF HeaderStoreExtendsDown, TypeOK, HeaderTypeOK, Option, serverVars
  <2>4. ReconTypeOK'
    BY <1>3 DEF HeaderStoreExtendsDown, TypeOK, ReconTypeOK
  <2> QED
    BY <1>3, <2>3, <2>4, Frames DEF HeaderStoreExtendsDown, TypeOK
<1> QED
  BY <1>1, <1>2, <1>3 DEF HeaderStoreSteps

\* The server proves a claim in a block of its chain.
LEMMA MinedBlock ==
  ASSUME TypeOK, NEW c \in ClaimAt, MinedAt(srv, c.txid, c.height)
  PROVE  Chains[srv][c.height] \in Block
<1>1. srv \in 1..Len(Chains) /\ c.height \in Nat \ {0}
  BY CoinStoreAssumption DEF TypeOK, ServerTypeOK, ClaimAt, Height
<1>2. Chains[srv] \in Seq(Block)
  BY <1>1, WalletSyncAssumption
<1>3. c.height \in 1..Len(Chains[srv])
  BY <1>1, <1>2 DEF MinedAt
<1> QED
  BY <1>2, <1>3

\* Every step of the merkle client and its router keeps the types.
LEMMA MerkleTyping ==
  ASSUME TypeOK, MerkleSteps \/ MerkleClientEnds
  PROVE  TypeOK'
<1>1. ASSUME NEW c \in ClaimAt, MerkleAnswers(c) PROVE TypeOK'
  <2> DEFINE block == IF MinedAt(srv, c.txid, c.height) THEN Chains[srv][c.height] ELSE NoBlock
  <2>1. block \in BlockOrNone
    BY MinedBlock DEF BlockOrNone
  <2>2. outcomes' = Append(outcomes, [claim |-> c, block |-> block])
    BY <1>1 DEF MerkleAnswers
  <2> HIDE DEF block
  <2>3. [claim |-> c, block |-> block] \in Outcome
    BY <2>1 DEF Outcome
  <2>4. ReconTypeOK'
    BY <1>1, <2>2, <2>3 DEF MerkleAnswers, TypeOK, ReconTypeOK
  <2>5. MerkleTypeOK'
    BY <1>1 DEF MerkleAnswers, TypeOK, MerkleTypeOK
  <2> QED
    BY <1>1, <2>4, <2>5, Frames DEF MerkleAnswers, TypeOK
<1>2. ASSUME NEW c \in ClaimAt, FailPending(c) PROVE TypeOK'
  <2>1. [claim |-> c, block |-> NoBlock] \in Outcome
    BY DEF Outcome, BlockOrNone
  <2>2. ReconTypeOK'
    BY <1>2, <2>1 DEF FailPending, TypeOK, ReconTypeOK
  <2>3. MerkleTypeOK'
    BY <1>2 DEF FailPending, TypeOK, MerkleTypeOK
  <2> QED
    BY <1>2, <2>2, <2>3, Frames DEF FailPending, TypeOK
<1>3. CASE MerkleClientGone
  <2>1. MerkleTypeOK'
    BY <1>3 DEF MerkleClientGone, TypeOK, MerkleTypeOK
  <2> QED
    BY <1>3, <2>1, Frames DEF MerkleClientGone, TypeOK
<1>4. CASE MerkleReconnects
  <2>1. ConfirmedUnverifiedClaims(tx) \subseteq ClaimAt
    BY RequeueType DEF TypeOK, CoinTypeOK
  <2>2. MerkleTypeOK'
    BY <1>4, <2>1 DEF MerkleReconnects, TypeOK, MerkleTypeOK
  <2> QED
    BY <1>4, <2>2, Frames DEF MerkleReconnects, TypeOK
<1>5. CASE MerkleClientEnds
  <2>1. MerkleTypeOK'
    BY <1>5 DEF MerkleClientEnds, TypeOK, MerkleTypeOK
  <2> QED
    BY <1>5, <2>1, Frames, SpendType, BoundNames DEF MerkleClientEnds, TypeOK
<1> QED
  BY <1>1, <1>2, <1>3, <1>4, <1>5 DEF MerkleSteps

\* handle_history_response keeps the types of what it folds.
LEMMA HandleHistoryType ==
  ASSUME CoinTypeOK, NEW s \in Spk, NEW new \in History, HandleHistory(s, new)
  PROVE  /\ tx' \in [Txid -> TxEntry] /\ inFlight' \subseteq ClaimAt
         /\ hist' \in [Spk -> History] /\ updates' \subseteq Update
         /\ UpdateFor(FoldTxs(tx, hist[s], new), hist[s], new) \in Update
<1>1. hist[s] \in History /\ tx \in [Txid -> TxEntry]
  BY DEF CoinTypeOK
<1>2. FoldTxs(tx, hist[s], new) \in [Txid -> TxEntry]
  BY <1>1, FoldTypes
<1>3. UpdateFor(FoldTxs(tx, hist[s], new), hist[s], new) \in Update
  BY <1>1, <1>2, FoldTypes
<1>4. inFlight' \subseteq ClaimAt
  BY DEF CoinTypeOK, HandleHistory, FoldInFlight
<1>5. hist' \in [Spk -> History]
  BY DEF CoinTypeOK, HandleHistory
<1>6. updates' \subseteq Update
  BY <1>3 DEF CoinTypeOK, HandleHistory, IncompleteUpdates
<1> QED
  BY <1>2, <1>3, <1>4, <1>5, <1>6 DEF HandleHistory

\* Sequences grow at the end and are read from the front.
LEMMA SeqType ==
  ASSUME NEW S, NEW x \in S, NEW q \in Seq(S)
  PROVE  <<x>> \in Seq(S) /\ Append(q, x) \in Seq(S)
OBVIOUS

\* The end of the listener thread keeps the types of its connection.
LEMMA ListenerEndsType ==
  ASSUME LinkTypeOK, ListenerEnds, status' \in [Spk -> History], UNCHANGED statusDisk
  PROVE  LinkTypeOK'
<1>1. <<>> \in Seq(Request) /\ <<>> \in Seq(Message)
  OBVIOUS
<1> QED
  BY <1>1, Zenon DEF LinkTypeOK, ListenerEnds

\* A received message has the fields of its kind.
LEMMA HeadType ==
  ASSUME LinkTypeOK, NEW kind, Receives(kind)
  PROVE  /\ Head(fromSrv) \in Message /\ Head(fromSrv).kind = kind
         /\ Tail(fromSrv) \in Seq(Message)
         /\ kind # "txs" => Head(fromSrv).spk \in Spk /\ Head(fromSrv).hist \in History
         /\ kind = "txs" => Head(fromSrv).ids \subseteq Txid
<1>1. /\ Head(fromSrv) \in Message /\ Head(fromSrv).kind = kind
      /\ Tail(fromSrv) \in Seq(Message)
  BY DEF LinkTypeOK, Receives
<1> QED
  BY <1>1 DEF Message

\* The tick a listener sends keeps the reconciler's types.
LEMMA NotifyType ==
  ASSUME ReconTypeOK, NotifyScan
  PROVE  ReconTypeOK'
BY DEF ReconTypeOK, NotifyScan

\* Every step of the listener, and a broadcast, keeps the types.
LEMMA ListenerTyping ==
  ASSUME TypeOK,
         ListenerSteps \/ ClientDies \/ ListenerStops \/ \E t \in Txid : RecordBroadcast(t)
  PROVE  TypeOK'
<1>0. <<>> \in Seq(Request) /\ <<>> \in Seq(Message)
  OBVIOUS
<1>1. CASE ListenerStarts
  <2> DEFINE spks == {s \in Spk : Funds[s] \cap UnconfirmedTxsWithCoins(tx, view) # {}}
  <2>1. toSrv' = <<>> \/ toSrv' = <<[kind |-> "history", spks |-> spks]>>
    BY <1>1, Zenon DEF ListenerStarts
  <2>2. [kind |-> "history", spks |-> spks] \in Request
    BY DEF Request
  <2> HIDE DEF spks
  <2>3. toSrv' \in Seq(Request)
    BY <1>0, <2>1, <2>2, SeqType, Zenon
  <2>4. LinkTypeOK'
    BY <1>0, <1>1, <2>3 DEF ListenerStarts, TypeOK, LinkTypeOK, Option, statusVars
  <2> QED
    BY <1>1, <2>4, Frames DEF ListenerStarts, TypeOK
<1>2. CASE ListenerDisconnects
  <2>1. LinkTypeOK'
    BY <1>2, ListenerEndsType DEF ListenerDisconnects, TypeOK, LinkTypeOK, statusVars
  <2> QED
    BY <1>2, <2>1, Frames DEF ListenerDisconnects, TypeOK
<1>3. CASE ListenerStops
  <2>1. LinkTypeOK'
    BY <1>3, ListenerEndsType DEF ListenerStops, TypeOK, LinkTypeOK, statusVars
  <2> QED
    BY <1>3, <2>1, Frames, SpendType, BoundNames DEF ListenerStops, TypeOK
<1>4. CASE ClientDies
  <2>1. LinkTypeOK'
    BY <1>0, <1>4, Zenon DEF ClientDies, TypeOK, LinkTypeOK, statusVars
  <2> QED
    BY <1>4, <2>1, Frames, SpendType, BoundNames DEF ClientDies, TypeOK
<1>5. CASE OnStatusUnchanged
  <2>1. LinkTypeOK'
    BY <1>5, HeadType DEF OnStatusUnchanged, Pop, TypeOK, LinkTypeOK, statusVars
  <2> QED
    BY <1>5, <2>1, NotifyType, Frames DEF OnStatusUnchanged, TypeOK
<1>6. CASE OnStatusChanged
  <2> DEFINE m == Head(fromSrv)
  <2>1. m.spk \in Spk /\ m.hist \in History /\ Tail(fromSrv) \in Seq(Message)
    <3>1. Receives("status")
      BY <1>6, Zenon DEF OnStatusChanged
    <3> QED
      BY <3>1, HeadType DEF TypeOK
  <2>2. status' = [status EXCEPT ![m.spk] = m.hist]
    BY <1>6 DEF OnStatusChanged
  <2>3. [kind |-> "history", spks |-> {m.spk}] \in Request
    BY <2>1 DEF Request
  <2>4. status' \in [Spk -> History]
    BY <2>1, <2>2 DEF TypeOK, LinkTypeOK
  <2>5. CASE client
    <3>1. toSrv' = Append(toSrv, [kind |-> "history", spks |-> {m.spk}])
          /\ statusDisk' = status' /\ fromSrv' = Tail(fromSrv)
          /\ UNCHANGED <<listener, client, seen>> /\ NotifyScan
      BY <1>6, <2>5, Zenon DEF OnStatusChanged, Pop
    <3>2. toSrv' \in Seq(Request)
      BY <2>3, <3>1, SeqType DEF TypeOK, LinkTypeOK
    <3>3. LinkTypeOK'
      BY <2>1, <2>4, <3>1, <3>2 DEF TypeOK, LinkTypeOK
    <3> QED
      BY <1>6, <3>1, <3>3, NotifyType, Frames, Zenon DEF OnStatusChanged, TypeOK
  <2>6. CASE ~client
    <3>1. LinkTypeOK'
      BY <1>6, <2>4, <2>6, ListenerEndsType, Zenon DEF OnStatusChanged, TypeOK
    <3> QED
      BY <1>6, <2>6, <3>1, Frames, Zenon DEF OnStatusChanged, TypeOK
  <2> QED
    BY <2>5, <2>6
<1>7. CASE OnStatusCleared
  <2> DEFINE m == Head(fromSrv)
  <2>1. m.spk \in Spk /\ m.hist \in History /\ Tail(fromSrv) \in Seq(Message)
    <3>1. Receives("status")
      BY <1>7, Zenon DEF OnStatusCleared
    <3> QED
      BY <3>1, HeadType DEF TypeOK
  <2>2. HandleHistory(m.spk, m.hist)
    BY <1>7, Zenon DEF OnStatusCleared
  <2>3. status' \in [Spk -> History]
    BY <1>7, <2>1, Zenon DEF OnStatusCleared, TypeOK, LinkTypeOK
  <2>4. LinkTypeOK'
    BY <1>7, <2>1, <2>3, Zenon DEF OnStatusCleared, Pop, TypeOK, LinkTypeOK
  <2>5. pending' \subseteq ClaimAt /\ disk' = tx'
    BY <1>7, Zenon DEF OnStatusCleared, FoldPending, Generate, TypeOK, CoinTypeOK
  <2>6. CoinTypeOK'
    BY <2>1, <2>2, <2>5, HandleHistoryType, Zenon DEF TypeOK, CoinTypeOK
  <2> QED
    BY <1>7, <2>4, <2>6, NotifyType, Frames, Zenon DEF OnStatusCleared, TypeOK
<1>8. CASE OnHistory
  <2> DEFINE m == Head(fromSrv)
             prev == hist[m.spk]
             missing == UpdateFor(FoldTxs(tx, prev, m.hist), prev, m.hist).missing
             folded == FoldPending(pending, prev, m.hist)
  <2>1. m.spk \in Spk /\ m.hist \in History /\ Tail(fromSrv) \in Seq(Message)
    BY <1>8, HeadType, Zenon DEF OnHistory, TypeOK
  <2>2. HandleHistory(m.spk, m.hist)
    BY <1>8, Zenon DEF OnHistory
  <2>3. missing \subseteq Txid
    BY <2>1, <2>2, HandleHistoryType, Zenon DEF TypeOK, Update
  <2>4. folded \subseteq ClaimAt
    BY DEF FoldPending, TypeOK, CoinTypeOK
  <2>5. RecordReportedHeights(folded, tx', Reported(m.hist)) \subseteq ClaimAt
    BY <2>1, <2>4, ReportedType, Zenon DEF RecordReportedHeights, PrunePending
  <2>6. [kind |-> "txs", ids |-> missing] \in Request
    BY <2>3 DEF Request
  <2>7. CASE missing # {} /\ ~client
    <3>1. ListenerEnds /\ pending' = folded /\ UNCHANGED <<view, disk, reconVars>>
      BY <1>8, <2>7, Zenon DEF OnHistory
    <3>2. LinkTypeOK'
      BY <1>8, <3>1, ListenerEndsType, Zenon DEF OnHistory, TypeOK, LinkTypeOK, statusVars
    <3>3. CoinTypeOK'
      BY <2>1, <2>2, <2>4, <3>1, HandleHistoryType, Zenon DEF TypeOK, CoinTypeOK
    <3> QED
      BY <1>8, <3>1, <3>2, <3>3, Frames, Zenon DEF OnHistory, TypeOK
  <2>8. CASE ~(missing # {} /\ ~client)
    <3>1. /\ toSrv' = IF missing = {} THEN toSrv
                      ELSE Append(toSrv, [kind |-> "txs", ids |-> missing])
          /\ pending' = RecordReportedHeights(folded, tx', Reported(m.hist))
          /\ disk' = tx' \/ disk' = disk
          /\ fromSrv' = Tail(fromSrv) /\ NotifyScan
          /\ UNCHANGED <<listener, client, seen>>
      BY <1>8, <2>8, Zenon DEF OnHistory, Generate, Pop
    <3>2. CoinTypeOK'
      BY <2>1, <2>2, <2>5, <3>1, HandleHistoryType, Zenon DEF TypeOK, CoinTypeOK
    <3>3. toSrv' \in Seq(Request)
      <4> HIDE DEF missing
      <4>1. toSrv \in Seq(Request)
        BY DEF TypeOK, LinkTypeOK
      <4> QED
        BY <2>6, <3>1, <4>1, SeqType, Zenon
    <3>4. LinkTypeOK'
      BY <1>8, <2>1, <3>1, <3>3, Zenon DEF OnHistory, TypeOK, LinkTypeOK, statusVars
    <3> QED
      BY <1>8, <3>1, <3>2, <3>4, NotifyType, Frames, Zenon DEF OnHistory, TypeOK
  <2> QED
    BY <2>7, <2>8, Zenon
<1>9. CASE OnTxs
  <2>1. LinkTypeOK'
    BY <1>9, HeadType, Zenon DEF OnTxs, Pop, TypeOK, LinkTypeOK, statusVars
  <2>2. updates' \subseteq Update
    BY <1>9 DEF OnTxs, TypeOK, CoinTypeOK, FillUpdates, IncompleteUpdates, Update
  <2>3. CoinTypeOK'
    BY <1>9, <2>2, InsertType, Zenon DEF OnTxs, Generate, TypeOK, CoinTypeOK
  <2> QED
    BY <1>9, <2>1, <2>3, NotifyType, Frames, Zenon DEF OnTxs, TypeOK
<1>10. ASSUME NEW t \in Txid, RecordBroadcast(t) PROVE TypeOK'
  <2>1. CoinTypeOK'
    BY <1>10, InsertType, Zenon DEF RecordBroadcast, Generate, TypeOK, CoinTypeOK
  <2> QED
    BY <1>10, <2>1, Frames, SpendType, BoundNames, Zenon DEF RecordBroadcast, TypeOK
<1> QED
  BY <1>1, <1>2, <1>3, <1>4, <1>5, <1>6, <1>7, <1>8, <1>9, <1>10 DEF ListenerSteps

\* Every step of the reconciler keeps the types.
LEMMA ReconcilerTyping ==
  ASSUME TypeOK, ReconcilerSteps
  PROVE  TypeOK'
<1>0. Headers \in HeaderView
  BY HeadersType
<1>1. CASE ReconcilerStarts
  <2>1. ReconTypeOK'
    BY <1>1, RequeueType DEF ReconcilerStarts, TypeOK, CoinTypeOK, ReconTypeOK, Steps
  <2> QED
    BY <1>1, <2>1, Frames DEF ReconcilerStarts, Outside, TypeOK
<1>2. CASE ReconcilerTicks
  <2>1. ReconTypeOK'
    BY <1>2, Zenon DEF ReconcilerTicks, TypeOK, ReconTypeOK, Steps
  <2> QED
    BY <1>2, <2>1, Frames DEF ReconcilerTicks, Outside, TypeOK
<1>3. CASE ReverifyReminedEntries
  <2>1. tx' \in [Txid -> TxEntry] /\ toFetch' \subseteq ClaimAt
    BY <1>0, <1>3, ReverifyTypes DEF ReverifyReminedEntries, TypeOK, CoinTypeOK
  <2>2. CoinTypeOK'
    BY <1>3, <2>1 DEF ReverifyReminedEntries, TypeOK, CoinTypeOK
  <2>3. ReconTypeOK'
    BY <1>3, <2>1 DEF ReverifyReminedEntries, TypeOK, ReconTypeOK, Steps
  <2> QED
    BY <1>3, <2>2, <2>3, Frames DEF ReverifyReminedEntries, Outside, TypeOK
<1>4. CASE ResolvePendingClaims
  <2> DEFINE promoted == Promotable(tx, pending, Headers)
  <2>1. promoted \subseteq ClaimAt /\ ResolveTxs(tx, promoted, Headers) \in [Txid -> TxEntry]
    BY <1>0, ResolveTypes DEF TypeOK, CoinTypeOK
  <2>2. /\ tx' = ResolveTxs(tx, promoted, Headers) /\ (disk' = tx' \/ disk' = disk)
        /\ inFlight' = inFlight \cup promoted /\ toFetch' = toFetch \cup promoted
        /\ pending' = ResolvePending(tx, pending, updates, promoted)
    BY <1>4, Zenon DEF ResolvePendingClaims, Generate
  <2>3. pending' \subseteq ClaimAt
    BY <2>2 DEF ResolvePending, TypeOK, CoinTypeOK
  <2> HIDE DEF promoted
  <2>4. CoinTypeOK'
    BY <1>4, <2>1, <2>2, <2>3, Zenon DEF ResolvePendingClaims, TypeOK, CoinTypeOK
  <2>5. ReconTypeOK'
    BY <1>4, <2>1, <2>2, Zenon DEF ResolvePendingClaims, TypeOK, ReconTypeOK, Steps
  <2>6. HeaderTypeOK'
    <3>1. {c.height : c \in pending'} \subseteq Height
      BY <2>3 DEF ClaimAt
    <3>2. Wanted({c.height : c \in pending'}) \in Option(Height)
      <4> DEFINE heights == {c.height : c \in pending'}
                 low == {h \in heights : loc > 0 /\ h < floor} \cup wanted
                 least == {h \in low : \A g \in low : h <= g}
      <4>1. low \subseteq Height /\ Height \subseteq Int
        BY <3>1 DEF TypeOK, HeaderTypeOK, Option, Height
      <4> HIDE DEF low
      <4>2. \A g, h \in least : g = h
        BY <4>1
      <4>3. least \subseteq Height
        BY <4>1, Zenon
      <4> HIDE DEF least
      <4>4. least \in Option(Height)
        <5>1. CASE least = {}
          BY <5>1 DEF Option
        <5>2. CASE least # {}
          <6>1. PICK h \in least : TRUE
            BY <5>2
          <6>2. least = {h} /\ h \in Height
            BY <4>2, <4>3, <6>1, SMTT(30)
          <6> QED
            BY <6>2 DEF Option
        <5> QED
          BY <5>1, <5>2
      <4> QED
        BY <4>4 DEF least, low, Wanted
    <3> QED
      BY <1>4, <3>2, Zenon DEF ResolvePendingClaims, Outside, serverVars, TypeOK, HeaderTypeOK
  <2> QED
    BY <1>4, <2>4, <2>5, <2>6, Frames, Zenon DEF ResolvePendingClaims, Outside, TypeOK
<1>5. ASSUME NEW c \in ClaimAt, FetchMerkle(c) PROVE TypeOK'
  <2>1. MerkleTypeOK'
    BY <1>5 DEF FetchMerkle, TypeOK, MerkleTypeOK
  <2>2. [claim |-> c, block |-> NoBlock] \in Outcome
    BY DEF Outcome, BlockOrNone
  <2>3. outcomes' = outcomes \/ outcomes' = Append(outcomes, [claim |-> c, block |-> NoBlock])
    BY <1>5 DEF FetchMerkle
  <2>4. outcomes' \in Seq(Outcome)
    BY <2>2, <2>3, SeqType DEF TypeOK, ReconTypeOK
  <2>5. pc' \in {"fetch", "idle", "stamp"}
    BY <1>5 DEF FetchMerkle
  <2>6. ReconTypeOK'
    BY <1>5, <2>4, <2>5 DEF FetchMerkle, TypeOK, ReconTypeOK, Steps
  <2> QED
    BY <1>5, <2>1, <2>6, Frames DEF FetchMerkle, Outside, TypeOK
<1>6. CASE TakeOutcome
  <2> DEFINE o == Head(outcomes)
             hash == Headers[o.claim.height]
  <2>1. o.claim \in ClaimAt /\ o.claim.height \in Height /\ o.block \in BlockOrNone
        /\ Tail(outcomes) \in Seq(Outcome)
    <3>1. o \in Outcome /\ Tail(outcomes) \in Seq(Outcome)
      BY <1>6 DEF TakeOutcome, TypeOK, ReconTypeOK
    <3> QED
      BY <3>1 DEF Outcome, ClaimAt
  <2>2. hash \in BlockOrNone
    BY <1>0, <2>1 DEF HeaderView
  <2>3. \/ pc' = "idle" /\ job' = job
        \/ hash # NoBlock /\ pc' = "check"
             /\ job' = [claim |-> o.claim, block |-> o.block, hash |-> hash]
        \/ pc' = "retry" /\ job' = [claim |-> o.claim, block |-> NoBlock, hash |-> NoBlock]
    BY <1>6 DEF TakeOutcome
  <2>4. inFlight' = inFlight \ {o.claim} /\ outcomes' = Tail(outcomes)
    BY <1>6 DEF TakeOutcome
  <2> HIDE DEF o, hash
  <2>5. pc' \in Steps /\ job' \in Job /\ (pc' \in {"check", "apply"} => job'.hash \in Block)
    BY <2>1, <2>2, <2>3 DEF TypeOK, ReconTypeOK, Steps, Job, BlockOrNone
  <2>6. ReconTypeOK'
    BY <1>6, <2>1, <2>4, <2>5 DEF TakeOutcome, TypeOK, ReconTypeOK
  <2>7. CoinTypeOK'
    BY <1>6, <2>4 DEF TakeOutcome, TypeOK, CoinTypeOK
  <2> QED
    BY <1>6, <2>6, <2>7, Frames DEF TakeOutcome, Outside, TypeOK
<1>7. CASE ResolveMerkleTarget
  <2>1. ReconTypeOK'
    BY <1>7, Zenon DEF ResolveMerkleTarget, TypeOK, ReconTypeOK, Steps
  <2> QED
    BY <1>7, <2>1, Frames, Zenon DEF ResolveMerkleTarget, Outside, TypeOK
<1>8. CASE ApplyTxMerkle
  <2>1. job.claim.txid \in Txid /\ job.claim.height \in Height /\ job.hash \in Block
    BY <1>8 DEF ApplyTxMerkle, TypeOK, ReconTypeOK, Job, ClaimAt
  <2>2. tx' \in [Txid -> TxEntry]
    BY <1>8, <2>1, InclusionType, Zenon DEF ApplyTxMerkle, InBlock, TypeOK, CoinTypeOK
  <2>3. CoinTypeOK'
    BY <1>8, <2>2, Zenon DEF ApplyTxMerkle, Generate, TypeOK, CoinTypeOK
  <2>4. ReconTypeOK'
    BY <1>8, NoJobType, Zenon DEF ApplyTxMerkle, TypeOK, ReconTypeOK, Steps
  <2> QED
    BY <1>8, <2>3, <2>4, Frames, Zenon DEF ApplyTxMerkle, Outside, TypeOK
<1>9. CASE ReadClaimedHash
  <2>1. StillClaimed => [job EXCEPT !.hash = ClaimedEntry.hash] \in Job
    <3>1. job.claim.txid \in Txid
      BY DEF TypeOK, ReconTypeOK, Job, ClaimAt
    <3>2. StillClaimed => ClaimedEntry.hash \in BlockOrNone
      BY <3>1, ClaimOfType DEF StillClaimed, ClaimedEntry, TypeOK, CoinTypeOK, HasBlock,
           InBlock, BlockOrNone
    <3> QED
      BY <3>2 DEF TypeOK, ReconTypeOK, Job
  <2>2. ReconTypeOK'
    BY <1>9, <2>1, NoJobType DEF ReadClaimedHash, TypeOK, ReconTypeOK, Steps
  <2> QED
    BY <1>9, <2>2, Frames DEF ReadClaimedHash, Outside, TypeOK
<1>10. CASE RetryReorgedClaim
  <2>1. ReconTypeOK'
    BY <1>10, NoJobType, Zenon DEF RetryReorgedClaim, TypeOK, ReconTypeOK, Steps
  <2> QED
    BY <1>10, <2>1, Frames, Zenon DEF RetryReorgedClaim, Outside, TypeOK
<1>11. CASE OutcomesDrained
  <2>1. ReconTypeOK'
    BY <1>11 DEF OutcomesDrained, TypeOK, ReconTypeOK, Steps
  <2> QED
    BY <1>11, <2>1, Frames DEF OutcomesDrained, Outside, TypeOK
<1>12. CASE StampConfirmationTimes
  <2>1. tx' \in [Txid -> TxEntry]
    BY <1>0, <1>12, StampType DEF StampConfirmationTimes, TypeOK, CoinTypeOK
  <2>2. CoinTypeOK'
    BY <1>12, <2>1 DEF StampConfirmationTimes, TypeOK, CoinTypeOK
  <2>3. ReconTypeOK'
    BY <1>12, Zenon DEF StampConfirmationTimes, TypeOK, ReconTypeOK, Steps
  <2> QED
    BY <1>12, <2>2, <2>3, Frames DEF StampConfirmationTimes, Outside, TypeOK
<1> QED
  BY <1>1, <1>2, <1>3, <1>4, <1>5, <1>6, <1>7, <1>8, <1>9, <1>10, <1>11, <1>12
     DEF ReconcilerSteps

\* Reopening the wallet from what is on disk keeps the types.
LEMMA CrashTyping ==
  ASSUME TypeOK, Crash
  PROVE  TypeOK'
<1>1. <<>> \in Seq(Request) /\ <<>> \in Seq(Message) /\ <<>> \in Seq(Outcome)
  OBVIOUS
<1>2. HeaderTypeOK'
  BY Zenon DEF Crash, serverVars, TypeOK, HeaderTypeOK, Option
<1>3. MerkleTypeOK'
  BY DEF Crash, TypeOK, MerkleTypeOK
<1>4. CoinTypeOK'
  BY NoHistoryType DEF Crash, TypeOK, CoinTypeOK
<1>5. LinkTypeOK'
  BY <1>1, NoHistoryType, Zenon DEF Crash, TypeOK, LinkTypeOK, Option
<1>6. ReconTypeOK'
  BY <1>1, NoJobType, Zenon DEF Crash, TypeOK, ReconTypeOK, Steps
<1> QED
  BY <1>2, <1>3, <1>4, <1>5, <1>6, Frames, SpendType, BoundNames, Zenon DEF Crash, TypeOK

\* Every step of the system keeps the types.
LEMMA StepTyping == TypeOK /\ [Next]_vars => TypeOK'
<1> SUFFICES ASSUME TypeOK, [Next]_vars PROVE TypeOK'
  OBVIOUS
<1>1. CASE UNCHANGED vars
  BY <1>1, Frames DEF vars, TypeOK
<1>2. CASE Disturbances
  BY <1>2, ServerTyping, MerkleTyping, ListenerTyping, CrashTyping DEF Disturbances
<1> QED
  BY <1>1, <1>2, ServerTyping, HeaderTyping, MerkleTyping, ListenerTyping, ReconcilerTyping
     DEF Next

\* Every variable keeps its type for every instance: no thread, interleaving,
\* lost connection or restart leaves a store, queue or channel malformed.
THEOREM TypeCorrect == Spec => []TypeOK
BY InitTyping, StepTyping, PTL DEF Spec

-----------------------------------------------------------------------------
(* One pending claim per transaction.                                        *)

\* Only a history adds claims; everything else removes some.
LEMMA ClaimsStep == TypeOK /\ AtMostOneClaim /\ [Next]_vars => AtMostOneClaim'
<1> SUFFICES ASSUME TypeOK, AtMostOneClaim, [Next]_vars PROVE AtMostOneClaim'
  OBVIOUS
<1>1. CASE pending' \subseteq pending
  BY <1>1 DEF AtMostOneClaim
<1>2. CASE UNCHANGED pending
  BY <1>2 DEF AtMostOneClaim
<1>3. CASE OnHistory
  <2> DEFINE m == Head(fromSrv)
             folded == FoldPending(pending, hist[m.spk], m.hist)
  <2>1. folded \subseteq pending
    BY DEF FoldPending
  <2>2. \/ pending' = folded
        \/ pending' = RecordReportedHeights(folded, tx', Reported(m.hist))
    BY <1>3, Zenon DEF OnHistory
  <2>3. \A c \in folded : c = [txid |-> c.txid, height |-> c.height]
    BY <2>1 DEF TypeOK, CoinTypeOK, ClaimAt
  <2>4. \A c, d \in folded : c.txid = d.txid => c = d
    BY <2>1, Zenon DEF AtMostOneClaim
  <2> HIDE DEF m, folded
  <2> QED
    BY <2>2, <2>3, <2>4, RecordKeepsOneClaim DEF AtMostOneClaim
<1>4. CASE OnStatusCleared
  <2>1. pending' \subseteq pending
    BY <1>4, Zenon DEF OnStatusCleared, FoldPending
  <2> QED
    BY <1>1, <2>1
<1>5. CASE ResolvePendingClaims
  <2>1. pending' \subseteq pending
    BY <1>5 DEF ResolvePendingClaims, ResolvePending
  <2> QED
    BY <1>1, <2>1
<1>6. CASE Crash
  BY <1>6 DEF Crash, AtMostOneClaim
<1>7. CASE ServerReplies \/ HeaderStoreSteps \/ MerkleSteps
  BY <1>2, <1>7, Zenon DEF ServerReplies, ServerPushes, ServerAnswersHistory, ServerAnswersTxs,
       HeaderStoreSteps, HeaderStoreValidated, HeaderStoreAdvances, HeaderStoreExtendsDown,
       MerkleSteps, MerkleAnswers, FailPending, MerkleClientGone, MerkleReconnects, coinVars
<1>8. CASE ListenerSteps
  BY <1>2, <1>3, <1>4, <1>8, Zenon DEF ListenerSteps, ListenerStarts, ListenerDisconnects,
       OnStatusUnchanged, OnStatusChanged, OnTxs, coinVars
<1>9. CASE ReconcilerSteps
  BY <1>2, <1>5, <1>9, Zenon DEF ReconcilerSteps, ReconcilerStarts, ReconcilerTicks,
       ReverifyReminedEntries, FetchMerkle, TakeOutcome, ResolveMerkleTarget, ApplyTxMerkle,
       ReadClaimedHash, RetryReorgedClaim, OutcomesDrained, StampConfirmationTimes, coinVars
<1>10. CASE Disturbances
  BY <1>2, <1>6, <1>10, Zenon DEF Disturbances, ServerMines, ServerPoolChanges,
       ServerFailsHistory,
       ClientDies, ListenerStops, MerkleClientEnds, RecordBroadcast, coinVars
<1>11. CASE UNCHANGED vars
  BY <1>2, <1>11 DEF vars, coinVars
<1> QED
  BY <1>7, <1>8, <1>9, <1>10, <1>11 DEF Next

\* record_reported_heights keeps at most one pending claim per transaction, in
\* every interleaving of histories, chain updates and restarts.
THEOREM OneClaim == Spec => []AtMostOneClaim
<1>1. Init => AtMostOneClaim
  BY DEF Init, AtMostOneClaim
<1> QED
  BY <1>1, ClaimsStep, TypeCorrect, PTL DEF Spec

-----------------------------------------------------------------------------
(* What is verified was mined.                                               *)

\* Every entry of `new` whose proof was checked is one of `old`, in the same block.
Checked == {"verified", "failed"}

Kept(new, old) ==
  \A t \in Txid : new[t].inc \in Checked =>
    /\ old[t].inc = new[t].inc
    /\ new[t].height = old[t].height /\ new[t].hash = old[t].hash

\* The passes of coin_store.rs make no entry verified or failed.
LEMMA OperatorsKeep ==
  ASSUME NEW store \in [Txid -> TxEntry], NEW hdr, NEW prev, NEW new, NEW claims, NEW txids
  PROVE  /\ Kept(store, store)
         /\ Kept(FoldTxs(store, prev, new), store)
         /\ Kept(InsertUpdates(store, txids), store)
         /\ Kept(ReverifyTxs(store, claims, hdr), store)
         /\ Kept(ResolveTxs(store, claims, hdr), store)
         /\ Kept(StampTxs(store, hdr), store)
<1>1. \A e \in TxEntry : \A h, b : UpdateInclusion(e, "unverified", h, b).inc \notin Checked
  <2> SUFFICES ASSUME NEW e \in TxEntry, NEW h, NEW b
               PROVE  UpdateInclusion(e, "unverified", h, b).inc \notin Checked
    OBVIOUS
  <2>1. e = [inc |-> e.inc, height |-> e.height, hash |-> e.hash, time |-> e.time]
    BY EntryShape
  <2> QED
    BY <2>1 DEF UpdateInclusion, Checked
<1>2. Kept(store, store)
  BY DEF Kept
<1>3. Kept(FoldTxs(store, prev, new), store)
  BY DEF Kept, Checked, FoldTxs, Demote, Absent, Unconfirmed
<1>4. Kept(InsertUpdates(store, txids), store)
  BY DEF Kept, Checked, InsertUpdates, Unconfirmed
<1>5. Kept(ReverifyTxs(store, claims, hdr), store)
  BY <1>1, Zenon DEF Kept, ReverifyTxs
<1>6. Kept(ResolveTxs(store, claims, hdr), store)
  BY <1>1, Zenon DEF Kept, ResolveTxs
<1>7. Kept(StampTxs(store, hdr), store)
  BY StampShape DEF Kept, StampTxs
<1> QED
  BY <1>2, <1>3, <1>4, <1>5, <1>6, <1>7

\* What is on the chains the validated chain has been stays there: the content
\* of a block never changes and `loc` never goes back.
LEMMA ChainGrows ==
  ASSUME TypeOK, [Next]_vars
  PROVE  content' = content /\ loc <= loc'
<1>1. CASE UNCHANGED <<content, loc>>
  BY <1>1 DEF TypeOK, HeaderTypeOK, ServerTypeOK
<1>2. CASE ServerReplies \/ MerkleSteps
  BY <1>1, <1>2, Zenon DEF ServerReplies, ServerPushes, ServerAnswersHistory, ServerAnswersTxs,
       MerkleSteps, MerkleAnswers, FailPending, MerkleClientGone, MerkleReconnects,
       serverVars, headerVars
<1>3. CASE HeaderStoreAdvances
  BY <1>3 DEF HeaderStoreAdvances, serverVars, TypeOK, HeaderTypeOK, ServerTypeOK
<1>4. CASE HeaderStoreSteps
  BY <1>1, <1>3, <1>4 DEF HeaderStoreSteps, HeaderStoreValidated, HeaderStoreExtendsDown,
       serverVars
<1>5. CASE ListenerSteps
  BY <1>1, <1>5, Zenon DEF ListenerSteps, ListenerStarts, ListenerDisconnects,
       OnStatusUnchanged,
       OnStatusChanged, OnStatusCleared, OnHistory, OnTxs, serverVars, headerVars
<1>6. CASE ReconcilerSteps
  BY <1>1, <1>6, Zenon DEF ReconcilerSteps, ReconcilerStarts, ReconcilerTicks,
       ReverifyReminedEntries,
       ResolvePendingClaims, FetchMerkle, TakeOutcome, ResolveMerkleTarget, ApplyTxMerkle,
       ReadClaimedHash, RetryReorgedClaim, OutcomesDrained, StampConfirmationTimes,
       Outside, serverVars, headerVars
<1>7. CASE Disturbances
  BY <1>1, <1>7, Zenon DEF Disturbances, ServerMines, ServerPoolChanges, ServerFailsHistory,
       ClientDies,
       ListenerStops, MerkleClientEnds, RecordBroadcast, Crash, serverVars, headerVars
<1>8. CASE UNCHANGED vars
  BY <1>1, <1>8 DEF vars, serverVars, headerVars
<1> QED
  BY <1>2, <1>4, <1>5, <1>6, <1>7, <1>8 DEF Next

\* A block the validated chain has held at a height stays one it has held.
LEMMA OnChainStays ==
  ASSUME TypeOK, TypeOK', [Next]_vars, NEW h, NEW b, OnChain(h, b)
  PROVE  OnChain(h, b)'
<1>1. loc <= loc' /\ loc \in Nat /\ loc' \in Nat
  BY ChainGrows DEF TypeOK, HeaderTypeOK, ServerTypeOK
<1> QED
  BY <1>1 DEF OnChain

\* Only apply_tx_merkle makes an entry verified or failed; a restart takes the
\* persisted entries back, and what is persisted is the store itself.
LEMMA StoreStep ==
  ASSUME TypeOK, [Next]_vars
  PROVE  /\ ApplyTxMerkle \/ Kept(tx', tx) \/ (Crash /\ tx' = disk)
         /\ disk' = disk \/ disk' = tx'
<1>0. tx \in [Txid -> TxEntry] /\ disk \in [Txid -> TxEntry]
  BY DEF TypeOK, CoinTypeOK
<1>1. CASE UNCHANGED <<tx, disk>>
  BY <1>0, <1>1, OperatorsKeep
<1>2. CASE ServerReplies \/ HeaderStoreSteps \/ MerkleSteps
  BY <1>1, <1>2, Zenon DEF ServerReplies, ServerPushes, ServerAnswersHistory, ServerAnswersTxs,
       HeaderStoreSteps, HeaderStoreValidated, HeaderStoreAdvances, HeaderStoreExtendsDown,
       MerkleSteps, MerkleAnswers, FailPending, MerkleClientGone, MerkleReconnects, coinVars
<1>3. CASE OnStatusCleared \/ OnHistory
  <2>1. \E prev, new : tx' = FoldTxs(tx, prev, new)
    BY <1>3, Zenon DEF OnStatusCleared, OnHistory, HandleHistory
  <2>2. disk' = disk \/ disk' = tx'
    BY <1>3, Zenon DEF OnStatusCleared, OnHistory, Generate
  <2> QED
    BY <1>0, <2>1, <2>2, OperatorsKeep
<1>4. CASE OnTxs
  BY <1>0, <1>4, OperatorsKeep, Zenon DEF OnTxs, Generate
<1>5. CASE ListenerSteps
  BY <1>1, <1>3, <1>4, <1>5, Zenon DEF ListenerSteps, ListenerStarts, ListenerDisconnects,
       OnStatusUnchanged, OnStatusChanged, coinVars
<1>6. CASE ReverifyReminedEntries \/ ResolvePendingClaims \/ StampConfirmationTimes
  BY <1>0, <1>6, OperatorsKeep, Zenon
     DEF ReverifyReminedEntries, ResolvePendingClaims, StampConfirmationTimes, Generate
<1>7. CASE ReconcilerSteps
  BY <1>1, <1>6, <1>7, Zenon DEF ReconcilerSteps, ReconcilerStarts, ReconcilerTicks,
       FetchMerkle,
       TakeOutcome, ResolveMerkleTarget, ApplyTxMerkle, Generate, ReadClaimedHash,
       RetryReorgedClaim, OutcomesDrained, coinVars
<1>8. CASE Disturbances
  <2>1. ASSUME NEW t \in Txid, RecordBroadcast(t)
        PROVE  Kept(tx', tx) /\ disk' = tx'
    BY <1>0, <2>1, OperatorsKeep, Zenon DEF RecordBroadcast, Generate
  <2>2. CASE Crash
    BY <2>2 DEF Crash
  <2> QED
    BY <1>1, <1>8, <2>1, <2>2, Zenon DEF Disturbances, ServerMines, ServerPoolChanges,
       ServerFailsHistory, ClientDies, ListenerStops, MerkleClientEnds, coinVars
<1>9. CASE UNCHANGED vars
  BY <1>1, <1>9 DEF vars, coinVars
<1> QED
  BY <1>2, <1>5, <1>7, <1>8, <1>9 DEF Next

\* Every step keeps what is verified mined, given that proofs are genuine.
LEMMA VerifiedStep ==
  ASSUME TypeOK, TypeOK', VerifiedIsMined, ProofsAreGenuine, [Next]_vars
  PROVE  VerifiedIsMined'
<1>1. \A h, b : OnChain(h, b) => OnChain(h, b)'
  BY OnChainStays
<1>2. content' = content
  BY ChainGrows
<1>3. VerifiedIn(tx)'
  <2>1. CASE Kept(tx', tx)
    BY <1>1, <1>2, <2>1, Zenon DEF Kept, Checked, VerifiedIsMined, VerifiedIn
  <2>2. CASE tx' = disk
    BY <1>1, <1>2, <2>2, Zenon DEF VerifiedIsMined, VerifiedIn
  <2>3. CASE ApplyTxMerkle
    <3>1. job.claim.txid \in Txid /\ job.hash \in Block
          /\ job.claim.txid \in content[job.block] /\ OnChain(job.claim.height, job.hash)
      BY <2>3, Zenon DEF ApplyTxMerkle, ProofsAreGenuine, TypeOK, ReconTypeOK, Job, ClaimAt
    <3> DEFINE u == job.claim.txid
               inc == IF job.block = job.hash THEN "verified" ELSE "failed"
    <3>2. tx' = [tx EXCEPT ![u] = UpdateInclusion(tx[u], inc, job.claim.height, job.hash)]
      BY <2>3, Zenon DEF ApplyTxMerkle
    <3>3. tx[u] = [inc |-> tx[u].inc, height |-> tx[u].height, hash |-> tx[u].hash,
                   time |-> tx[u].time]
      <4>1. tx[u] \in TxEntry
        BY <3>1, Zenon DEF TypeOK, CoinTypeOK
      <4> QED
        BY <4>1, EntryShape
    <3>4. tx'[u].inc = "verified" =>
            u \in content[tx'[u].hash] /\ OnChain(tx'[u].height, tx'[u].hash)
      <4>1. tx'[u] = UpdateInclusion(tx[u], inc, job.claim.height, job.hash)
        BY <3>1, <3>2, Zenon DEF TypeOK, CoinTypeOK
      <4>2. CASE tx[u].inc = "absent"
        BY <4>1, <4>2 DEF UpdateInclusion
      <4>3. CASE tx[u].inc # "absent"
        <5>1. tx'[u].inc = inc /\ tx'[u].height = job.claim.height /\ tx'[u].hash = job.hash
          BY <3>3, <4>1, <4>3 DEF UpdateInclusion
        <5> QED
          BY <3>1, <5>1, Zenon
      <4> QED
        BY <4>2, <4>3, Zenon
    <3>5. \A t \in Txid \ {u} : tx'[t] = tx[t]
      BY <3>2, Zenon DEF TypeOK, CoinTypeOK
    <3> QED
      BY <1>1, <1>2, <3>1, <3>4, <3>5, Zenon DEF VerifiedIsMined, VerifiedIn
  <2> QED
    BY <2>1, <2>2, <2>3, StoreStep
<1>4. VerifiedIn(disk)'
  <2>1. CASE disk' = disk
    BY <1>1, <1>2, <2>1, Zenon DEF VerifiedIsMined, VerifiedIn
  <2>2. CASE disk' = tx'
    BY <1>3, <2>2 DEF VerifiedIn
  <2> QED
    BY <2>1, <2>2, StoreStep
<1> QED
  BY <1>3, <1>4 DEF VerifiedIsMined

\* The sequence of outcomes grows at its end and is read from its front.
LEMMA OutcomeAppend ==
  ASSUME NEW q \in Seq(Outcome), NEW o \in Outcome, NEW i \in 1..Len(Append(q, o))
  PROVE  (i \in 1..Len(q) /\ Append(q, o)[i] = q[i]) \/ Append(q, o)[i] = o
OBVIOUS

\* The outcome the reconciler takes is the first of the queue.
LEMMA OutcomeHead ==
  ASSUME NEW q \in Seq(Outcome), q # <<>>
  PROVE  1 \in 1..Len(q) /\ Head(q) = q[1] /\ q[1] \in Outcome
OBVIOUS

\* What is left of the queue are the outcomes behind it.
LEMMA OutcomeTail ==
  ASSUME NEW q \in Seq(Outcome), q # <<>>, NEW i \in 1..Len(Tail(q))
  PROVE  i + 1 \in 1..Len(q) /\ Tail(q)[i] = q[i + 1]
OBVIOUS

\* Every step keeps the proofs on their way genuine.
LEMMA GenuineStep ==
  ASSUME TypeOK, TypeOK', ProofsAreGenuine, [Next]_vars
  PROVE  ProofsAreGenuine'
<1>1. \A h, b : OnChain(h, b) => OnChain(h, b)'
  BY OnChainStays
<1>2. content' = content
  BY ChainGrows
<1>3. outcomes \in Seq(Outcome)
  BY DEF TypeOK, ReconTypeOK
<1>4. CASE UNCHANGED outcomes /\ (UNCHANGED <<pc, job>> \/ pc' \notin {"check", "apply"})
  BY <1>1, <1>2, <1>4, Zenon DEF ProofsAreGenuine
<1>5. ASSUME NEW o \in Outcome, outcomes' = Append(outcomes, o),
             o.block # NoBlock => o.claim.txid \in content[o.block],
             UNCHANGED <<pc, job>> \/ pc' \notin {"check", "apply"}
      PROVE  ProofsAreGenuine'
  <2>1. \A i \in 1..Len(outcomes') : outcomes'[i].block # NoBlock =>
           outcomes'[i].claim.txid \in content'[outcomes'[i].block]
    <3> SUFFICES ASSUME NEW i \in 1..Len(outcomes'), outcomes'[i].block # NoBlock
                 PROVE  outcomes'[i].claim.txid \in content[outcomes'[i].block]
      BY <1>2, Zenon
    <3>1. (i \in 1..Len(outcomes) /\ outcomes'[i] = outcomes[i]) \/ outcomes'[i] = o
      BY <1>3, <1>5, OutcomeAppend, SMTT(30)
    <3> QED
      BY <1>5, <3>1, Zenon DEF ProofsAreGenuine
  <2> QED
    BY <1>1, <1>2, <1>5, <2>1, Zenon DEF ProofsAreGenuine
<1>6. ASSUME NEW c \in ClaimAt, MerkleAnswers(c) PROVE ProofsAreGenuine'
  <2> DEFINE block == IF MinedAt(srv, c.txid, c.height) THEN Chains[srv][c.height] ELSE NoBlock
  <2>1. outcomes' = Append(outcomes, [claim |-> c, block |-> block]) /\ UNCHANGED <<pc, job>>
    BY <1>6 DEF MerkleAnswers
  <2>2. block \in BlockOrNone
    BY MinedBlock DEF BlockOrNone
  <2>3. block # NoBlock => c.txid \in content[block]
    BY Zenon DEF MinedAt
  <2> HIDE DEF block
  <2>4. [claim |-> c, block |-> block] \in Outcome
    BY <2>2 DEF Outcome
  <2> QED
    BY <1>5, <2>1, <2>3, <2>4
<1>7. ASSUME NEW c \in ClaimAt, FailPending(c) \/ FetchMerkle(c) PROVE ProofsAreGenuine'
  <2>1. [claim |-> c, block |-> NoBlock] \in Outcome
    BY DEF Outcome, BlockOrNone
  <2>2. outcomes' = outcomes \/ outcomes' = Append(outcomes, [claim |-> c, block |-> NoBlock])
    BY <1>7, SMTT(30) DEF FailPending, FetchMerkle
  <2>3. UNCHANGED <<pc, job>> \/ pc' \notin {"check", "apply"}
    BY <1>7 DEF FailPending, FetchMerkle
  <2> QED
    BY <1>4, <1>5, <2>1, <2>2, <2>3, Zenon
<1>8. CASE TakeOutcome
  <2> DEFINE o == Head(outcomes)
             hash == Headers[o.claim.height]
  <2>1. outcomes # <<>> /\ outcomes' = Tail(outcomes)
    BY <1>8 DEF TakeOutcome
  <2>2. o \in Outcome /\ o.claim.height \in Height
        /\ (o.block # NoBlock => o.claim.txid \in content[o.block])
    <3>1. o \in Outcome /\ (o.block # NoBlock => o.claim.txid \in content[o.block])
      <4>1. 1 \in 1..Len(outcomes) /\ o = outcomes[1] /\ o \in Outcome
        BY <1>3, <2>1, OutcomeHead, SMTT(30)
      <4> QED
        BY <4>1, Zenon DEF ProofsAreGenuine
    <3> QED
      BY <3>1 DEF Outcome, ClaimAt
  <2>3. hash # NoBlock =>
          /\ loc \in 1..loc /\ loc' = loc
          /\ o.claim.height <= Len(Chains[loc]) /\ Chains[loc][o.claim.height] = hash
    <3>1. hash # NoBlock =>
            loc > 0 /\ o.claim.height <= Len(Chains[loc]) /\ Chains[loc][o.claim.height] = hash
      BY <2>2 DEF Headers
    <3>2. loc > 0 => loc \in 1..loc
      BY DEF TypeOK, HeaderTypeOK, ServerTypeOK
    <3>3. loc' = loc
      BY <1>8 DEF TakeOutcome, headerVars
    <3> QED
      BY <3>1, <3>2, <3>3
  <2>4. pc' = "check" =>
          /\ o.block # NoBlock /\ hash # NoBlock
          /\ job' = [claim |-> o.claim, block |-> o.block, hash |-> hash]
    BY <1>8 DEF TakeOutcome
  <2>5. pc' # "apply"
    BY <1>8 DEF TakeOutcome, reconIdle
  <2>6. \A i \in 1..Len(outcomes') : outcomes'[i].block # NoBlock =>
           outcomes'[i].claim.txid \in content'[outcomes'[i].block]
    <3> SUFFICES ASSUME NEW i \in 1..Len(outcomes'), outcomes'[i].block # NoBlock
                 PROVE  outcomes'[i].claim.txid \in content[outcomes'[i].block]
      BY <1>2
    <3>1. i + 1 \in 1..Len(outcomes) /\ outcomes'[i] = outcomes[i + 1]
      BY <1>3, <2>1, OutcomeTail
    <3> QED
      BY <3>1 DEF ProofsAreGenuine
  <2> HIDE DEF o, hash
  <2>7. ASSUME pc' = "check"
        PROVE  /\ job'.claim.txid \in content'[job'.block]
               /\ \E k \in 1..loc' : /\ job'.claim.height <= Len(Chains[k])
                                    /\ Chains[k][job'.claim.height] = job'.hash
    <3>1. job'.claim = o.claim /\ job'.block = o.block /\ job'.hash = hash
      BY <2>4, <2>7
    <3>2. o.block # NoBlock /\ hash # NoBlock
      BY <2>4, <2>7
    <3>3. job'.claim.txid \in content'[job'.block]
      BY <1>2, <2>2, <3>1, <3>2
    <3>4. /\ loc \in 1..loc' /\ job'.claim.height <= Len(Chains[loc])
          /\ Chains[loc][job'.claim.height] = job'.hash
      BY <2>3, <3>1, <3>2
    <3> QED
      BY <3>3, <3>4
  <2> QED
    BY <2>5, <2>6, <2>7, Zenon DEF ProofsAreGenuine, OnChain
<1>9. CASE ResolveMerkleTarget
  BY <1>1, <1>2, <1>9, Zenon DEF ResolveMerkleTarget, ProofsAreGenuine
<1>10. CASE Crash
  <2>1. outcomes' = <<>> /\ pc' = "start"
    BY <1>10 DEF Crash
  <2>2. 1..Len(<<>>) = {}
    OBVIOUS
  <2> QED
    BY <2>1, <2>2 DEF ProofsAreGenuine
<1>11. CASE ServerReplies \/ HeaderStoreSteps
  BY <1>4, <1>11, Zenon DEF ServerReplies, ServerPushes, ServerAnswersHistory, ServerAnswersTxs,
       HeaderStoreSteps, HeaderStoreValidated, HeaderStoreAdvances, HeaderStoreExtendsDown,
       reconVars
<1>12. CASE MerkleSteps
  BY <1>4, <1>6, <1>7, <1>12 DEF MerkleSteps, MerkleClientGone, MerkleReconnects, reconVars
<1>13. CASE ListenerSteps
  BY <1>4, <1>13, Zenon DEF ListenerSteps, ListenerStarts, ListenerDisconnects,
       OnStatusUnchanged,
       OnStatusChanged, OnStatusCleared, OnHistory, OnTxs, NotifyScan, reconVars
<1>14. CASE ReconcilerSteps
  BY <1>4, <1>7, <1>8, <1>9, <1>14, Zenon DEF ReconcilerSteps, ReconcilerStarts,
       ReconcilerTicks,
       ReverifyReminedEntries, ResolvePendingClaims, ApplyTxMerkle, ReadClaimedHash,
       RetryReorgedClaim, OutcomesDrained, StampConfirmationTimes
<1>15. CASE Disturbances
  BY <1>4, <1>10, <1>15, Zenon DEF Disturbances, ServerMines, ServerPoolChanges,
       ServerFailsHistory,
       ClientDies, ListenerStops, MerkleClientEnds, RecordBroadcast, reconVars
<1>16. CASE UNCHANGED vars
  BY <1>4, <1>16 DEF vars, reconVars
<1> QED
  BY <1>11, <1>12, <1>13, <1>14, <1>15, <1>16 DEF Next

\* apply_tx_merkle marks an entry Verified only in a block that holds the
\* transaction and that the validated chain has held at that height, whatever
\* the listener, a reorg or a restart does between the steps of the check.
THEOREM VerifiedWasMined == Spec => []VerifiedIsMined
<1>1. Init => VerifiedIsMined /\ ProofsAreGenuine
  BY DEF Init, VerifiedIsMined, VerifiedIn, ProofsAreGenuine, Absent
<1>2. TypeOK /\ TypeOK' /\ VerifiedIsMined /\ ProofsAreGenuine /\ [Next]_vars
        => VerifiedIsMined' /\ ProofsAreGenuine'
  BY VerifiedStep, GenuineStep
<1> QED
  BY <1>1, <1>2, TypeCorrect, PTL DEF Spec

-----------------------------------------------------------------------------
(* A failed proof stays failed until its block is replaced.                  *)

\* Every step keeps failures on disk and away from the proof being applied.
LEMMA FailureStep ==
  ASSUME TypeOK, TypeOK', FailureIsKnown, [Next]_vars
  PROVE  FailureIsKnown'
<1>1. ASSUME NEW t \in Txid, tx'[t].inc = "failed" PROVE disk'[t].inc = "failed"
  <2>1. CASE ApplyTxMerkle
    BY <1>1, <2>1, Zenon DEF ApplyTxMerkle, Generate
  <2>2. CASE Kept(tx', tx)
    BY <1>1, <2>2, StoreStep, Zenon DEF Kept, Checked, FailureIsKnown
  <2>3. CASE Crash /\ tx' = disk
    BY <1>1, <2>3, StoreStep
  <2> QED
    BY <2>1, <2>2, <2>3, StoreStep, Zenon
<1>2. ASSUME pc' = "apply" PROVE tx'[job'.claim.txid].inc # "failed"
  <2>1. CASE ResolveMerkleTarget
    BY <1>2, <2>1, Zenon DEF ResolveMerkleTarget, StillClaimed, ClaimedEntry, coinVars
  <2>2. CASE UNCHANGED <<pc, job>> /\ ~ApplyTxMerkle /\ ~Crash
    <3>1. job.claim.txid \in Txid
      BY DEF TypeOK, ReconTypeOK, Job, ClaimAt
    <3> QED
      BY <1>2, <2>2, <3>1, StoreStep, Zenon DEF Kept, Checked, FailureIsKnown
  <2>3. CASE pc' # "apply"
    BY <1>2, <2>3
  <2>4. ~ApplyTxMerkle /\ ~Crash
    BY <1>2, Zenon DEF ApplyTxMerkle, Crash
  <2>5. CASE ServerReplies \/ HeaderStoreSteps \/ MerkleSteps
    BY <2>2, <2>4, <2>5, Zenon DEF ServerReplies, ServerPushes, ServerAnswersHistory,
         ServerAnswersTxs,
         HeaderStoreSteps, HeaderStoreValidated, HeaderStoreAdvances, HeaderStoreExtendsDown,
         MerkleSteps, MerkleAnswers, FailPending, MerkleClientGone, MerkleReconnects, reconVars
  <2>6. CASE ListenerSteps
    BY <2>2, <2>4, <2>6, Zenon DEF ListenerSteps, ListenerStarts, ListenerDisconnects,
         OnStatusUnchanged,
         OnStatusChanged, OnStatusCleared, OnHistory, OnTxs, NotifyScan, reconVars
  <2>7. CASE ReconcilerSteps
    <3>1. ~ReconcilerStarts /\ ~ReconcilerTicks /\ ~ReverifyReminedEntries /\ ~ResolvePendingClaims
      BY <1>2, Zenon DEF ReconcilerStarts, ReconcilerTicks, ReverifyReminedEntries,
           ResolvePendingClaims
    <3>2. ~TakeOutcome
      BY <1>2 DEF TakeOutcome
    <3>3. ~ReadClaimedHash /\ ~RetryReorgedClaim /\ ~OutcomesDrained /\ ~StampConfirmationTimes
      BY <1>2 DEF ReadClaimedHash, RetryReorgedClaim, OutcomesDrained, StampConfirmationTimes
    <3>4. ASSUME NEW c \in ClaimAt PROVE ~FetchMerkle(c)
      BY <1>2 DEF FetchMerkle
    <3> QED
      BY <2>1, <2>4, <2>7, <3>1, <3>2, <3>3, <3>4 DEF ReconcilerSteps
  <2>8. CASE Disturbances
    BY <2>2, <2>4, <2>8, Zenon DEF Disturbances, ServerMines, ServerPoolChanges,
         ServerFailsHistory,
         ClientDies, ListenerStops, MerkleClientEnds, RecordBroadcast, reconVars
  <2>9. CASE UNCHANGED vars
    BY <2>2, <2>4, <2>9, Zenon DEF vars, reconVars
  <2> QED
    BY <2>5, <2>6, <2>7, <2>8, <2>9, Zenon DEF Next
<1> QED
  BY <1>1, <1>2, Zenon DEF FailureIsKnown

\* What the passes of coin_store.rs may make of a failed entry.
LEMMA OperatorsOnFailed ==
  ASSUME NEW store \in [Txid -> TxEntry], NEW hdr \in HeaderView, NEW claims \in SUBSET ClaimAt,
         NEW prev, NEW new, NEW slots, NEW txids, NEW t \in Txid, store[t].inc = "failed"
  PROVE  /\ ~IsConfirmed(FoldTxs(store, prev, new)[t])
         /\ ~IsConfirmed(InsertUpdates(store, txids)[t])
         /\ ~IsConfirmed(ResolveTxs(store, Promotable(store, claims, hdr), hdr)[t])
         /\ ~IsConfirmed(StampTxs(store, hdr)[t])
         /\ IsConfirmed(ReverifyTxs(store, slots, hdr)[t]) =>
              hdr[store[t].height] # store[t].hash
<1>1. ~IsConfirmed(store[t])
  BY DEF IsConfirmed
<1>2. ~IsConfirmed(FoldTxs(store, prev, new)[t])
  BY <1>1 DEF FoldTxs, Demote, Absent, Unconfirmed, IsConfirmed
<1>3. ~IsConfirmed(InsertUpdates(store, txids)[t])
  BY <1>1 DEF InsertUpdates
<1>4. ResolveTxs(store, Promotable(store, claims, hdr), hdr)[t] = store[t]
  BY DEF ResolveTxs, Promotable
<1>5. StampTxs(store, hdr)[t] = store[t]
  BY <1>1 DEF StampTxs
<1>6. t \notin ToReverify(store, slots, hdr) => ReverifyTxs(store, slots, hdr)[t] = store[t]
  BY Zenon DEF ReverifyTxs
<1>7. t \in ToReverify(store, slots, hdr) => hdr[store[t].height] # store[t].hash
  BY Zenon DEF ToReverify
<1> QED
  BY <1>1, <1>2, <1>3, <1>4, <1>5, <1>6, <1>7, Zenon

\* No step takes a failure back while its header is in place.
LEMMA FailureActs ==
  ASSUME TypeOK, FailureIsKnown, Next
  PROVE  FailureStays
<1> SUFFICES ASSUME NEW t \in Txid, tx[t].inc = "failed"
             PROVE  IsConfirmed(tx'[t]) => Headers[tx[t].height] # tx[t].hash
  BY Zenon DEF FailureStays
<1>0. tx \in [Txid -> TxEntry] /\ pending \in SUBSET ClaimAt /\ Headers \in HeaderView
  BY HeadersType DEF TypeOK, CoinTypeOK
<1>1. CASE UNCHANGED tx
  BY <1>1 DEF IsConfirmed
<1>2. CASE ServerReplies \/ HeaderStoreSteps \/ MerkleSteps
  BY <1>1, <1>2, Zenon DEF ServerReplies, ServerPushes, ServerAnswersHistory, ServerAnswersTxs,
       HeaderStoreSteps, HeaderStoreValidated, HeaderStoreAdvances, HeaderStoreExtendsDown,
       MerkleSteps, MerkleAnswers, FailPending, MerkleClientGone, MerkleReconnects, coinVars
<1>3. CASE OnStatusCleared \/ OnHistory
  <2>1. \E prev, new : tx' = FoldTxs(tx, prev, new)
    BY <1>3, Zenon DEF OnStatusCleared, OnHistory, HandleHistory
  <2> QED
    BY <1>0, <2>1, OperatorsOnFailed, Zenon
<1>4. CASE OnTxs
  BY <1>0, <1>4, OperatorsOnFailed, Zenon DEF OnTxs
<1>5. CASE ListenerSteps
  BY <1>1, <1>3, <1>4, <1>5, Zenon DEF ListenerSteps, ListenerStarts, ListenerDisconnects,
       OnStatusUnchanged, OnStatusChanged, coinVars
<1>6. CASE ReverifyReminedEntries
  BY <1>0, <1>6, OperatorsOnFailed, Zenon DEF ReverifyReminedEntries
<1>7. CASE ResolvePendingClaims
  BY <1>0, <1>7, OperatorsOnFailed, Zenon DEF ResolvePendingClaims
<1>8. CASE StampConfirmationTimes
  BY <1>0, <1>8, OperatorsOnFailed, Zenon DEF StampConfirmationTimes
<1>9. CASE ApplyTxMerkle
  <2>1. t # job.claim.txid
    BY <1>9, Zenon DEF ApplyTxMerkle, FailureIsKnown
  <2>2. tx'[t] = tx[t]
    BY <1>0, <1>9, <2>1, Zenon DEF ApplyTxMerkle
  <2> QED
    BY <2>2 DEF IsConfirmed
<1>10. CASE ReconcilerSteps
  <2>1. CASE ReconcilerStarts \/ ReconcilerTicks \/ ResolveMerkleTarget \/ ReadClaimedHash
    BY <1>1, <2>1 DEF ReconcilerStarts, ReconcilerTicks, ResolveMerkleTarget, ReadClaimedHash,
         coinVars
  <2>2. CASE TakeOutcome \/ RetryReorgedClaim \/ OutcomesDrained
    BY <1>1, <2>2, SMTT(30) DEF TakeOutcome, RetryReorgedClaim, OutcomesDrained, coinVars
  <2>3. ASSUME NEW c \in ClaimAt, FetchMerkle(c) PROVE UNCHANGED tx
    BY <2>3 DEF FetchMerkle, coinVars
  <2> QED
    BY <1>1, <1>6, <1>7, <1>8, <1>9, <1>10, <2>1, <2>2, <2>3, Zenon DEF ReconcilerSteps
<1>11. CASE Crash
  BY <1>11, Zenon DEF Crash, FailureIsKnown, IsConfirmed
<1>12. ASSUME NEW u \in Txid, RecordBroadcast(u)
       PROVE  IsConfirmed(tx'[t]) => Headers[tx[t].height] # tx[t].hash
  BY <1>0, <1>12, OperatorsOnFailed, Zenon DEF RecordBroadcast
<1>13. CASE Disturbances
  BY <1>1, <1>11, <1>12, <1>13, Zenon DEF Disturbances, ServerMines, ServerPoolChanges,
       ServerFailsHistory, ClientDies, ListenerStops, MerkleClientEnds, coinVars
<1> QED
  BY <1>2, <1>5, <1>10, <1>13, Zenon DEF Next

\* A VerifyFailed entry becomes confirmed again only when the header at its
\* height is no longer the one its proof failed against, across late proofs,
\* reorgs and restarts.
THEOREM FailureIsTerminal == Spec => FailedIsTerminal
<1>1. Init => FailureIsKnown
  BY DEF Init, FailureIsKnown, Absent
<1>2. TypeOK /\ TypeOK' /\ FailureIsKnown /\ [Next]_vars => FailureIsKnown'
  BY FailureStep
<1>3. TypeOK /\ FailureIsKnown /\ [Next]_vars => [FailureStays]_vars
  BY FailureActs
<1> QED
  BY <1>1, <1>2, <1>3, TypeCorrect, PTL DEF Spec, FailedIsTerminal

-----------------------------------------------------------------------------
(* The coin view shows what the tx store places in a block.                  *)

\* Every entry of `new` in a block is in that block, with that status, in `old`.
SameBlocks(new, old) ==
  \A t \in Txid : HasBlock(new[t]) =>
    old[t].inc = new[t].inc /\ old[t].height = new[t].height

\* The passes that are not followed by generate() place nothing in a block.
LEMMA OperatorsPlaceNothing ==
  ASSUME NEW store \in [Txid -> TxEntry], NEW hdr, NEW prev, NEW new
  PROVE  /\ SameBlocks(FoldTxs(store, prev, new), store)
         /\ SameBlocks(StampTxs(store, hdr), store)
<1>1. SameBlocks(FoldTxs(store, prev, new), store)
  BY DEF SameBlocks, FoldTxs, Demote, Absent, Unconfirmed, HasBlock, InBlock
<1>2. SameBlocks(StampTxs(store, hdr), store)
  BY StampShape DEF SameBlocks, StampTxs
<1> QED
  BY <1>1, <1>2

\* Every step shows what it places in a block, or marks it dirty.
LEMMA ViewStep ==
  ASSUME TypeOK, ViewOrDirty, [Next]_vars
  PROVE  ViewOrDirty'
<1>0. tx \in [Txid -> TxEntry]
  BY DEF TypeOK, CoinTypeOK
<1>1. CASE view' = CoinView(tx')
  BY <1>1, Zenon DEF ViewOrDirty, Shown
<1>2. ASSUME Shown, SameBlocks(tx', tx), view' = view PROVE ViewOrDirty'
  <2>1. \A t \in Txid : HasBlock(tx'[t]) => CoinView(tx')[t] = CoinView(tx)[t]
    BY <1>2, Zenon DEF SameBlocks, HasBlock, CoinView, CoinStatus, IsConfirmed
  <2>2. \A t \in Txid : HasBlock(tx'[t]) => HasBlock(tx[t])
    BY <1>2 DEF SameBlocks, HasBlock
  <2> QED
    BY <1>2, <2>1, <2>2, Zenon DEF ViewOrDirty, Shown
<1>3. CASE UNCHANGED <<tx, view, dirty>> /\ (MutexFree' => MutexFree)
  BY <1>3, Zenon DEF ViewOrDirty, Shown, MutexFree
<1>4. CASE ServerReplies \/ HeaderStoreSteps \/ MerkleSteps
  BY <1>3, <1>4, Zenon DEF ServerReplies, ServerPushes, ServerAnswersHistory, ServerAnswersTxs,
       HeaderStoreSteps, HeaderStoreValidated, HeaderStoreAdvances, HeaderStoreExtendsDown,
       MerkleSteps, MerkleAnswers, FailPending, MerkleClientGone, MerkleReconnects,
       MutexFree, coinVars, reconVars
<1>5. CASE OnHistory
  <2>1. \E prev, new : tx' = FoldTxs(tx, prev, new)
    BY <1>5, Zenon DEF OnHistory, HandleHistory
  <2>2. SameBlocks(tx', tx)
    BY <1>0, <2>1, OperatorsPlaceNothing
  <2>3. view' = view \/ view' = CoinView(tx')
    BY <1>5, Zenon DEF OnHistory, Generate
  <2>4. Shown
    BY <1>5, Zenon DEF OnHistory, ViewOrDirty
  <2> QED
    BY <1>1, <1>2, <2>2, <2>3, <2>4
<1>6. CASE OnStatusCleared \/ OnTxs
  BY <1>1, <1>6, Zenon DEF OnStatusCleared, OnTxs, Generate
<1>7. CASE ListenerSteps
  BY <1>3, <1>5, <1>6, <1>7, Zenon DEF ListenerSteps, ListenerStarts, ListenerDisconnects,
       OnStatusUnchanged, OnStatusChanged, NotifyScan, MutexFree, coinVars, reconVars
<1>8. CASE ReverifyReminedEntries
  <2>0. MutexFree /\ ~MutexFree' /\ view' = view /\ dirty' = (tx' # tx)
    BY <1>8 DEF ReverifyReminedEntries, MutexFree
  <2>1. CASE tx' = tx
    BY <2>0, <2>1, Zenon DEF ViewOrDirty, Shown
  <2>2. CASE tx' # tx
    BY <2>0, <2>2, Zenon DEF ViewOrDirty
  <2> QED
    BY <2>1, <2>2
<1>9. CASE ResolvePendingClaims
  <2> DEFINE promoted == Promotable(tx, pending, Headers)
  <2>1. CASE dirty \/ promoted # {}
    <3>1. view' = CoinView(tx')
      BY <1>9, <2>1, Zenon DEF ResolvePendingClaims, Generate
    <3> QED
      BY <1>1, <3>1
  <2>2. CASE ~dirty /\ promoted = {}
    <3>1. tx' = ResolveTxs(tx, promoted, Headers) /\ view' = view
      BY <1>9, <2>2, Zenon DEF ResolvePendingClaims
    <3>2. tx' = tx
      BY <1>0, <2>2, <3>1, Zenon DEF ResolveTxs
    <3> QED
      BY <2>2, <3>1, <3>2, Zenon DEF ViewOrDirty, Shown
  <2>3. dirty \in BOOLEAN
    BY DEF TypeOK, ReconTypeOK
  <2> QED
    BY <2>1, <2>2, <2>3
<1>10. CASE ApplyTxMerkle
  BY <1>1, <1>10, Zenon DEF ApplyTxMerkle, Generate
<1>11. CASE StampConfirmationTimes
  <2>1. SameBlocks(tx', tx) /\ view' = view /\ Shown
    BY <1>0, <1>11, OperatorsPlaceNothing DEF StampConfirmationTimes, ViewOrDirty, MutexFree
  <2> QED
    BY <1>2, <2>1
<1>12. CASE ReconcilerSteps
  <2>1. CASE ReconcilerStarts \/ ReconcilerTicks \/ ResolveMerkleTarget \/ ReadClaimedHash
    BY <1>3, <2>1 DEF ReconcilerStarts, ReconcilerTicks, reconIdle, ResolveMerkleTarget,
         ReadClaimedHash, MutexFree, coinVars
  <2>2. CASE RetryReorgedClaim \/ OutcomesDrained
    BY <1>3, <2>2, Zenon DEF RetryReorgedClaim, OutcomesDrained, reconIdle, MutexFree, coinVars
  <2>3. ASSUME NEW c \in ClaimAt, FetchMerkle(c) PROVE ViewOrDirty'
    BY <1>3, <2>3 DEF FetchMerkle, MutexFree, coinVars
  <2>4. CASE TakeOutcome
    BY <1>3, <2>4 DEF TakeOutcome, reconIdle, MutexFree
  <2> QED
    BY <1>8, <1>9, <1>10, <1>11, <1>12, <2>1, <2>2, <2>3, <2>4 DEF ReconcilerSteps
<1>13. CASE Crash
  BY <1>1, <1>13 DEF Crash
<1>14. CASE Disturbances
  BY <1>1, <1>3, <1>13, <1>14, Zenon DEF Disturbances, ServerMines, ServerPoolChanges,
       ServerFailsHistory, ClientDies, ListenerStops, MerkleClientEnds, RecordBroadcast,
       Generate, MutexFree, coinVars, reconVars
<1>15. CASE UNCHANGED vars
  BY <1>3, <1>15 DEF vars, MutexFree, coinVars, reconVars
<1> QED
  BY <1>4, <1>7, <1>12, <1>14, <1>15 DEF Next

\* Whenever the coin-store mutex is free, generate() has run since the last
\* change of a transaction the tx store places in a block.
THEOREM ViewCurrent == Spec => []ViewIsCurrent
<1>1. Init => ViewOrDirty
  BY DEF Init, ViewOrDirty, Shown
<1>2. ViewOrDirty => ViewIsCurrent
  BY DEF ViewOrDirty, ViewIsCurrent
<1> QED
  BY <1>1, <1>2, ViewStep, TypeCorrect, PTL DEF Spec

-----------------------------------------------------------------------------
(* Every in-flight slot has a fetch that will end.                           *)

\* The reconciler holds claims to fetch only between a pass and its last fetch,
\* so a pass that starts a new list loses none of the previous one.
FetchListIsCurrent == pc \notin {"fetch", "resolve"} => toFetch = {}

\* Something will report on claim c: the reconciler is about to ask for it, a
\* failure is about to be reported, or an answer is on the wire or received.
Served(c) ==
  \/ c \in toFetch \cup failing \/ wire[c] > 0
  \/ \E i \in 1..Len(outcomes) : outcomes[i].claim = c

\* Every unverified entry of `new` is one of `old`, at the same height.
NoneAwaited(new, old) ==
  \A t \in Txid : new[t].inc = "unverified" =>
    old[t].inc = "unverified" /\ old[t].height = new[t].height

\* Every step keeps the fetch list empty outside a pass.
LEMMA FetchListStep ==
  ASSUME FetchListIsCurrent, [Next]_vars
  PROVE  FetchListIsCurrent'
<1>1. CASE UNCHANGED <<pc, toFetch>>
  BY <1>1 DEF FetchListIsCurrent
<1>2. CASE ServerReplies \/ HeaderStoreSteps \/ MerkleSteps
  BY <1>1, <1>2, Zenon DEF ServerReplies, ServerPushes, ServerAnswersHistory, ServerAnswersTxs,
       HeaderStoreSteps, HeaderStoreValidated, HeaderStoreAdvances, HeaderStoreExtendsDown,
       MerkleSteps, MerkleAnswers, FailPending, MerkleClientGone, MerkleReconnects, reconVars
<1>3. CASE ListenerSteps
  BY <1>1, <1>3, Zenon DEF ListenerSteps, ListenerStarts, ListenerDisconnects,
       OnStatusUnchanged, OnStatusChanged, OnStatusCleared, OnHistory, OnTxs, NotifyScan, reconVars
<1>4. CASE ReconcilerSteps
  <2>1. CASE ReconcilerStarts \/ ReverifyReminedEntries \/ ResolvePendingClaims
    <3>1. pc' \in {"fetch", "resolve"} \/ toFetch' = {}
      BY <2>1, Zenon DEF ReconcilerStarts, ReverifyReminedEntries, ResolvePendingClaims
    <3> QED
      BY <3>1 DEF FetchListIsCurrent
  <2>2. ASSUME NEW c \in ClaimAt, FetchMerkle(c) PROVE FetchListIsCurrent'
    BY <2>2 DEF FetchMerkle, FetchListIsCurrent
  <2>3. CASE ReconcilerTicks \/ TakeOutcome \/ OutcomesDrained
    BY <2>3 DEF ReconcilerTicks, TakeOutcome, OutcomesDrained, reconIdle, FetchListIsCurrent
  <2>4. CASE ResolveMerkleTarget \/ ApplyTxMerkle \/ ReadClaimedHash
    BY <2>4 DEF ResolveMerkleTarget, ApplyTxMerkle, ReadClaimedHash, FetchListIsCurrent
  <2>5. CASE RetryReorgedClaim \/ StampConfirmationTimes
    BY <2>5, Zenon DEF RetryReorgedClaim, StampConfirmationTimes, FetchListIsCurrent
  <2> QED
    BY <1>4, <2>1, <2>2, <2>3, <2>4, <2>5 DEF ReconcilerSteps
<1>5. CASE Disturbances
  <2>1. CASE Crash
    BY <2>1 DEF Crash, FetchListIsCurrent
  <2> QED
    BY <1>1, <1>5, <2>1, Zenon DEF Disturbances, ServerMines, ServerPoolChanges,
         ServerFailsHistory, ClientDies, ListenerStops, MerkleClientEnds, RecordBroadcast, reconVars
<1>6. CASE UNCHANGED vars
  BY <1>1, <1>6 DEF vars, reconVars
<1> QED
  BY <1>2, <1>3, <1>4, <1>5, <1>6 DEF Next

\* Only the reconciler's two passes make an entry wait for a proof.
LEMMA OperatorsAwaitNothing ==
  ASSUME NEW store \in [Txid -> TxEntry], NEW hdr, NEW prev, NEW new, NEW txids
  PROVE  /\ NoneAwaited(FoldTxs(store, prev, new), store)
         /\ NoneAwaited(InsertUpdates(store, txids), store)
         /\ NoneAwaited(StampTxs(store, hdr), store)
<1>1. NoneAwaited(FoldTxs(store, prev, new), store)
  BY DEF NoneAwaited, FoldTxs, Demote, Absent, Unconfirmed
<1>2. NoneAwaited(InsertUpdates(store, txids), store)
  BY DEF NoneAwaited, InsertUpdates, Unconfirmed
<1>3. NoneAwaited(StampTxs(store, hdr), store)
  BY StampShape DEF NoneAwaited, StampTxs
<1> QED
  BY <1>1, <1>2, <1>3

\* update_inclusion to a confirmed variant, on an entry the store holds.
LEMMA InclusionFields ==
  ASSUME NEW e \in TxEntry, NEW inc, NEW h, NEW b, e.inc # "absent"
  PROVE  /\ UpdateInclusion(e, inc, h, b).inc = inc
         /\ UpdateInclusion(e, inc, h, b).height = h
<1>1. e = [inc |-> e.inc, height |-> e.height, hash |-> e.hash, time |-> e.time]
  BY EntryShape
<1> QED
  BY <1>1 DEF UpdateInclusion

\* What was served stays so while the outcomes grow and nothing else is lost.
LEMMA OutcomesServe ==
  ASSUME NEW q \in Seq(Outcome), NEW o \in Outcome
  PROVE  /\ \A c : (\E i \in 1..Len(q) : q[i].claim = c) =>
              \E i \in 1..Len(Append(q, o)) : Append(q, o)[i].claim = c
         /\ \E i \in 1..Len(Append(q, o)) : Append(q, o)[i].claim = o.claim
<1>1. ASSUME NEW i \in 1..Len(q)
      PROVE  i \in 1..Len(Append(q, o)) /\ Append(q, o)[i] = q[i]
  OBVIOUS
<1>2. Len(q) + 1 \in 1..Len(Append(q, o)) /\ Append(q, o)[Len(q) + 1] = o
  OBVIOUS
<1> QED
  BY <1>1, <1>2

\* A claim other than the one taken keeps its place among the outcomes.
LEMMA TailServes ==
  ASSUME NEW q \in Seq(Outcome), q # <<>>, NEW c, c # Head(q).claim,
         NEW i \in 1..Len(q), q[i].claim = c
  PROVE  \E k \in 1..Len(Tail(q)) : Tail(q)[k].claim = c
<1>1. i # 1 /\ i - 1 \in 1..Len(Tail(q)) /\ Tail(q)[i - 1] = q[i]
  OBVIOUS
<1> QED
  BY <1>1

\* Every step keeps a fetch behind each slot, given that no fetch list is
\* overwritten.
LEMMA FetchStep ==
  ASSUME TypeOK, FetchListIsCurrent, InFlightHasFetch, [Next]_vars
  PROVE  InFlightHasFetch'
<1>0. /\ tx \in [Txid -> TxEntry] /\ inFlight \subseteq ClaimAt
      /\ outcomes \in Seq(Outcome) /\ wire \in [ClaimAt -> Nat]
  BY DEF TypeOK, CoinTypeOK, ReconTypeOK, MerkleTypeOK
<1>1. ASSUME inFlight' \subseteq inFlight, NoneAwaited(tx', tx), mclient' = "up" => mclient = "up",
             \A c \in inFlight' : Served(c) => Served(c)'
      PROVE  InFlightHasFetch'
  <2> SUFFICES ASSUME mclient' = "up", NEW c \in inFlight',
                      tx'[c.txid].inc = "unverified", tx'[c.txid].height = c.height
               PROVE  Served(c)'
    BY Zenon DEF InFlightHasFetch, Served
  <2>1. c.txid \in Txid
    BY <1>0, <1>1, Zenon DEF ClaimAt
  <2>2. tx[c.txid].inc = "unverified" /\ tx[c.txid].height = c.height
    BY <1>1, <2>1, Zenon DEF NoneAwaited
  <2>3. Served(c)
    BY <1>1, <2>2, Zenon DEF InFlightHasFetch, Served
  <2> QED
    BY <1>1, <2>3
<1>2. NoneAwaited(tx, tx)
  BY DEF NoneAwaited
<1>3. CASE inFlight' \subseteq inFlight /\ NoneAwaited(tx', tx)
           /\ UNCHANGED <<mclient, toFetch, failing, wire, outcomes>>
  BY <1>1, <1>3, Zenon DEF Served
<1>4. CASE UNCHANGED <<inFlight, tx, mclient, toFetch, failing, wire, outcomes>>
  BY <1>2, <1>3, <1>4, Zenon
<1>5. CASE ServerReplies \/ HeaderStoreSteps
  BY <1>4, <1>5, Zenon DEF ServerReplies, ServerPushes, ServerAnswersHistory, ServerAnswersTxs,
       HeaderStoreSteps, HeaderStoreValidated, HeaderStoreAdvances, HeaderStoreExtendsDown,
       coinVars, merkleVars, reconVars
\* An answer or a failure replaces the fetch it ends by an outcome.
<1>6. ASSUME NEW d \in ClaimAt, NEW b \in BlockOrNone,
             outcomes' = Append(outcomes, [claim |-> d, block |-> b]),
             UNCHANGED <<inFlight, tx, mclient>>,
             toFetch \ {d} \subseteq toFetch', failing \ {d} \subseteq failing',
             \A c \in ClaimAt \ {d} : wire'[c] = wire[c]
      PROVE  InFlightHasFetch'
  <2>1. PICK o \in Outcome : o = [claim |-> d, block |-> b]
    BY <1>6 DEF Outcome
  <2>2. o.claim = d
    BY <2>1
  <2> HIDE DEF Outcome
  <2>3. /\ \A c : (\E i \in 1..Len(outcomes) : outcomes[i].claim = c) =>
                \E i \in 1..Len(Append(outcomes, o)) : Append(outcomes, o)[i].claim = c
        /\ \E i \in 1..Len(Append(outcomes, o)) : Append(outcomes, o)[i].claim = o.claim
    BY <1>0, OutcomesServe, ZenonT(30)
  <2>4. outcomes' = Append(outcomes, o)
    BY <1>6, <2>1, Zenon
  <2>5. Served(d)'
    BY <2>2, <2>3, <2>4, Zenon DEF Served
  <2>6. ASSUME NEW c \in ClaimAt, c # d, Served(c) PROVE Served(c)'
    <3>1. CASE c \in toFetch \cup failing \/ wire[c] > 0
      BY <1>6, <2>6, <3>1 DEF Served
    <3>2. CASE \E i \in 1..Len(outcomes) : outcomes[i].claim = c
      <4>1. \E i \in 1..Len(outcomes') : outcomes'[i].claim = c
        BY <2>3, <2>4, <3>2, Zenon
      <4> QED
        BY <4>1 DEF Served
    <3> QED
      BY <2>6, <3>1, <3>2 DEF Served
  <2>7. inFlight' \subseteq inFlight /\ NoneAwaited(tx', tx) /\ mclient' = mclient
    BY <1>2, <1>6
  <2>8. \A c \in inFlight' : Served(c) => Served(c)'
    BY <1>0, <2>5, <2>6, <2>7, ZenonT(30)
  <2> QED
    BY <1>1, <2>7, <2>8, SMTT(30)
<1>7. ASSUME NEW c \in ClaimAt, MerkleAnswers(c) PROVE InFlightHasFetch'
  <2> DEFINE b == IF MinedAt(srv, c.txid, c.height) THEN Chains[srv][c.height] ELSE NoBlock
  <2>1. b \in BlockOrNone
    BY <1>7, MinedBlock, Zenon DEF BlockOrNone
  <2>2. /\ outcomes' = Append(outcomes, [claim |-> c, block |-> b])
        /\ wire' = [wire EXCEPT ![c] = @ - 1]
        /\ UNCHANGED <<inFlight, tx, mclient, toFetch, failing>>
    BY <1>7, Zenon DEF MerkleAnswers, coinVars
  <2> HIDE DEF b
  <2> QED
    BY <1>0, <1>6, <2>1, <2>2
<1>8. ASSUME NEW c \in ClaimAt, FailPending(c) PROVE InFlightHasFetch'
  <2>1. /\ outcomes' = Append(outcomes, [claim |-> c, block |-> NoBlock])
        /\ failing' = failing \ {c}
        /\ UNCHANGED <<inFlight, tx, mclient, toFetch, wire>>
    BY <1>8, Zenon DEF FailPending, coinVars
  <2> QED
    BY <1>6, <2>1 DEF BlockOrNone
\* A reconnected client is asked for every unverified claim.
<1>9. CASE MerkleReconnects
  <2>1. \A c \in ConfirmedUnverifiedClaims(tx) \cap ClaimAt : wire'[c] = wire[c] + 1
    BY <1>9, Zenon DEF MerkleReconnects
  <2>2. UNCHANGED <<inFlight, tx, toFetch, failing, outcomes>>
    BY <1>9 DEF MerkleReconnects, coinVars, reconVars
  <2> SUFFICES ASSUME NEW c \in inFlight,
                      tx[c.txid].inc = "unverified", tx[c.txid].height = c.height
               PROVE  wire'[c] > 0
    BY <2>2, Zenon DEF InFlightHasFetch
  <2>3. c \in ClaimAt /\ c.txid \in Txid /\ c = [txid |-> c.txid, height |-> c.height]
    BY <1>0 DEF ClaimAt
  <2>4. c \in ConfirmedUnverifiedClaims(tx)
    BY <2>3, SMTT(30) DEF ConfirmedUnverifiedClaims, ClaimOf
  <2> QED
    BY <1>0, <2>1, <2>3, <2>4
<1>10. CASE MerkleClientGone \/ MerkleClientEnds
  BY <1>10 DEF MerkleClientGone, MerkleClientEnds, InFlightHasFetch
<1>11. CASE MerkleSteps
  BY <1>7, <1>8, <1>9, <1>10, <1>11 DEF MerkleSteps
<1>12. CASE OnStatusCleared \/ OnHistory
  <2>1. \E prev, new : tx' = FoldTxs(tx, prev, new) /\ inFlight' = FoldInFlight(inFlight, prev, new)
    BY <1>12, Zenon DEF OnStatusCleared, OnHistory, HandleHistory
  <2>2. UNCHANGED <<mclient, toFetch, failing, wire, outcomes>>
    BY <1>12, Zenon DEF OnStatusCleared, OnHistory, NotifyScan, merkleVars, reconVars
  <2>3. inFlight' \subseteq inFlight /\ NoneAwaited(tx', tx)
    BY <1>0, <2>1, OperatorsAwaitNothing DEF FoldInFlight
  <2> QED
    BY <1>3, <2>2, <2>3
<1>13. CASE OnTxs
  BY <1>0, <1>3, <1>13, OperatorsAwaitNothing, Zenon DEF OnTxs, NotifyScan, merkleVars
<1>14. CASE ListenerSteps
  BY <1>4, <1>12, <1>13, <1>14, Zenon DEF ListenerSteps, ListenerStarts, ListenerDisconnects,
       OnStatusUnchanged, OnStatusChanged, NotifyScan, coinVars, merkleVars, reconVars
\* A pass lists a fetch for every slot it takes, and for every entry it changes.
<1>15. ASSUME NEW claims \in SUBSET ClaimAt, inFlight' = inFlight \cup claims,
              toFetch \cup claims \subseteq toFetch',
              UNCHANGED <<mclient, failing, wire, outcomes>>,
              \A t \in Txid : tx'[t].inc = "unverified" =>
                 \/ tx[t].inc = "unverified" /\ tx[t].height = tx'[t].height
                 \/ [txid |-> t, height |-> tx'[t].height] \in claims
       PROVE  InFlightHasFetch'
  <2> SUFFICES ASSUME mclient = "up", NEW c \in inFlight \cup claims, c \notin claims,
                      tx'[c.txid].inc = "unverified", tx'[c.txid].height = c.height
               PROVE  Served(c)'
    BY <1>15, Zenon DEF InFlightHasFetch, Served
  <2>1. c.txid \in Txid /\ c = [txid |-> c.txid, height |-> c.height]
    BY <1>0, <1>15, Zenon DEF ClaimAt
  <2>2. tx[c.txid].inc = "unverified" /\ tx[c.txid].height = c.height
    BY <1>15, <2>1, Zenon
  <2>3. Served(c)
    BY <2>2, Zenon DEF InFlightHasFetch, Served
  <2> QED
    BY <1>15, <2>3, Zenon DEF Served
<1>16. CASE ReverifyReminedEntries
  <2> DEFINE claims == ReverifyClaims(tx, inFlight, Headers)
  <2>1. /\ tx' = ReverifyTxs(tx, inFlight, Headers) /\ toFetch' = claims
        /\ inFlight' = inFlight \cup claims /\ UNCHANGED <<mclient, failing, wire, outcomes>>
    BY <1>16, Zenon DEF ReverifyReminedEntries, merkleVars
  <2>2. toFetch = {}
    BY <1>16 DEF ReverifyReminedEntries, FetchListIsCurrent
  <2>3. claims \subseteq ClaimAt
    BY <1>0, ClaimOfType, Zenon DEF ReverifyClaims, ToReverify
  <2>4. ASSUME NEW t \in Txid, tx'[t].inc = "unverified"
        PROVE  \/ tx[t].inc = "unverified" /\ tx[t].height = tx'[t].height
               \/ [txid |-> t, height |-> tx'[t].height] \in claims
    <3>1. CASE t \in ToReverify(tx, inFlight, Headers)
      <4>1. tx'[t] = UpdateInclusion(tx[t], "unverified", tx[t].height, Headers[tx[t].height])
        BY <2>1, <3>1, Zenon DEF ReverifyTxs
      <4>2. tx[t] \in TxEntry /\ tx[t].inc # "absent"
        BY <1>0, <3>1, Zenon DEF ToReverify, HasBlock, InBlock
      <4>3. UpdateInclusion(tx[t], "unverified", tx[t].height, Headers[tx[t].height]).height
              = tx[t].height
        BY <4>2, InclusionFields
      <4>4. tx'[t].height = tx[t].height
        BY <4>1, <4>3, Zenon
      <4> QED
        BY <3>1, <4>4, Zenon DEF ReverifyClaims, ClaimOf
    <3>2. CASE t \notin ToReverify(tx, inFlight, Headers)
      BY <2>1, <2>4, <3>2, Zenon DEF ReverifyTxs
    <3> QED
      BY <3>1, <3>2, Zenon
  <2> HIDE DEF claims
  <2> QED
    BY <1>15, <2>1, <2>2, <2>3, <2>4, Zenon
<1>17. CASE ResolvePendingClaims
  <2> DEFINE promoted == Promotable(tx, pending, Headers)
  <2>1. /\ tx' = ResolveTxs(tx, promoted, Headers) /\ toFetch' = toFetch \cup promoted
        /\ inFlight' = inFlight \cup promoted /\ UNCHANGED <<mclient, failing, wire, outcomes>>
    BY <1>17, Zenon DEF ResolvePendingClaims, merkleVars
  <2>2. promoted \subseteq ClaimAt /\ \A c \in promoted : tx[c.txid].inc = "unconfirmed"
    BY SMTT(30) DEF Promotable, TypeOK, CoinTypeOK
  <2> HIDE DEF promoted
  <2>3. ASSUME NEW t \in Txid, tx'[t].inc = "unverified"
        PROVE  \/ tx[t].inc = "unverified" /\ tx[t].height = tx'[t].height
               \/ [txid |-> t, height |-> tx'[t].height] \in promoted
    <3>1. CASE \E c \in promoted : c.txid = t
      <4>1. PICK c \in promoted : c = CHOOSE d \in promoted : d.txid = t
        BY <3>1
      <4>2. c.txid = t
        BY <3>1, <4>1
      <4>3. tx'[t] = UpdateInclusion(tx[t], "unverified", c.height, Headers[c.height])
        BY <2>1, <3>1, <4>1, Zenon DEF ResolveTxs
      <4>4. tx[t] \in TxEntry /\ tx[t].inc # "absent"
        BY <1>0, <2>2, <4>2, SMTT(30)
      <4>5. tx'[t].height = c.height
        BY <4>3, <4>4, InclusionFields
      <4>6. c = [txid |-> t, height |-> c.height]
        BY <2>2, <4>2, Zenon DEF ClaimAt
      <4> QED
        BY <4>5, <4>6
    <3>2. CASE ~ \E c \in promoted : c.txid = t
      BY <2>1, <2>3, <3>2, Zenon DEF ResolveTxs
    <3> QED
      BY <3>1, <3>2
  <2> QED
    BY <1>15, <2>1, <2>2, <2>3, Zenon
<1>18. ASSUME NEW c \in ClaimAt, FetchMerkle(c) PROVE InFlightHasFetch'
  <2>1. toFetch' = toFetch \ {c} /\ UNCHANGED <<mclient, failing, inFlight, tx>>
    BY <1>18 DEF FetchMerkle, coinVars
  <2>2. CASE wire' = [wire EXCEPT ![c] = @ + 1] /\ UNCHANGED outcomes
    <3>1. wire'[c] > 0 /\ \A d \in ClaimAt \ {c} : wire'[d] = wire[d]
      BY <1>0, <2>2
    <3>2. \A d \in inFlight' : Served(d) => Served(d)'
      BY <1>0, <2>1, <2>2, <3>1, Zenon DEF Served
    <3> QED
      BY <1>1, <1>2, <2>1, <3>2
  <2>3. CASE outcomes' = Append(outcomes, [claim |-> c, block |-> NoBlock]) /\ UNCHANGED wire
    BY <1>6, <2>1, <2>3 DEF BlockOrNone
  <2> QED
    BY <1>18, <2>2, <2>3 DEF FetchMerkle
<1>19. CASE TakeOutcome
  <2>1. /\ outcomes # <<>> /\ outcomes' = Tail(outcomes)
        /\ inFlight' = inFlight \ {Head(outcomes).claim}
        /\ UNCHANGED <<mclient, toFetch, failing, wire, tx>>
    BY <1>19, Zenon DEF TakeOutcome, merkleVars
  <2>2. ASSUME NEW c \in inFlight', Served(c) PROVE Served(c)'
    <3>1. CASE c \in toFetch \cup failing \/ wire[c] > 0
      BY <2>1, <3>1, Zenon DEF Served
    <3>2. ASSUME NEW i \in 1..Len(outcomes), outcomes[i].claim = c PROVE Served(c)'
      <4>1. c # Head(outcomes).claim
        BY <2>1
      <4>2. \E k \in 1..Len(Tail(outcomes)) : Tail(outcomes)[k].claim = c
        BY <1>0, <2>1, <3>2, <4>1, TailServes, Zenon
      <4> QED
        BY <2>1, <4>2 DEF Served
    <3> QED
      BY <2>2, <3>1, <3>2, Zenon DEF Served
  <2> QED
    BY <1>1, <1>2, <2>1, <2>2
\* The entry a proof was applied to waits for none.
<1>20. CASE ApplyTxMerkle
  <2> DEFINE u == job.claim.txid
             inc == IF job.block = job.hash THEN "verified" ELSE "failed"
  <2>1. /\ tx' = [tx EXCEPT ![u] = UpdateInclusion(tx[u], inc, job.claim.height, job.hash)]
        /\ UNCHANGED <<inFlight, mclient, toFetch, failing, wire, outcomes>>
    BY <1>20, Zenon DEF ApplyTxMerkle, merkleVars
  <2>2. u \in Txid /\ inc # "unverified"
    BY DEF TypeOK, ReconTypeOK, Job, ClaimAt
  <2> HIDE DEF u, inc
  <2>3. tx'[u] = UpdateInclusion(tx[u], inc, job.claim.height, job.hash)
        /\ \A t \in Txid \ {u} : tx'[t] = tx[t]
    BY <1>0, <2>1, <2>2
  <2>4. tx'[u].inc = "unverified" => tx'[u] = tx[u]
    <3>1. CASE tx[u].inc = "absent"
      BY <2>3, <3>1 DEF UpdateInclusion
    <3>2. CASE tx[u].inc # "absent"
      <4>1. PICK e \in TxEntry : e = tx[u] /\ e.inc # "absent"
        BY <1>0, <2>2, <3>2, Zenon
      <4>2. e = [inc |-> e.inc, height |-> e.height, hash |-> e.hash, time |-> e.time]
        BY EntryShape, Zenon
      <4>3. UpdateInclusion(e, inc, job.claim.height, job.hash).inc = inc
        BY <4>1, <4>2, Zenon DEF UpdateInclusion
      <4> QED
        BY <2>2, <2>3, <4>1, <4>3, Zenon
    <3> QED
      BY <3>1, <3>2, Zenon
  <2>5. NoneAwaited(tx', tx)
    BY <2>3, <2>4, Zenon DEF NoneAwaited
  <2> QED
    BY <1>3, <2>1, <2>5
<1>21. CASE StampConfirmationTimes
  BY <1>0, <1>3, <1>21, OperatorsAwaitNothing, Zenon DEF StampConfirmationTimes, merkleVars
<1>22. CASE ReconcilerStarts
  <2>1. toFetch \subseteq toFetch' /\ UNCHANGED <<inFlight, tx, mclient, failing, wire, outcomes>>
    BY <1>22 DEF ReconcilerStarts, FetchListIsCurrent, merkleVars, coinVars
  <2> QED
    BY <1>1, <1>2, <2>1, Zenon DEF Served
<1>23. CASE ReconcilerSteps
  BY <1>4, <1>16, <1>17, <1>18, <1>19, <1>20, <1>21, <1>22, <1>23, Zenon
     DEF ReconcilerSteps, ReconcilerTicks, ResolveMerkleTarget, ReadClaimedHash,
         RetryReorgedClaim, OutcomesDrained, merkleVars, coinVars
<1>24. CASE Disturbances
  <2>1. ASSUME NEW t \in Txid, RecordBroadcast(t) PROVE InFlightHasFetch'
    BY <1>0, <1>3, <2>1, OperatorsAwaitNothing, Zenon DEF RecordBroadcast, merkleVars, reconVars
  <2>2. CASE Crash
    BY <2>2, Zenon DEF Crash, InFlightHasFetch
  <2> QED
    BY <1>4, <1>10, <1>24, <2>1, <2>2, Zenon DEF Disturbances, ServerMines, ServerPoolChanges,
         ServerFailsHistory, ClientDies, ListenerStops, coinVars, merkleVars, reconVars
<1>25. CASE UNCHANGED vars
  BY <1>4, <1>25 DEF vars, coinVars, merkleVars, reconVars
<1> QED
  BY <1>5, <1>11, <1>14, <1>23, <1>24, <1>25 DEF Next

\* While the merkle client is up, no in-flight slot of an entry that waits for
\* its proof is held for a fetch that has been forgotten: HeaderStore::stop
\* reports every pending fetch, and a reconnected client is asked for every
\* unverified claim again.
THEOREM SlotsAreServed == Spec => []InFlightHasFetch
<1>1. Init => InFlightHasFetch /\ FetchListIsCurrent
  BY DEF Init, InFlightHasFetch, FetchListIsCurrent
<1> QED
  BY <1>1, FetchStep, FetchListStep, TypeCorrect, PTL DEF Spec
=============================================================================
