------------------------------ MODULE SpStores ------------------------------
(***************************************************************************)
(* The stores of a silent-payment account (sp/src/account/coin_store.rs,   *)
(* sp/src/account/tx_store.rs, sp/src/scan/state.rs) as operators on their *)
(* contents.                                                               *)
(*                                                                         *)
(* A transaction has at most one output paying the account, so a coin is   *)
(* named by the transaction that creates it.  A block hash is a pair       *)
(* <<height, branch>>: a reorganisation opens a new branch.                *)
(***************************************************************************)
EXTENDS Integers, Sequences, FiniteSetsExt, Functions

CONSTANT ReorgDepth     \* REORG_DEPTH, 6 in the code

ASSUME ReorgDepthAssumption == ReorgDepth \in Nat \ {0}

NoBlock == <<0, 0>>
Unconfirmed == 0        \* a height that is None
Never == -1             \* a frontier that is None

(***************************************************************************)
(* OutputSpendStatus.                                                      *)
(***************************************************************************)
Unspent == [kind |-> "unspent", by |-> "none", at |-> NoBlock]
Spent(t, hash) == [kind |-> "spent", by |-> t, at |-> hash]
Mined(hash) == [kind |-> "mined", by |-> "none", at |-> hash]

\* One entry, and two maps of which the entries of g win.
Entry(k, v) == [x \in {k} |-> v]
Merge(f, g) ==
    [k \in DOMAIN f \cup DOMAIN g |-> IF k \in DOMAIN g THEN g[k] ELSE f[k]]

\* A height recorded by a block above the fork; an unconfirmed one is by none.
Above(height, fork) == height # Unconfirmed /\ height > fork

(***************************************************************************)
(* SpCoinStore: coin -> [height, status].                                  *)
(***************************************************************************)
WithStatus(entry, status) == [height |-> entry.height, status |-> status]

MarkSpent(coins, cs, t) ==
    [c \in DOMAIN coins |->
        IF c \in cs THEN WithStatus(coins[c], Spent(t, NoBlock)) ELSE coins[c]]

Confirmed(status, hash) ==
    IF status.kind = "spent" THEN Spent(status.by, hash) ELSE Mined(hash)

ConfirmSpend(coins, cs, hash) ==
    [c \in DOMAIN coins |->
        IF c \in cs THEN WithStatus(coins[c], Confirmed(coins[c].status, hash))
        ELSE coins[c]]

Reopened(status, reorged) ==
    CASE status.kind = "spent" /\ status.at \in reorged -> Spent(status.by, NoBlock)
      [] status.kind = "mined" /\ status.at \in reorged -> Unspent
      [] OTHER -> status

RollBackCoins(coins, fork, reorged) ==
    [c \in {c \in DOMAIN coins : ~Above(coins[c].height, fork)} |->
        WithStatus(coins[c], Reopened(coins[c].status, reorged))]

SpendingTxids(coins) ==
    {coins[c].status.by :
        c \in {d \in DOMAIN coins : coins[d].status.kind = "spent"}}

Spendable(coins) == {c \in DOMAIN coins : coins[c].status.kind = "unspent"}

(***************************************************************************)
(* The watch set of a sweep: coin -> the height it is watched from.        *)
(***************************************************************************)
Watchable(coins, sweepStart) ==
    LET watched == {c \in DOMAIN coins :
                      \/ coins[c].status.kind = "unspent"
                      \/ /\ coins[c].status.kind = "spent"
                         /\ coins[c].status.at = NoBlock}
    IN  [c \in watched |->
            IF coins[c].height = Unconfirmed THEN sweepStart
            ELSE coins[c].height]

WatchFloor(watch) == Min(Range(watch))

(***************************************************************************)
(* record_outputs: a coin found again keeps a status that is not Unspent.  *)
(* An unconfirmed entry of our own broadcast gets its height.              *)
(***************************************************************************)
InsertOutputsOnce(coins, outs, h) ==
    Merge([c \in outs |-> [height |-> h, status |-> Unspent]], coins)

InsertOutputs(coins, outs, h) ==
    Merge(coins,
          [c \in outs |->
             [height |-> h,
              status |-> IF c \in DOMAIN coins THEN coins[c].status
                         ELSE Unspent]])

(***************************************************************************)
(* apply_unconfirmed_spend on the coins: the inputs become spent by t and  *)
(* the output of t, unless a scan already found it, an unconfirmed coin.   *)
(***************************************************************************)
InjectSpend(coins, t, ins, outs) ==
    Merge([c \in outs |-> [height |-> Unconfirmed, status |-> Unspent]],
          MarkSpent(coins, ins, t))

(***************************************************************************)
(* SpTxStore: txid -> height.                                              *)
(***************************************************************************)
RecordTxs(txs, found, h) == Merge(txs, [t \in found |-> h])

ConfirmTxs(txs, confirmed, h) ==
    [t \in DOMAIN txs |-> IF t \in confirmed THEN h ELSE txs[t]]

RollBackTxs(txs, fork, pending) ==
    [t \in {t \in DOMAIN txs : Above(txs[t], fork) => t \in pending} |->
        IF Above(txs[t], fork) THEN Unconfirmed ELSE txs[t]]

(***************************************************************************)
(* ScanState: the two frontiers and the hashes of the last scanned blocks. *)
(***************************************************************************)
NewScanState == [scanned |-> Never, spend |-> Never, hashes |-> <<>>]

KeptFrom(hashes, floor) ==
    Restrict(hashes, {h \in DOMAIN hashes : h >= floor})

KeptUpTo(hashes, top) == Restrict(hashes, {h \in DOMAIN hashes : h <= top})

\* advance_frontier for each of the heights hs, in turn: those past the frontier
\* are kept with their hash, and what the last one leaves below the window goes.
AdvanceFrontier(st, hs, hashes) ==
    LET past == {h \in hs : h > st.scanned}
    IN  IF past = {} THEN st
        ELSE [scanned |-> Max(past),
              spend   |-> st.spend,
              hashes  |-> KeptFrom(Merge(st.hashes, Restrict(hashes, past)),
                                   Max(past) + 1 - ReorgDepth)]

AdvanceSpendFrontier(st, h) ==
    [st EXCEPT !.spend = IF h > @ THEN h ELSE @]

RollBackState(st, fork) ==
    [scanned |-> fork,
     spend   |-> IF st.spend > fork THEN fork ELSE st.spend,
     hashes  |-> KeptUpTo(st.hashes, fork)]

NextStart(frontier, birthday) ==
    IF frontier = Never THEN birthday ELSE frontier + 1

(***************************************************************************)
(* record_scan_frontier: advance to tip over the scanned blocks that fall  *)
(* in the reorganisation window; scanned maps each height to its hash.     *)
(***************************************************************************)
RecordFrontier(st, start, tip, scanned) ==
    AdvanceFrontier(st, Max({start, tip + 1 - ReorgDepth}) .. tip, scanned)

EffectiveSpendStart(st, start) ==
    IF st.spend = Never \/ start <= st.spend THEN start ELSE st.spend + 1
=============================================================================
