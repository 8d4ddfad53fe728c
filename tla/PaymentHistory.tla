----------------------------- MODULE PaymentHistory -----------------------------
(****************************************************************************)
(* The payment history of a silent payment account and its Electrum          *)
(* sub-account: what each contributes per transaction (scanner.rs,           *)
(* sp/account/mod.rs), how the contributions are summed into payments        *)
(* (history.rs), and the per-coin events of a store that regenerates its     *)
(* coins (coin_store.rs).                                                    *)
(*                                                                           *)
(* A history is a sequence of transactions [ins, paid, outs, height, sent]:  *)
(* the earlier outputs <<tx, vout>> it spends, what foreign inputs add, its  *)
(* outputs [value, owner], its height (NoHeight when unconfirmed), and       *)
(* whether the wallet broadcast it and has not scanned it yet.               *)
(****************************************************************************)
EXTENDS Integers, Sequences, FiniteSets, SequencesExt, FiniteSetsExt

NoHeight == 0

OutAt(txs, op) == txs[op[1]].outs[op[2]]
Owned(txs, t, who) == {v \in DOMAIN txs[t].outs : txs[t].outs[v].owner = who}
Spends(txs, t, who) == {op \in txs[t].ins : OutAt(txs, op).owner = who}
Touches(txs, t, who) == Owned(txs, t, who) # {} \/ Spends(txs, t, who) # {}

ValueIn(txs, ops) == MapThenSumSet(LAMBDA op : OutAt(txs, op).value, ops)
ValueOut(txs, t, vouts) == MapThenSumSet(LAMBDA v : txs[t].outs[v].value, vouts)

Status(tx) == IF tx.height = NoHeight THEN "Unconfirmed" ELSE "Verified"

\* populate_tx_metadata and tx_contributions of an Electrum scanner: its store
\* holds every transaction of its scripts; an input is owned when the store has
\* the output it spends
ElectrumContribution(txs, t) ==
    IF ~Touches(txs, t, "electrum") THEN {}
    ELSE {[in |-> ValueIn(txs, Spends(txs, t, "electrum")),
           out |-> ValueOut(txs, t, Owned(txs, t, "electrum")),
           vouts |-> Owned(txs, t, "electrum"), height |-> txs[t].height,
           status |-> Status(txs[t]), outputs |-> Len(txs[t].outs)]}

\* the change a broadcast recorded counted next to the coin it became
SpOwnedOutTwice(coins, change) == coins + change

\* the change a broadcast recorded stands in while no change coin is recorded
SpOwnedOut(coins, change) == IF change > 0 /\ coins = 0 THEN change ELSE coins

\* tx_contributions of the silent payment account: ownership from its coins,
\* the transaction and its height from its transaction store.  A change coin
\* is recorded at the broadcast, or by the scan (`late`).
SpContribution(txs, t, late) ==
    LET mine == Owned(txs, t, "sp")
        change == IF txs[t].sent THEN ValueOut(txs, t, mine) ELSE 0
        coins == IF txs[t].sent /\ late THEN 0 ELSE ValueOut(txs, t, mine)
    IN IF ~Touches(txs, t, "sp") THEN {}
       ELSE {[in |-> ValueIn(txs, Spends(txs, t, "sp")), out |-> SpOwnedOut(coins, change),
              vouts |-> IF coins = 0 THEN {} ELSE mine, height |-> txs[t].height,
              status |-> Status(txs[t]), outputs |-> Len(txs[t].outs)]}

\* PaymentStatus::merge: a failure first, then the weaker of two confirmations
Merge(a, b) ==
    IF "VerifyFailed" \in {a, b} THEN "VerifyFailed"
    ELSE IF "ConfirmedUnverified" \in {a, b} THEN "ConfirmedUnverified"
    ELSE IF "Verified" \in {a, b} THEN "Verified"
    ELSE "Unconfirmed"

\* the sums of a transaction over the accounts, in their order
Summed(a, b) ==
    [in |-> a.in + b.in, out |-> a.out + b.out, vouts |-> a.vouts \cup b.vouts,
     height |-> IF a.height = NoHeight THEN b.height ELSE a.height,
     status |-> Merge(a.status, b.status), outputs |-> a.outputs]

Contribution(txs, t, late) ==
    LET sp == SpContribution(txs, t, late)
        el == ElectrumContribution(txs, t)
    IN IF sp = {} THEN el ELSE IF el = {} THEN sp
       ELSE {Summed(a, b) : a \in sp, b \in el}

\* a gain next to an owned input reported as a send
\* direction and amount, derived after summing
Direction(c) ==
    IF c.in = 0 THEN [type |-> "Receive", amount |-> c.out]
    ELSE IF c.out > c.in THEN [type |-> "Receive", amount |-> c.out - c.in]
    ELSE [type |-> IF Cardinality(c.vouts) = c.outputs THEN "ToSelf" ELSE "Send",
          amount |-> c.in - c.out]

Payment(t, c) ==
    [tx |-> t, type |-> Direction(c).type, amount |-> Direction(c).amount,
     height |-> c.height, status |-> c.status]

\* unconfirmed first, then by descending height, then by txid
Before(a, b) ==
    IF a.height = b.height THEN a.tx < b.tx
    ELSE a.height = NoHeight \/ (b.height # NoHeight /\ a.height > b.height)

\* aggregate_payments
AggregatePayments(txs, late) ==
    LET payments == UNION {{Payment(t, c) : c \in {d \in Contribution(txs, t, late) :
                                                    d.in # 0 \/ d.out # 0}}
                            : t \in DOMAIN txs}
    IN SetToSortSeq(payments, Before)

\* balance: a negative total reads as zero
Balance(payments) ==
    LET total == FoldLeft(LAMBDA a, p : IF p.type = "Receive" THEN a + p.amount
                                        ELSE a - p.amount, 0, payments)
    IN IF total < 0 THEN 0 ELSE total

(****************************** Coin events *********************************)

\* spendable_coins: what selection may take, and the two balances shown
SpendableCoins(coins) ==
    LET of(states) == {c \in DOMAIN coins : coins[c].status \in states}
        sum(cs) == MapThenSumSet(LAMBDA c : coins[c].value, cs)
    IN [coins |-> {c \in DOMAIN coins : coins[c].status # "Spent"},
        confirmed |-> sum(of({"Confirmed", "ConfirmedUnverified"})),
        unconfirmed |-> sum(of({"Unconfirmed"}))]

IsSpent(coin) == coin.status \in {"Spent", "BeingSpend"}

\* an unspent coin that left the map is reported spent
Left(previous, coins) == {c \in DOMAIN previous \ DOMAIN coins : ~IsSpent(previous[c])}

\* coin_events, coin_received, coin_spent: what generate() notifies
CoinEvents(previous, coins) ==
    [received |-> DOMAIN coins \ DOMAIN previous,
     spent |-> {c \in DOMAIN coins : IsSpent(coins[c]) /\
                    (c \in DOMAIN previous => ~IsSpent(previous[c]))}
               \cup Left(previous, coins)]

(******************************* Properties *********************************)

Unspent(txs) ==
    {op \in UNION {{<<t, v>> : v \in DOMAIN txs[t].outs} : t \in DOMAIN txs} :
        /\ OutAt(txs, op).owner # "foreign"
        /\ \A t \in DOMAIN txs : op \notin txs[t].ins}

\* The history and the coins tell one story: netted over both accounts, with a
\* broadcast's change counted once before and after its coin is recorded, the
\* payments add up to the value of the outputs still unspent.  Every
\* transaction of the wallet has one payment, newest first, and one that pays
\* nobody else is never shown as a send.
PaymentsAddUp(txs, late) ==
    LET payments == AggregatePayments(txs, late)
    IN /\ Balance(payments) = ValueIn(txs, Unspent(txs))
       /\ \A i, j \in DOMAIN payments : i < j =>
            /\ payments[i].tx # payments[j].tx
            /\ payments[j].height = NoHeight => payments[i].height = NoHeight
       /\ \A i \in DOMAIN payments : payments[i].type = "Send" /\ ~late =>
            \E v \in DOMAIN txs[payments[i].tx].outs :
                txs[payments[i].tx].outs[v].owner = "foreign"

\* A consumer that keeps its own set of coins from CoinReceived and CoinSpent
\* never holds one the store has spent or dropped, and lacks only a coin whose
\* spend was undone while it stayed in the map: that one comes with CoinUpdate
\* alone.  No spend is announced twice in a row.
EventsTrackCoins(previous, coins) ==
    LET events == CoinEvents(previous, coins)
        live(m) == {c \in DOMAIN m : ~IsSpent(m[c])}
        undone == {c \in DOMAIN previous \cap live(coins) : IsSpent(previous[c])}
    IN /\ (live(previous) \cup events.received) \ events.spent = live(coins) \ undone
       /\ events.spent \subseteq live(previous) \cup events.received
       /\ SpendableCoins(coins).confirmed + SpendableCoins(coins).unconfirmed
            = MapThenSumSet(LAMBDA c : coins[c].value, live(coins))
================================================================================
