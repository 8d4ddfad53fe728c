----------------------------- MODULE SpSpending -----------------------------
(***************************************************************************)
(* Spending from a silent-payment account (sp/src/account/mod.rs): what it *)
(* lists as its coins and its sub-accounts', how a request becomes the     *)
(* template of a transaction, and how a PSBT is signed.                    *)
(*                                                                         *)
(* A wallet maps outpoints to [owner, status, value]; an owner is "sp" or  *)
(* the number of a sub-account.  A request is [outputs, fee, rate, dust,   *)
(* inputs]; its outputs are [kind, network, amount, max], where the kind   *)
(* and the network are what the address string parses as.  Numbers stand   *)
(* for outpoints.  No code gives a coin the status BeingSpend.             *)
(***************************************************************************)
EXTENDS Integers, Sequences, FiniteSets, FiniteSetsExt, SequencesExt, TLC

Sum(f, S) == FoldSet(LAMBDA x, acc : f[x].value + acc, 0, S)

Live(coin) == coin.status # "spent"

-----------------------------------------------------------------------------
(* What the account lists.                                                 *)

\* all_coins
AllCoins(wallet) ==
    [o \in DOMAIN wallet |->
        [owner |-> wallet[o].owner, value |-> wallet[o].value,
         spendable |-> Live(wallet[o])]]

OwnedBy(wallet, owner) == {o \in DOMAIN wallet : wallet[o].owner = owner}

\* spendable_coins of the account's own store: an output of our own broadcast
\* is unconfirmed, and spendable.
SpSpendable(wallet) == {o \in OwnedBy(wallet, "sp") : Live(wallet[o])}

\* ... and of a sub-account's: a coin whose proof is pending counts as
\* confirmed.
SubSpendable(wallet, sub) == {o \in OwnedBy(wallet, sub) : Live(wallet[o])}

Confirmed(wallet, coins) ==
    {o \in coins : wallet[o].status \in {"confirmed", "unverified"}}

\* MergedCoinSource: what a selection draws from.
MergedSource(wallet, subs) ==
    SpSpendable(wallet) \cup UNION {SubSpendable(wallet, s) : s \in subs}

\* all_spendable_coins
Summary(wallet, coins) ==
    LET confirmed == Confirmed(wallet, coins) IN
    [count |-> <<Cardinality(confirmed), Cardinality(coins \ confirmed)>>,
     balance |-> <<Sum(wallet, confirmed), Sum(wallet, coins \ confirmed)>>]

Plus(a, b) == [f \in DOMAIN a |-> [i \in 1..2 |-> a[f][i] + b[f][i]]]

AllSpendableCoins(wallet, subs) ==
    FoldSet(LAMBDA s, acc : Plus(acc, Summary(wallet, SubSpendable(wallet, s))),
            Summary(wallet, SpSpendable(wallet)), subs)

-----------------------------------------------------------------------------
(* A request.                                                              *)

\* RecipientAddress::parse: the networks of a silent-payment address are
\* coarser than Bitcoin's (every test network but regtest has one prefix).
SpNetwork(network) == IF network = "signet" THEN "testnet" ELSE network

ParseAddress(o, network) ==
    \/ o.kind = "sp" /\ o.network = SpNetwork(network)
    \/ o.kind = "legacy" /\ o.network = network
    \/ o.kind = "data"

Error(why) == [error |-> why]

\* The outputs: those with an amount in order, the one that drains last.
Recipients(outputs) ==
    SelectSeq(outputs, LAMBDA o : ~o.max) \o SelectSeq(outputs, LAMBDA o : o.max)

FirstBad(outputs, network) ==
    LET bad == {i \in DOMAIN outputs :
                  \/ ~ParseAddress(outputs[i], network)
                  \/ outputs[i].max /\ \E j \in 1..(i - 1) : outputs[j].max}
    IN  IF bad = {} THEN "none"
        ELSE IF ParseAddress(outputs[Min(bad)], network)
        THEN "MultipleMaxOutputs" ELSE "InvalidAddress"

\* The fee: an absolute one if given, or a rate of one sat/vB or more.
FeesOf(request) ==
    IF request.fee > 0 THEN [kind |-> "sats", n |-> request.fee]
    ELSE [kind |-> "rate", n |-> 1000 * Max({request.rate, 1})]

\* The coins chosen by hand, in the order they were named, a coin once.
ChosenCoinsUnchecked(wallet, inputs) ==
    IF \E i \in DOMAIN inputs : inputs[i] \notin DOMAIN wallet
    THEN Error("CoinNotFound")
    ELSE [error |-> "none",
          inputs |-> SelectSeq(inputs, LAMBDA o : o \in DOMAIN wallet)]

ChosenCoins(wallet, inputs) ==
    LET bad == {i \in DOMAIN inputs : inputs[i] \notin DOMAIN wallet
                                      \/ ~Live(wallet[inputs[i]])}
        add(acc, o) == IF o \in ToSet(acc) THEN acc ELSE Append(acc, o)
    IN  IF bad = {}
        THEN [error |-> "none", inputs |-> FoldLeft(add, << >>, inputs)]
        ELSE IF inputs[Min(bad)] \in DOMAIN wallet THEN Error("CoinNotSpendable")
        ELSE Error("CoinNotFound")

DustAmount == 5000

\* tx_builder_from_request
TxBuilderFromRequest(wallet, network, request) ==
    LET bad == FirstBad(request.outputs, network)
        chosen == ChosenCoins(wallet, request.inputs)
    IN  IF bad # "none" THEN Error(bad)
        ELSE IF chosen.error # "none" THEN chosen
        ELSE [error |-> "none", outputs |-> Recipients(request.outputs),
              inputs |-> chosen.inputs, fees |-> FeesOf(request),
              dust |-> IF request.dust = -1 THEN DustAmount ELSE request.dust]

-----------------------------------------------------------------------------
(* Signing.  An input of a PSBT is [outpoint, utxo, sig]: whether it has   *)
(* its spent output, and who signed it.                                    *)

\* sign_sp_inputs: the hash that is signed covers every input's spent output.
SignSpInputs(wallet, psbt) ==
    LET sp == {i \in DOMAIN psbt : psbt[i].outpoint \in OwnedBy(wallet, "sp")} IN
    IF sp # {} /\ \E i \in DOMAIN psbt : ~psbt[i].utxo
    THEN [ok |-> FALSE, psbt |-> psbt]
    ELSE [ok |-> TRUE,
          psbt |-> [i \in DOMAIN psbt |->
                      IF i \in sp THEN [psbt[i] EXCEPT !.sig = "sp"]
                      ELSE psbt[i]]]

\* The signing manager's turn: HotSigner signs an input of a sub-account that
\* has its spent output.
SignBip32(wallet, psbt) ==
    [i \in DOMAIN psbt |->
        IF /\ psbt[i].outpoint \in DOMAIN wallet
           /\ wallet[psbt[i].outpoint].owner # "sp"
           /\ psbt[i].utxo
        THEN [psbt[i] EXCEPT !.sig = "bip32"] ELSE psbt[i]]

\* sign_psbt
SignPsbt(wallet, canSign, psbt) ==
    LET sp == IF canSign THEN SignSpInputs(wallet, psbt)
              ELSE [ok |-> TRUE, psbt |-> psbt]
    IN  IF sp.ok THEN [ok |-> TRUE, psbt |-> SignBip32(wallet, sp.psbt)] ELSE sp

-----------------------------------------------------------------------------
(* The outputs of a transaction under construction: the recipient          *)
(* providers of tx/src/recipient.rs (an address, the descriptor's change)  *)
(* and of sp/src/account/recipient.rs (a silent payment, data behind       *)
(* OP_RETURN, silent payment change).  The builder asks a recipient three  *)
(* things at three different times: its weight while coins are selected,   *)
(* its script once the inputs are fixed, and the PSBT metadata a signer    *)
(* recognises it by after that.  The three answers have to describe one    *)
(* output.  A script is [len, chain, index]: its length and what it is     *)
(* derived from.                                                           *)

NoInfo == [chain |-> "none", index |-> 0]

(* TxOut::weight of a script: value, length byte, script; no witness.       *)
OutputWu(len) == 4 * (8 + 1 + len)

(* ScriptBuf::new_op_return: OP_RETURN, the push opcode (two bytes over 75  *)
(* bytes of data), the data.                                                *)
OpReturnLen(n) == 1 + (IF n <= 75 THEN 1 ELSE 2) + n

(* output_weight of each provider.  "address" and "change" measure a script *)
(* (the change one that of index 0), a silent payment is always taproot.    *)
TrOutputWeight == 172
DataWeight(n) == OutputWu(1 + 1 + (IF n < 80 THEN n ELSE 80))
OutputWeight(r) ==
    IF r.kind = "sp" \/ r.kind = "sp_change" THEN TrOutputWeight
    ELSE IF r.kind = "data" THEN DataWeight(r.len)
    ELSE OutputWu(r.len)

(* create_script.  Only the change of a descriptor moves: it takes the next *)
(* index of its tip updater.  A silent payment has its script set by the    *)
(* batch derivation before (`k` counts the earlier outputs of its address). *)
CreateChange(r, tip) ==
    [tip |-> tip + 1, script |-> [len |-> r.len, chain |-> "change", index |-> tip + 1]]
CreateScript(r, k, tip) ==
    IF r.kind = "change" THEN CreateChange(r, tip)
    ELSE [tip |-> tip,
          script |-> IF r.kind = "data" THEN [len |-> OpReturnLen(r.len), chain |-> "data", index |-> 0]
                     ELSE IF r.kind = "address" THEN [len |-> r.len] @@ r.origin
                     ELSE [len |-> 34, chain |-> "sp", index |-> 10 * r.address + k]]

(* What build_psbt writes into the PSBT: to_psbt_output's derivation of an  *)
(* own address, the keys of a silent payment.  The change of a descriptor   *)
(* has no to_psbt_output of its own, so nothing is written for it.          *)
ToPsbtOutput(r) ==
    IF r.kind = "address" THEN (IF r.own THEN r.origin ELSE NoInfo)
    ELSE IF r.kind \in {"data", "change"} THEN NoInfo
    ELSE [chain |-> "sp", index |-> r.address]

(* build_psbt: the scripts in order, each with its metadata.                *)
BuildOne(acc, r) ==
    LET k == Len(SelectSeq(acc.outs, LAMBDA o : o.script.chain = "sp" /\ o.script.index \div 10 = r.address))
        c == CreateScript(r, k, acc.tip)
    IN  [tip |-> c.tip, outs |-> Append(acc.outs,
            [script |-> c.script, info |-> ToPsbtOutput(r), weight |-> OutputWeight(r)])]
Build(recipients, tip) ==
    LET f[i \in 0..Len(recipients)] ==
            IF i = 0 THEN [tip |-> tip, outs |-> <<>>] ELSE BuildOne(f[i - 1], recipients[i])
    IN  f[Len(recipients)]

(* What a signer derives from the metadata is the script it describes.      *)
Describes(info, script) ==
    \/ info = NoInfo
    \/ info.chain = "sp" /\ script.chain = "sp" /\ script.index \div 10 = info.index
    \/ info.chain = script.chain /\ info.index = script.index

-----------------------------------------------------------------------------

\* The views of the wallet agree: the coins listed as spendable are those a
\* selection draws from, and the summary counts and sums exactly them.
ViewsAgree(wallet, subs) ==
    LET listed == {o \in DOMAIN wallet : AllCoins(wallet)[o].spendable} IN
    /\ MergedSource(wallet, subs) = listed
    /\ AllSpendableCoins(wallet, subs) = Summary(wallet, listed)

\* A request is built exactly when every address parses on this network, at
\* most one output drains, and every coin it names is listed as spendable; the
\* template then spends each named coin once and pays each output once.
BuildsWhatIsAsked(wallet, subs, network, request) ==
    LET outputs == request.outputs
        built == TxBuilderFromRequest(wallet, network, request)
        drains == {i \in DOMAIN outputs : outputs[i].max}
    IN  /\ (built.error = "none") <=>
             /\ \A i \in DOMAIN outputs : ParseAddress(outputs[i], network)
             /\ Cardinality(drains) <= 1
             /\ ToSet(request.inputs) \subseteq MergedSource(wallet, subs)
        /\ built.error = "none" =>
             /\ ToSet(built.inputs) = ToSet(request.inputs)
             /\ IsInjective(built.inputs)
             /\ Len(built.outputs) = Len(outputs)
             /\ ToSet(built.outputs) = ToSet(outputs)
             /\ \A i \in DOMAIN built.outputs :
                  built.outputs[i].max => i = Len(built.outputs)

\* sign_psbt signs all it can or, on an error, nothing: an input without its
\* spent output never leaves a PSBT half signed by the silent-payment keys.
SignsAllOrNothing(wallet, canSign, psbt) ==
    LET res == SignPsbt(wallet, canSign, psbt) IN
    IF res.ok
    THEN \A i \in DOMAIN psbt :
           psbt[i].outpoint \in DOMAIN wallet =>
             CASE wallet[psbt[i].outpoint].owner # "sp" ->
                    psbt[i].utxo <=> res.psbt[i].sig = "bip32"
               [] OTHER -> canSign <=> res.psbt[i].sig = "sp"
    ELSE res.psbt = psbt

(* Two builds in a row from one account tip (a user who rebuilds with       *)
(* another fee): in each, the metadata of an output leads a signer to that  *)
(* output's own script, the weight the fee was computed with covers the     *)
(* output unless it carries more than 75 bytes of data, and no two outputs  *)
(* of the two builds are change on one script.                              *)
OutputsAreDescribed(recipients, tip) ==
    LET first == Build(recipients, tip)
        outs == first.outs \o Build(recipients, first.tip).outs
    IN  \A i \in DOMAIN outs :
            /\ Describes(outs[i].info, outs[i].script)
            /\ outs[i].script.len <= 77 => OutputWu(outs[i].script.len) <= outs[i].weight
            /\ \A j \in DOMAIN outs : i # j /\ outs[i].script.chain = "change"
                                        => outs[j].script # outs[i].script
=============================================================================
