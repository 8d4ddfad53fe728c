---------------------------- MODULE MCAlgorithms ----------------------------
(***************************************************************************)
(* The algorithms, each called once on every input of a bounded set.       *)
(***************************************************************************)
EXTENDS Integers, Sequences, FiniteSets, SequencesExt

Sp == INSTANCE SilentPayments
Hot == INSTANCE HotSigner
Sel == INSTANCE CoinSelection
Pay == INSTANCE PaymentHistory
Device == INSTANCE DeviceMessages
Spend == INSTANCE SpSpending

VARIABLE call

-----------------------------------------------------------------------------
(* Silent payments: one or two inputs of every kind, even and odd keys; up *)
(* to three outputs to two receivers, one of them with a label.            *)

Kinds == {"pkh", "pkh_uncompressed", "wpkh", "sh_wpkh", "sh_multi", "tr",
          "tr_script", "tr_nums", "wsh", "sp"}

SpCoins(keys, outpoints) ==
    [kind : Kinds, key : keys, held : BOOLEAN, outpoint : outpoints]

SharedSecret ==
    /\ call.alg = "none"
    /\ \E a \in SpCoins({5, 9000}, {1}), b \in SpCoins({6, 9001}, {0, 2}),
          n \in 1..2 :
         call' = [alg |-> "secret", coins |-> SubSeq(<<a, b>>, 1, n)]

Receivers == {[scan |-> 17, spend |-> 29, labels |-> {1}],
              [scan |-> 23, spend |-> 8000, labels |-> {}]}

Addresses ==
    UNION {{Sp!AddressOf(r, m) : m \in r.labels \cup {0, Sp!NoKey}} : r \in Receivers}

FindOutputs ==
    /\ call.alg = "none"
    /\ \E r \in Receivers, as \in SeqOf(Addresses, 3), s \in {3, 77, 9003} :
         call' = [alg |-> "find", r |-> r, addresses |-> as, secret |-> s]

-----------------------------------------------------------------------------
(* The wallet: signing, selecting coins, spending, describing outputs and  *)
(* telling what happened.                                                  *)

HotInputs ==
    [kind : {"segwit", "tapkey"}, wit : BOOLEAN, all : BOOLEAN,
     keys : {<<k>> : k \in [fg : {"f1", "f2"}, ours : BOOLEAN, leaf : {FALSE},
                            change : {0, 1, 2}, index : {0}]},
     spk : [desc : {"d1", "d2"}, change : {0, 1}, index : {0}]]

HotSign ==
    /\ call.alg = "none"
    /\ \E a \in HotInputs,
          b \in {i \in HotInputs : i.wit /\ i.all /\ i.kind = "segwit"} :
         call' = [alg |-> "hot", ins |-> <<a, b>>]

SelCoins == [id : {0}, value : {300, 1100, 9000, 52000, 5300000}, wu : {66, 272}]

SelectCoins ==
    /\ call.alg = "none"
    /\ \E a, b, c \in SelCoins, n \in 0..3, t \in {1, 900, 9500},
          rate \in {999, 1000, 5000} :
         call' = [alg |-> "select", target |-> t, rate |-> rate,
                  coins |-> [i \in 1..n |-> [<<a, b, c>>[i] EXCEPT !.id = i]]]

C(owner, status, value) == [owner |-> owner, status |-> status, value |-> value]

Wallets ==
    LET any == {C("sp", s, 7) : s \in {"confirmed", "unconfirmed", "spent"}}
               \cup [owner : {"a", "b"}, value : {9},
                     status : {"confirmed", "unverified", "unconfirmed", "spent"}]
    IN  {<<x, C("a", "confirmed", 5), y>> : x, y \in any}

Out(kind, network, max) ==
    [kind |-> kind, network |-> network, amount |-> 3, max |-> max]

SpOutputs == [kind : {"sp", "legacy", "data", "junk"},
              network : {"signet", "testnet"}, amount : {3}, max : BOOLEAN]

Request(outputs, inputs, fee, rate) ==
    [outputs |-> outputs, fee |-> fee, rate |-> rate, dust |-> -1,
     inputs |-> inputs]

SpViews ==
    /\ call.alg = "none"
    /\ \E w \in Wallets : call' = [alg |-> "views", w |-> w]

SpBuild ==
    /\ call.alg = "none"
    /\ \/ \E o, p \in SpOutputs :
            call' = [alg |-> "build", w |-> <<C("a", "confirmed", 5)>>,
                     request |-> Request(<<o, p>>, <<>>, 0, 0)]
       \/ \E w \in Wallets, ins \in SeqOf(1..4, 2), fee \in {0, 9},
             rate \in {0, 2}, m \in BOOLEAN :
            call' = [alg |-> "build", w |-> w,
                     request |-> Request(<<Out("legacy", "signet", m),
                                           Out("sp", "testnet", FALSE)>>,
                                         ins, fee, rate)]

SpSign ==
    /\ call.alg = "none"
    /\ \E w \in Wallets, ops \in {<<1, 2>>, <<1, 3>>, <<2, 4>>, <<1, 2, 3>>, <<2>>},
          utxo \in [1..3 -> BOOLEAN], can \in BOOLEAN :
         call' = [alg |-> "sign", w |-> w, can |-> can,
                  psbt |-> [i \in DOMAIN ops |->
                              [outpoint |-> ops[i], utxo |-> utxo[i], sig |-> "none"]]]

R(kind, len, origin, own, address) ==
    [kind |-> kind, len |-> len, origin |-> origin, own |-> own,
     address |-> address, current |-> 0]

Recipients ==
    {R("address", 22, [chain |-> "receive", index |-> 3], b, 0) : b \in BOOLEAN}
    \cup {R("address", 34, [chain |-> "other", index |-> 1], FALSE, 0)}
    \cup {R("change", n, Spend!NoInfo, TRUE, 0) : n \in {22, 34}}
    \cup {R(k, 34, Spend!NoInfo, FALSE, a) : k \in {"sp", "sp_change"}, a \in {1, 2}}
    \cup {R("data", n, Spend!NoInfo, FALSE, 0) : n \in {0, 1, 75, 76, 80, 81}}

Describe ==
    /\ call.alg = "none"
    /\ \E rs \in SeqOf(Recipients, 3) :
         call' = [alg |-> "describe", recipients |-> rs]

Outs(values) == [1..Len(values) -> {"sp", "electrum", "foreign"}]

PayTx(ins, paid, values, heights, sent) ==
    {[ins |-> ins, paid |-> paid, height |-> h, sent |-> s,
      outs |-> [v \in DOMAIN values |-> [owner |-> o[v], value |-> values[v]]]] :
        o \in Outs(values), h \in heights, s \in sent}

\* A payment in, a transaction that spends it with or without foreign inputs,
\* and one that spends the change.
FirstPays == PayTx({}, 100, <<50, 40>>, {5}, {FALSE})
SecondPays ==
    PayTx({<<1, 1>>}, 0, <<30, 15>>, {0, 6}, BOOLEAN)
    \cup PayTx({<<1, 1>>, <<1, 2>>}, 0, <<60, 20>>, {0, 6}, BOOLEAN)
    \cup PayTx({<<1, 2>>}, 20, <<45, 10>>, {6}, {FALSE})
ThirdPays == PayTx({<<2, 1>>}, 0, <<12>>, {0, 7}, BOOLEAN)

\* A transaction the account broadcast spends its coins alone, unconfirmed.
SentIsOwn(txs) ==
    \A t \in DOMAIN txs : txs[t].sent =>
        /\ txs[t].height = 0 /\ txs[t].paid = 0
        /\ \A op \in txs[t].ins : txs[op[1]].outs[op[2]].owner # "foreign"

AddUp ==
    /\ call.alg = "none"
    /\ \E a \in FirstPays, b \in SecondPays, c \in ThirdPays, n \in 1..3,
          late \in BOOLEAN :
         /\ SentIsOwn(<<a, b, c>>)
         /\ call' = [alg |-> "pay", txs |-> SubSeq(<<a, b, c>>, 1, n),
                     late |-> late]

CoinMaps ==
    UNION {[ids -> [value : {1}, status : {"Unconfirmed", "Confirmed",
                                           "BeingSpend", "Spent", "ConfirmedUnverified"}]] :
              ids \in SUBSET {1, 2}}

Announce ==
    /\ call.alg = "none"
    /\ \E old, new \in CoinMaps :
         call' = [alg |-> "events", old |-> old, new |-> new]

-----------------------------------------------------------------------------
(* Devices: frames of every length around their bounds, rounds over two    *)
(* inputs of up to three keys, and the merge of what a device returns.     *)

LedgerFrames ==
    /\ call.alg = "none"
    /\ \E n \in 0..255 : call' = [alg |-> "ledger", n |-> n]

U2fFrames ==
    /\ call.alg = "none"
    /\ \E n \in (0..240) \cup (7545..7560) : call' = [alg |-> "u2f", n |-> n]

Derivations(i) ==
    {s \in SUBSET [key : 1..2, fg : {1, 2}, path : {<<b, i>> : b \in 0..2}] :
        \A d, e \in s : d # e =>
            d.key # e.key /\ <<d.fg, d.path>> # <<e.fg, e.path>>}
    \cup {{[key |-> k, fg |-> 1, path |-> <<p[k], i>>] : k \in 1..3} :
             p \in {q \in [1..3 -> 0..2] : IsInjective(q)}}

SignRounds ==
    /\ call.alg = "none"
    /\ \E a \in Derivations(0), b \in Derivations(1) :
         call' = [alg |-> "rounds",
                  psbt |-> <<[deriv |-> a, sigs |-> {}, keysig |-> 0],
                             [deriv |-> b, sigs |-> {}, keysig |-> 0]>>]

Unsigned == [deriv : {{}}, sigs : {{}, {1}, {2}}, keysig : {0, 1}]
Signed == [sigs : {{}, {2}, {3}}, keysig : {0, 2}, witness : {0, 3}]

Merge ==
    /\ call.alg = "none"
    /\ \E a, b \in Unsigned, c, d \in Signed, n \in 0..2 :
         call' = [alg |-> "merge", psbt |-> <<a, b>>,
                  signed |-> SubSeq(<<c, d>>, 1, n)]

-----------------------------------------------------------------------------
Init == call = [alg |-> "none"]

Next ==
    \/ SharedSecret \/ FindOutputs
    \/ HotSign \/ SpViews \/ SpBuild \/ SpSign
    \/ Describe \/ AddUp \/ Announce
    \/ LedgerFrames \/ U2fFrames \/ SignRounds \/ Merge
    \/ SelectCoins

Spec == Init /\ [][Next]_call

-----------------------------------------------------------------------------
(* What the calls are checked for; each property is stated in its module.  *)

\* Sender and receiver of a silent payment compute one shared secret from the
\* inputs (bip352_input_key, eligible_input_pubkey), and from it the receiver
\* finds exactly the outputs paid to it and can spend each (scan_transaction).
FindsItsOutputs ==
    /\ call.alg = "secret" => Sp!SharedSecretAgrees(call.coins, 29, 17)
    /\ call.alg = "find" => Sp!FindsItsOutputs(call.r, call.addresses, call.secret)

\* Whoever signs signs what is its own and nothing by halves: a hot signer every
\* input that spends one of its scripts and no other (HotSigner::sign), the
\* silent-payment keys all their inputs or none (sign_psbt), a device every key
\* of its own once over the rounds it takes (Bip32DerivationFilter), and the
\* merge of what it returns loses no signature (merge_signatures).
SignsItsOwn ==
    /\ call.alg = "hot" => Hot!SignsItsOwn("f1", <<"d1">>, call.ins)
    /\ call.alg = "sign" => Spend!SignsAllOrNothing(call.w, call.can, call.psbt)
    /\ call.alg = "rounds" => Device!RoundsSignEveryKey(call.psbt, 1)
    /\ call.alg = "merge" => Device!MergesKeepSignatures(call.psbt, call.signed)

\* Coins are selected whenever some pay the target and their fee, and what is
\* selected pays both (select_coins).
SelectionPays ==
    call.alg = "select" => Sel!SelectionPays(call.coins, call.target, call.rate)

\* A request is built exactly when it can be, with what it names once each
\* (tx_builder_from_request), from the coins the account lists as spendable and
\* counts as such (all_spendable_coins, all_coins); the metadata of an output
\* leads a signer to its script and its weight is covered (build_psbt).
SpendsAreAsAsked ==
    /\ call.alg = "views" => Spend!ViewsAgree(call.w, {"a", "b"})
    /\ call.alg = "build" =>
         Spend!BuildsWhatIsAsked(call.w, {"a", "b"}, "signet", call.request)
    /\ call.alg = "describe" => Spend!OutputsAreDescribed(call.recipients, 4)

\* What the wallet tells of its coins adds up to them: the payments of the
\* history to the coins still unspent (aggregate_payments), the events to the
\* change of the store (coin_events).
PaymentsAddUp ==
    /\ call.alg = "pay" => Pay!PaymentsAddUp(call.txs, call.late)
    /\ call.alg = "events" => Pay!EventsTrackCoins(call.old, call.new)

\* A message cut into packets is put together again byte for byte: a command
\* for a Ledger (write_apdu, read_apdu), a frame for a BitBox (encode, decode).
FramesRoundTrip ==
    /\ call.alg = "ledger" => Device!LedgerFramesRoundTrip(call.n)
    /\ call.alg = "u2f" => Device!U2fFramesRoundTrip(call.n)
=============================================================================
