----------------------------- MODULE SilentPayments -----------------------------
(****************************************************************************)
(* BIP352 as the wallet sends and receives it: the secret a transaction's    *)
(* inputs sum to (account/recipient.rs, core/sending.rs), the output keys it *)
(* pays to, and what a receiver derives from the finalised transaction alone *)
(* (core/receiving.rs).                                                      *)
(*                                                                           *)
(* The curve is the additive group of the integers modulo a prime Q with     *)
(* generator 1: a key pair is one number, ECDH is a product, and a point and *)
(* its negation share their x coordinate, of which the smaller is even.  The *)
(* hashes are fixed mixing functions into the group.                         *)
(****************************************************************************)
EXTENDS Integers, Sequences, FiniteSets, SequencesExt

Q == 10007

Neg(p) == (Q - p) % Q
Even(p) == 2 * p < Q
XOnly(p) == IF Even(p) THEN p ELSE Neg(p)
Ecdh(p, k) == (p * k) % Q

InputHash(outpoint, sum) == (sum * 4919 + outpoint * 1229 + 11) % Q
LabelHash(scan, m) == (scan * 7717 + m * 3571 + 5) % Q
TapHash(p) == (p * 6121 + 77) % Q
NumsH == 4242

NoKey == -1
Failed == -2

(******************************** The sender ********************************)

\* sp_input_key, single_key_input_key, taproot_input_key: the key an input adds
\* to the sum and whether it is a taproot one, NoKey for an input receivers
\* leave out, Failed when it counts and its secret is not held
Bip352InputKey(coin, spend) ==
    LET internal == IF Even(coin.key) THEN coin.key ELSE Neg(coin.key)
    IN CASE coin.kind = "sp" -> [key |-> (spend + coin.key) % Q, taproot |-> TRUE]
         [] coin.kind \in {"pkh", "wpkh", "sh_wpkh"} ->
                [key |-> IF coin.held THEN coin.key ELSE Failed, taproot |-> FALSE]
         [] coin.kind \in {"tr", "tr_script"} ->
                [key |-> IF coin.held THEN (internal + TapHash(internal)) % Q
                         ELSE Failed, taproot |-> TRUE]
         [] OTHER -> [key |-> NoKey, taproot |-> FALSE]

\* get_a_sum_secret_keys: an odd taproot key is negated
SummedKey(k) == IF k.taproot /\ ~Even(k.key) THEN Neg(k.key) ELSE k.key

Total(keys) == FoldLeft(LAMBDA a, k : (a + k) % Q, 0, keys)

Smallest(outpoints) == CHOOSE o \in outpoints : \A p \in outpoints : o <= p
Outpoints(coins) == {coins[i].outpoint : i \in DOMAIN coins}

\* partial_secret, calculate_partial_secret
PartialSecret(coins, spend) ==
    LET keys == [i \in DOMAIN coins |-> Bip352InputKey(coins[i], spend)]
        counted == SelectSeq(keys, LAMBDA k : k.key # NoKey)
        sum == Total([i \in DOMAIN counted |-> SummedKey(counted[i])])
    IN IF (\E i \in DOMAIN keys : keys[i].key = Failed) \/ sum = 0 THEN Failed
       ELSE Ecdh(InputHash(Smallest(Outpoints(coins)), sum), sum)

\* calculate_t_n
TweakAt(shared, n) == (shared * 7919 + n * 2503 + 3) % Q

\* the position of payment i among those to its scan key
GroupIndex(addresses, i) ==
    Cardinality({j \in 1 .. (i - 1) : addresses[j].scan = addresses[i].scan})

\* generate_recipient_pubkeys: the output keys of an address, in order
RecipientPubkeys(addresses, secret, address) ==
    LET key(i) == XOnly((TweakAt(Ecdh(address.scan, secret),
                                 GroupIndex(addresses, i)) + address.spend) % Q)
        mine == SelectSeq([i \in DOMAIN addresses |-> i],
                          LAMBDA i : addresses[i] = address)
    IN [k \in DOMAIN mine |-> key(mine[k])]

\* each output derived on its own
DeriveScriptsAlone(addresses, secret) ==
    [i \in DOMAIN addresses |->
        RecipientPubkeys(<<addresses[i]>>, secret, addresses[i])[1]]

\* batch_derive_sp_scripts: one derivation for all outputs, then a counter per
\* address picks the key of each output
DeriveScripts(addresses, secret) ==
    [i \in DOMAIN addresses |->
        LET k == Cardinality({j \in 1 .. i : addresses[j] = addresses[i]})
        IN RecipientPubkeys(addresses, secret, addresses[i])[k]]

(************************ The finalised transaction *************************)

Spend(type, output, sig, keys, items, annex, internal) ==
    [type |-> type, output |-> output, sig |-> sig, keys |-> keys,
     items |-> items, annex |-> annex, internal |-> internal]

\* what an input of each kind looks like once signed: the type and the key or
\* hash of its script, its scriptSig, the keys it reveals and its witness
Finalized(coin, spend) ==
    LET pub(compressed) == <<[key |-> coin.key, compressed |-> compressed]>>
        tap == XOnly(Bip352InputKey([coin EXCEPT !.held = TRUE], spend).key)
    IN CASE coin.kind = "pkh" -> Spend("p2pkh", coin.key, "keys", pub(TRUE), 0, FALSE, 0)
         [] coin.kind = "pkh_uncompressed" ->
                Spend("p2pkh", coin.key, "keys", pub(FALSE), 0, FALSE, 0)
         [] coin.kind = "wpkh" -> Spend("p2wpkh", coin.key, "empty", pub(TRUE), 2, FALSE, 0)
         [] coin.kind = "sh_wpkh" -> Spend("p2sh", coin.key, "wpkh", pub(TRUE), 2, FALSE, 0)
         [] coin.kind = "sh_multi" -> Spend("p2sh", coin.key, "script", <<>>, 0, FALSE, 0)
         [] coin.kind \in {"tr", "sp"} -> Spend("p2tr", tap, "empty", <<>>, 1, FALSE, 0)
         [] coin.kind = "tr_script" ->
                Spend("p2tr", tap, "empty", <<>>, 3, TRUE, XOnly(coin.key))
         [] coin.kind = "tr_nums" ->
                Spend("p2tr", coin.key, "empty", <<>>, 3, FALSE, NumsH)
         [] OTHER -> Spend("other", coin.key, "empty", <<>>, 2, FALSE, 0)

(******************************* The receiver *******************************)

\* compressed_pubkey over the keys an input reveals
CompressedKey(in) ==
    \E i \in DOMAIN in.keys : in.keys[i].compressed /\ in.keys[i].key = in.output

\* a taproot input counts with its even output key, unless it is a script path
\* spend under the internal key nobody holds
EligibleTaproot(in) ==
    LET stack == in.items - (IF in.annex THEN 1 ELSE 0)
    IN IF in.sig # "empty" \/ stack = 0 THEN Failed
       ELSE IF stack > 1 /\ in.internal = NumsH THEN NoKey
       ELSE in.output

\* eligible_input_pubkey
EligibleKey(in) ==
    IF in.type = "p2pkh" THEN
        IF in.items # 0 \/ in.sig = "empty" THEN Failed
        ELSE IF CompressedKey(in) THEN in.output ELSE NoKey
    ELSE IF in.type = "p2sh" THEN
        IF in.sig # "wpkh" THEN NoKey
        ELSE IF CompressedKey(in) THEN in.output ELSE Failed
    ELSE IF in.type = "p2wpkh" THEN
        IF in.sig = "empty" /\ CompressedKey(in) THEN in.output ELSE Failed
    ELSE IF in.type = "p2tr" THEN EligibleTaproot(in)
    ELSE NoKey

\* calculate_tweak_data over the eligible keys
TweakData(ins, outpoints) ==
    LET keys == [i \in DOMAIN ins |-> EligibleKey(ins[i])]
        sum == Total(SelectSeq(keys, LAMBDA k : k # NoKey))
    IN IF (\E i \in DOMAIN keys : keys[i] = Failed) \/ sum = 0 THEN Failed
       ELSE Ecdh(InputHash(Smallest(outpoints), sum), sum)

\* Receiver: scan and spend keys, and the labels added, the change one first
Labels(r) == {LabelHash(r.scan, m) : m \in r.labels \cup {0}}

\* get_receiving_address, get_change_address and the labelled addresses
AddressOf(r, m) ==
    [scan |-> r.scan,
     spend |-> IF m = NoKey THEN r.spend ELSE (r.spend + LabelHash(r.scan, m)) % Q]

\* candidate_spend_points, candidate_output_spks: the outputs k = 0 can have
CandidateOutputs(r, shared) ==
    {XOnly((TweakAt(shared, 0) + r.spend + l) % Q) : l \in Labels(r) \cup {0}}

\* the labels an output matches at P, with either parity
LabelsAt(r, p, out) == {l \in Labels(r) : l \in {(out + Neg(p)) % Q, (Neg(out) + Neg(p)) % Q}}

\* scan_transaction from position n: the outputs found and their key tweaks
RECURSIVE ScanFrom(_, _, _, _)
ScanFrom(r, shared, outs, n) ==
    LET t == TweakAt(shared, n)
        p == (t + r.spend) % Q
        labelled == {i \in DOMAIN outs : LabelsAt(r, p, outs[i]) # {}}
        first == CHOOSE i \in labelled : \A j \in labelled : i <= j
        label == CHOOSE l \in LabelsAt(r, p, outs[first]) : TRUE
        found == IF \E i \in DOMAIN outs : outs[i] = XOnly(p)
                 THEN {[out |-> XOnly(p), tweak |-> t]}
                 ELSE IF labelled = {} THEN {}
                 ELSE {[out |-> outs[first], tweak |-> (t + label) % Q]}
    IN IF found = {} THEN {} ELSE found \cup ScanFrom(r, shared, outs, n + 1)

\* sign_sp_inputs: the key a found output is signed with
SigningKey(r, tweak) == (r.spend + tweak) % Q

(******************************* Properties *********************************)

\* Sender and receiver compute one shared secret: whenever the sender can sum
\* its input keys (`bip352_input_key`), a receiver that sees the finalised
\* inputs only (`eligible_input_pubkey`) counts the same ones, odd taproot keys
\* negated on one side and lifted on the other.  An input left out on one side
\* alone would pay to a key nobody finds.
SharedSecretAgrees(coins, spend, scan) ==
    LET partial == PartialSecret(coins, spend)
        tweak == TweakData([i \in DOMAIN coins |-> Finalized(coins[i], spend)],
                           Outpoints(coins))
    IN partial # Failed =>
        tweak # Failed /\ Ecdh(scan, partial) = Ecdh(tweak, scan)

\* A receiver finds exactly the outputs paid to it, labelled or not, however
\* many there are and whoever else is paid, its filter candidates include one
\* of them, and each tweak found makes a key that spends its output.
FindsItsOutputs(r, addresses, secret) ==
    LET outs == DeriveScripts(addresses, secret)
        shared == Ecdh(secret, r.scan)
        found == ScanFrom(r, shared, outs, 0)
        mine == {outs[i] : i \in {j \in DOMAIN addresses : addresses[j].scan = r.scan}}
    IN /\ Cardinality(mine) =
            Cardinality({j \in DOMAIN addresses : addresses[j].scan = r.scan})
       /\ {f.out : f \in found} = mine
       /\ mine # {} => CandidateOutputs(r, shared) \cap mine # {}
       /\ \A f \in found : XOnly(SigningKey(r, f.tweak)) = f.out
================================================================================
