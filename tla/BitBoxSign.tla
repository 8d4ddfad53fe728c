----------------------------- MODULE BitBoxSign -----------------------------
(***************************************************************************)
(* Signing a PSBT with a BitBox02 (hwi/src/bitbox/api/btc.rs).  The host   *)
(* finds its key in every input, sorts the inputs by script configuration  *)
(* and then answers what the device asks for: the inputs once, with the    *)
(* transactions they spend unless all of them are taproot, the outputs,    *)
(* and the inputs a second time, when each is signed.  An ECDSA signature  *)
(* is made in two exchanges, with a nonce the host contributes.            *)
(*                                                                         *)
(* One step is one exchange.  The device is external: it is the sequence   *)
(* of the things its firmware asks for.                                    *)
(***************************************************************************)
EXTENDS Integers, Sequences, SequencesExt

CONSTANTS Psbts,    \* PSBTs a consumer may ask a signature for
          Ours      \* the fingerprint of the device

VARIABLES psbt,     \* inputs and outputs; an input carries its signatures
          policy,   \* the script configuration of sign_tx's policy, or none
          tx,       \* the transaction made of the PSBT: configs, inputs' and
                    \* outputs' configurations, the keys of the inputs
          device,   \* what the device has still to ask
          host,     \* btc_sign's variables: second pass, signatures
          result

vars == <<psbt, policy, tx, device, host, result>>

Simple(type, account) == <<"simple", type, account>>
Policies == {<<>>, <<"policy", "wsh", 0>>, <<"policy", "tr", 0>>}
NoTx == [configs |-> <<>>, ins |-> <<>>, outs |-> <<>>, keys |-> <<>>]

\* find_our_key: the first taproot key with our fingerprint decides, then
\* the first other one.
Mine(keys) == SelectSeq(keys, LAMBDA k : k.fg = Ours)
FindOurKey(info) ==
    LET found(kind, k) == [kind |-> kind, key |-> k.key,
                           account |-> k.account]
        none == [kind |-> "none", key |-> 0, account |-> 0]
    IN  IF Mine(info.tap) # <<>>
        THEN LET k == Mine(info.tap)[1]
             IN  IF k.key = info.internal
                 THEN IF k.leaves = 0 THEN found("internal", k) ELSE none
                 ELSE IF k.leaves = 1 THEN found("script", k) ELSE none
        ELSE IF Mine(info.bip32) # <<>>
        THEN found("segwit", Mine(info.bip32)[1])
        ELSE none

\* script_config_from_utxo: empty for a script it does not recognise, and for
\* a p2wsh one, which ends the thread.
ScriptConfig(spk, account) ==
    IF spk \in {"wpkh", "sh_wpkh", "tr"} THEN Simple(spk, account) ELSE <<>>

\* One round of from_psbt's loops: the configuration of an input or an
\* output of ours is added unless it is there, and its place remembered.
AddConfig(acc, cfg) ==
    IF cfg \in Range(acc.configs)
    THEN Append(acc.at, CHOOSE i \in DOMAIN acc.configs :
                            acc.configs[i] = cfg)
    ELSE Append(acc.at, Len(acc.configs) + 1)
AddInfo(acc, info) ==
    LET k == FindOurKey(info)
        cfg == ScriptConfig(info.spk, k.account)
    IN  IF k.kind = "none"
        THEN [acc EXCEPT !.at = Append(@, 0)]
        ELSE IF policy # <<>>
        THEN [acc EXCEPT !.at = Append(@, 1)]
        ELSE [acc EXCEPT !.at = AddConfig(acc, cfg),
                         !.configs = IF cfg \in Range(@) THEN @
                                     ELSE Append(@, cfg)]

\* Transaction::from_psbt.
FromPsbt(x) ==
    LET start == [configs |-> IF policy = <<>> THEN <<>> ELSE <<policy>>,
                  at |-> <<>>]
        both == FoldLeft(AddInfo, start, x.inputs \o x.outputs)
        n == Len(x.inputs)
    IN  [configs |-> both.configs,
         ins |-> SubSeq(both.at, 1, n),
         outs |-> SubSeq(both.at, n + 1, Len(both.at)),
         keys |-> [i \in 1..n |-> FindOurKey(x.inputs[i])]]

\* ... which fails on an input without a key of ours, on an input or an
\* output of ours it has no configuration for, and on another output it has
\* no type for.
Refused(x, t) ==
    \/ \E i \in DOMAIN t.keys : t.keys[i].kind = "none"
    \/ <<>> \in Range(t.configs)
    \/ \E i \in DOMAIN t.outs : t.outs[i] = 0 /\ x.outputs[i].spk = "other"

IsSchnorr(cfg) == cfg[2] = "tr"
Schnorr(i) == IsSchnorr(tx.configs[tx.ins[i]])

\* External: what the firmware asks for, in order.
Asks(x, t) ==
    LET ask(type, i, j) == [type |-> type, index |-> i, prev |-> j]
        prevs(i) ==
            IF \A c \in Range(t.configs) : IsSchnorr(c) THEN <<>>
            ELSE <<ask("prevtx init", i, 0)>>
                 \o [j \in 1..x.inputs[i].prev |-> ask("prevtx input", i, j)]
                 \o [j \in 1..x.inputs[i].prev |-> ask("prevtx output", i, j)]
        first == [i \in DOMAIN x.inputs |-> <<ask("input", i, 0)>> \o prevs(i)]
        second == [i \in DOMAIN x.inputs |-> ask("input", i, 0)]
    IN  FlattenSeq(first)
        \o [i \in DOMAIN x.outputs |-> ask("output", i, 0)]
        \o second \o <<ask("done", 0, 0)>>

-----------------------------------------------------------------------------
\* sign_tx and btc_sign_psbt up to the first request.
Begin ==
    /\ result = "none"
    /\ tx' = FromPsbt(psbt)
    /\ IF Refused(psbt, tx')
       THEN result' = "refused" /\ UNCHANGED device
       ELSE /\ result' = "signing"
            /\ device' = [asks |-> Asks(psbt, tx'), commitment |-> FALSE]
    /\ UNCHANGED <<psbt, policy, host>>

Ask == device.asks[1]
Asked(type) == result = "signing" /\ Ask.type = type
Served == device' = [asks |-> Tail(device.asks), commitment |-> FALSE]

\* A request of the device for an input.  In the second pass a signature is
\* due: at once, or once the host nonce is revealed.
Input ==
    LET antiklepto == host.pass2 /\ ~Schnorr(Ask.index)
        last == Ask.index = Len(tx.ins)
    IN  /\ Asked("input")
        /\ ~device.commitment
        /\ IF antiklepto
           THEN device' = [device EXCEPT !.commitment = TRUE] /\ UNCHANGED host
           ELSE /\ Served
                /\ host' = [pass2 |-> host.pass2 \/ last,
                            sigs |-> IF ~host.pass2 THEN host.sigs
                                     ELSE Append(host.sigs,
                                            [of |-> Ask.index,
                                             nonce |-> FALSE])]
        /\ UNCHANGED <<psbt, policy, tx, result>>

\* AntikleptoSignature: the nonce is revealed and the signature verified
\* against it.
HostNonce ==
    /\ Asked("input")
    /\ device.commitment
    /\ Served
    /\ host' = [pass2 |-> TRUE,
                sigs |-> Append(host.sigs, [of |-> Ask.index,
                                            nonce |-> TRUE])]
    /\ UNCHANGED <<psbt, policy, tx, result>>

\* The previous transaction of an input: a PSBT without it cannot go on.
PrevTx ==
    /\ Asked("prevtx init") \/ Asked("prevtx input") \/ Asked("prevtx output")
    /\ IF psbt.inputs[Ask.index].prev = 0
       THEN result' = "missing" /\ UNCHANGED device
       ELSE Served /\ UNCHANGED result
    /\ UNCHANGED <<psbt, policy, tx, host>>

Output ==
    /\ Asked("output")
    /\ Served
    /\ UNCHANGED <<psbt, policy, tx, host, result>>

\* Done: btc_sign_psbt puts the signatures in their inputs, in order.
Done ==
    /\ Asked("done")
    /\ LET n == IF Len(host.sigs) < Len(tx.keys) THEN Len(host.sigs)
                ELSE Len(tx.keys)
       IN  psbt' = [psbt EXCEPT !.inputs = [i \in DOMAIN @ |->
                       IF i <= n
                       THEN [@[i] EXCEPT !.sigs =
                                @ \cup {[key |-> tx.keys[i], sig |->
                                         host.sigs[i]]}]
                       ELSE @[i]]]
    /\ result' = "ok"
    /\ UNCHANGED <<policy, tx, device, host>>

\* The user aborts, or the exchange fails.
Abort ==
    /\ result = "signing"
    /\ result' = "aborted"
    /\ UNCHANGED <<psbt, policy, tx, device, host>>

BitBoxInit ==
    /\ \E x \in Psbts : psbt = x
    /\ policy \in Policies
    /\ tx = NoTx
    /\ device = [asks |-> <<>>, commitment |-> FALSE]
    /\ host = [pass2 |-> FALSE, sigs |-> <<>>]
    /\ result = "none"

BitBoxNext ==
    \/ Begin \/ Input \/ HostNonce \/ PrevTx \/ Output \/ Done \/ Abort

BitBoxSpec == BitBoxInit /\ [][BitBoxNext]_vars

-----------------------------------------------------------------------------
\* A PSBT the device signed has in every input one signature, made for that
\* input, under a key of the device, and with the host's nonce unless it is a
\* Schnorr signature; a PSBT it did not sign has none (btc_sign,
\* btc_sign_psbt).
EveryInputIsSigned ==
    \A i \in DOMAIN psbt.inputs :
        LET x == psbt.inputs[i]
            taproot == IF policy = <<>> THEN x.spk = "tr"
                       ELSE policy[2] = "tr"
        IN  IF result # "ok" THEN x.sigs = {}
            ELSE \E k \in Range(x.tap) \cup Range(x.bip32), s \in x.sigs :
                    /\ x.sigs = {s}
                    /\ k.fg = Ours
                    /\ s.key.key = k.key
                    /\ s.sig = [of |-> i, nonce |-> ~taproot]
=============================================================================
