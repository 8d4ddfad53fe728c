----------------------------- MODULE HotSigner ------------------------------
(***************************************************************************)
(* How a hot signer signs a partially signed transaction: descriptor by    *)
(* descriptor, input by input, until an input is malformed.                *)
(*                                                                         *)
(* An input is the record [kind, wit, all, keys, spk]: which fields it     *)
(* carries, whether the output it spends is known, whether it asks for     *)
(* SIGHASH_ALL, its key origins, and the script it spends, as the          *)
(* descriptor and the account path it derives from.  A key is [fg, ours,   *)
(* leaf, change, index]: the fingerprint of its origin, whether the key at *)
(* that path is the one in the input (two seeds may share a fingerprint),  *)
(* whether it signs a leaf of the script tree, and its path; `change`      *)
(* above 1 is a path that is no account path.                              *)
(***************************************************************************)
EXTENDS Naturals, Sequences, SequencesExt

Spk(d, key) == [desc |-> d, change |-> key.change, index |-> key.index]

\* The last two steps of a path: 0 is receive, 1 is change.
AccountPathOk(key) == key.change \in {0, 1}

\* The keys of the input that carry the signer's fingerprint, in map order.
OwnKeys(fg, in) == SelectSeq(in.keys, LAMBDA k : k.fg = fg)

Nothing == [err |-> "ok", sigs |-> {}]

\* One key of a segwit input, after the keys before it.
SignSegwitKey(d, in, done, key) ==
    IF done.err # "ok" \/ ~key.ours THEN done
    ELSE IF ~AccountPathOk(key) THEN [done EXCEPT !.err = "path"]
    ELSE IF in.spk # Spk(d, key) THEN [done EXCEPT !.err = "spk"]
    ELSE [done EXCEPT !.sigs = @ \cup {key}]

SignInputSegwit(fg, d, in) ==
    IF ~in.wit THEN [Nothing EXCEPT !.err = "witness"]
    ELSE IF ~in.all THEN [Nothing EXCEPT !.err = "sighash"]
    ELSE FoldLeft(LAMBDA done, k : SignSegwitKey(d, in, done, k),
                  Nothing, OwnKeys(fg, in))

\* The internal key is the first of the keys, when its origin is known.
SignInputTapkey(fg, d, in) ==
    IF ~in.wit THEN [Nothing EXCEPT !.err = "witness"]
    ELSE IF in.keys = <<>> THEN [Nothing EXCEPT !.err = "notap"]
    ELSE LET key == in.keys[1] IN
         IF key.fg # fg THEN Nothing
         ELSE IF ~AccountPathOk(key) THEN [Nothing EXCEPT !.err = "path"]
         ELSE IF in.spk # Spk(d, key) THEN [Nothing EXCEPT !.err = "spk"]
         ELSE IF ~key.ours THEN [Nothing EXCEPT !.err = "internal"]
         ELSE [Nothing EXCEPT !.sigs = {key}]

\* Every leaf of every key with the signer's fingerprint, script unchecked.
SignInputTaptree(fg, in) ==
    IF ~in.wit THEN [Nothing EXCEPT !.err = "witness"]
    ELSE [Nothing EXCEPT
            !.sigs = {k \in ToSet(OwnKeys(fg, in)) : k.leaf}]

\* The key spend, then the leaves.
SignInputTap(fg, d, in) ==
    LET r == SignInputTapkey(fg, d, in) IN
    IF r.err # "ok" THEN r
    ELSE [r EXCEPT !.sigs = @ \cup SignInputTaptree(fg, in).sigs]

SignInput(fg, d, in) ==
    CASE in.kind = "segwit" -> SignInputSegwit(fg, d, in)
      [] in.kind = "taptree" -> SignInputTaptree(fg, in)
      [] in.kind = "tapkey" -> SignInputTap(fg, d, in)
      [] in.kind = "plain" -> Nothing

\* An error other than a script of another descriptor ends the descriptor's
\* turn: the inputs after it are left as they are.
SignOne(fg, d, ins, sofar, i) ==
    IF sofar.stop THEN sofar
    ELSE LET r == SignInput(fg, d, ins[i]) IN
         [stop |-> r.err \notin {"ok", "spk"},
          sigs |-> [sofar.sigs EXCEPT ![i] = @ \cup r.sigs]]

InnerSign(fg, d, ins, sigs) ==
    FoldLeft(LAMBDA sofar, i : SignOne(fg, d, ins, sofar, i),
             [stop |-> FALSE, sigs |-> sigs],
             [i \in 1..Len(ins) |-> i]).sigs

\* All the descriptors of the signer, in order; what fails is logged.
SignPsbt(fg, descs, ins) ==
    FoldLeft(LAMBDA sigs, d : InnerSign(fg, d, ins, sigs),
             [i \in 1..Len(ins) |-> {}], descs)

-----------------------------------------------------------------------------
WellFormed(in) ==
    /\ in.wit
    /\ in.kind = "segwit" => in.all
    /\ in.kind = "tapkey" => in.keys # <<>> /\ in.keys[1].ours
    /\ \A k \in ToSet(in.keys) : AccountPathOk(k)

(* Whatever other wallets and descriptors take part in the transaction, an *)
(* input that spends a script of one of the signer's descriptors is signed *)
(* with the key of that script, and no signature is made for a segwit or   *)
(* taproot key spend of any other script.                                  *)
SignsItsOwn(fg, descs, ins) ==
    (\A i \in 1..Len(ins) : WellFormed(ins[i])) =>
        \A i \in 1..Len(ins) :
            ins[i].kind \in {"segwit", "tapkey"} =>
                LET k == ins[i].keys[1]
                    mine == k.fg = fg /\ k.ours /\
                            \E d \in ToSet(descs) : ins[i].spk = Spk(d, k)
                IN  k \in SignPsbt(fg, descs, ins)[i] <=> mine
=============================================================================
