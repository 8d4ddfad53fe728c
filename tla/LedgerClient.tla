---------------------------- MODULE LedgerClient ----------------------------
(***************************************************************************)
(* The host side of the Ledger Bitcoin application's protocol              *)
(* (hwi/src/ledger).  A request carries only commitments: the id of the    *)
(* wallet policy and the roots of Merkle trees over the fields of the      *)
(* PSBT.  The device then interrupts the request to ask the host for what  *)
(* they commit to, a preimage or a leaf and its proof at a time, and for   *)
(* the rest of an answer that did not fit one message.                     *)
(*                                                                         *)
(* A byte string is an element: a tag that tells it from the others, its   *)
(* length, and what a device that reads it learns, the lists and the       *)
(* hashes it commits to.  A hash is the tuple of what was hashed.  One     *)
(* step is one exchange.  The device is external: it asks for what it was  *)
(* given a commitment of, and reads an answer to its end before it asks    *)
(* for anything else.                                                      *)
(***************************************************************************)
EXTENDS Integers, Sequences, SequencesExt, FiniteSets

CONSTANTS Psbts,        \* the PSBTs a consumer may ask a signature for
          Policy,       \* [keys, template]: lengths of the wallet's strings
          Apdu,         \* bytes of a response (255)
          MoreRoom,     \* bytes of elements GET_MORE_ELEMENTS returns (253)
          ProofFirst,   \* hashes in the answer to GET_MERKLE_LEAF_PROOF (6)
          MaxAsks       \* bound: interruptions of one request

VARIABLES psbt,     \* the consumer's PSBT: its maps, as the lengths of the
                    \* values of their fields
          intpr,    \* the ClientCommandInterpreter of the request
          device,   \* what the device knows, and the answer it is reading
          call      \* the request and its result

vars == <<psbt, intpr, device, call>>

(***************************************************************************)
(* Merkle trees (merkle.rs).                                               *)
(***************************************************************************)
Hash(preimage) == <<preimage>>
Node(l, r) == <<l, r>>

PowersOfTwo == {1, 2, 4, 8, 16, 32, 64, 128}
LargestPowerOf2LessThan(n) == Max({p \in PowersOfTwo : p < n})

RECURSIVE Tree(_)
Tree(leaves) ==
    IF Len(leaves) = 1
    THEN [height |-> 0, value |-> leaves[1], kids |-> <<>>]
    ELSE LET k == LargestPowerOf2LessThan(Len(leaves))
             l == Tree(SubSeq(leaves, 1, k))
             r == Tree(SubSeq(leaves, k + 1, Len(leaves)))
         IN  [height |-> l.height + 1, value |-> Node(l.value, r.value),
              kids |-> <<l, r>>]

\* get_proof: the siblings from the leaf up; the side is told from the
\* height of the left subtree, which is a full one.
RECURSIVE GetProof(_, _)
GetProof(tree, i) ==
    IF tree.kids = <<>> THEN <<>>
    ELSE LET l == tree.kids[1]
             r == tree.kids[2]
         IN  IF i < 2 ^ l.height
             THEN Append(GetProof(l, i), r.value)
             ELSE Append(GetProof(r, i - 2 ^ l.height), l.value)

\* External: how the device folds a leaf and its proof to a root.
RECURSIVE RootFrom(_, _, _, _)
RootFrom(leaf, i, n, proof) ==
    IF n = 1 \/ proof = <<>> THEN leaf
    ELSE LET k == LargestPowerOf2LessThan(n)
             s == Last(proof)
         IN  IF i < k THEN Node(RootFrom(leaf, i, k, Front(proof)), s)
             ELSE Node(s, RootFrom(leaf, i - k, n - k, Front(proof)))

(***************************************************************************)
(* What the host commits to.  An element of a list is hashed after a zero  *)
(* byte.                                                                   *)
(***************************************************************************)
Element(tag, len, lists, hashes) ==
    [tag |-> tag, len |-> len, lists |-> lists, hashes |-> hashes]
Plain(kind, t, k, len) == Element(<<kind, t, k>>, len, {}, {})
Listed(el) == [zero |-> 1, el |-> el]
Bare(el) == [zero |-> 0, el |-> el]
Size(p) == p.zero + p.el.len

LeavesOf(els) == [i \in DOMAIN els |-> Hash(Listed(els[i]))]
ListOf(els) == [root |-> Tree(LeavesOf(els)).value, size |-> Len(els)]

\* The order in which the three get_v2_*_pairs functions push the types of
\* pairs; 252 is a proprietary pair and 253 an unknown one.
GlobalOrder == <<1, 3, 4, 5, 2, 251, 252, 253>>
InputOrder == <<0, 1, 2, 3, 4, 5, 6, 7, 14, 15, 16, 8, 10, 11, 12, 13, 19,
                20, 21, 22, 23, 24, 252, 253>>
OutputOrder == <<0, 1, 2, 3, 4, 5, 6, 7, 252, 253>>

\* The V2 fields a V0 PSBT holds in its unsigned transaction.
GlobalFixed == {2, 3, 4, 5, 251}
InputFixed == {14, 15, 16}
OutputFixed == {3, 4}

\* The pairs of one map: `fields` gives the value's length for each
\* <<type, key>> present, `owner` tells this map's values from another's.
Pairs(order, fixed, fields, owner) ==
    LET present == DOMAIN fields \cup {<<t, 0>> : t \in fixed}
        keys(t) == SetToSortSeq({p[2] : p \in {q \in present : q[1] = t}}, <)
        pair(p) ==
            [key   |-> Plain("key", p[1], p[2], 1),
             value |-> Plain(owner, p[1], p[2],
                             IF p \in DOMAIN fields THEN fields[p] ELSE 4)]
    IN  FlattenSeq([n \in DOMAIN order |->
                       [j \in DOMAIN keys(order[n]) |->
                           pair(<<order[n], keys(order[n])[j]>>)]])

SortedByKey(pairs) ==
    SortSeq(pairs, LAMBDA a, b :
        \/ a.key.tag[2] < b.key.tag[2]
        \/ a.key.tag[2] = b.key.tag[2] /\ a.key.tag[3] < b.key.tag[3])

Keys(pairs) == [i \in DOMAIN pairs |-> pairs[i].key]
Values(pairs) == [i \in DOMAIN pairs |-> pairs[i].value]

\* get_merkleized_map_commitment.
MapCommitment(pairs, owner) ==
    LET s == SortedByKey(pairs)
    IN  Element(<<owner, 0, 0>>, 65, {ListOf(Keys(s)), ListOf(Values(s))}, {})

(***************************************************************************)
(* The interpreter's tables.                                               *)
(***************************************************************************)
NewInterpreter == [preimages |-> {}, trees |-> {}, queue |-> <<>>,
                   yielded |-> <<>>]

AddKnownPreimage(p, el) ==
    [p EXCEPT !.preimages = @ \cup {Bare(el)}]
AddKnownList(p, els) ==
    [p EXCEPT !.preimages = @ \cup {Listed(e) : e \in Range(els)},
              !.trees = @ \cup {[root |-> ListOf(els).root,
                                   leaves |-> LeavesOf(els)]}]

AddKnownMapping(p, pairs) ==
    LET s == SortedByKey(pairs)
    IN  AddKnownList(AddKnownList(p, Keys(s)), Values(s))

(***************************************************************************)
(* execute.  An answer is the data the device reads: how much of it there  *)
(* is in all and the part of it in this message.                           *)
(***************************************************************************)
VarIntLen(n) == IF n < 253 THEN 1 ELSE IF n < 65536 THEN 3 ELSE 5

Bytes(p, a, b) == [i \in 1..(b - a + 1) |-> [len |-> 1, of |-> Hash(p),
                                             at |-> a + i - 1]]
Hashes(hs) == [i \in DOMAIN hs |-> [len |-> 32, of |-> hs[i], at |-> 0]]

Failure(p) == [intpr |-> p, ok |-> FALSE, due |-> 0, part |-> <<>>,
               leaf |-> <<>>]
Answer(p, due, part, leaf) == [intpr |-> p, ok |-> TRUE, due |-> due,
                               part |-> part, leaf |-> leaf]

GetPreimage(p, hash) ==
    IF ~\E q \in p.preimages : Hash(q) = hash THEN Failure(p)
    ELSE LET q == CHOOSE q \in p.preimages : Hash(q) = hash
             payload == Min({Apdu - VarIntLen(Size(q)) - 1, Size(q)})
         IN  Answer([p EXCEPT !.queue = @ \o Bytes(q, payload + 1, Size(q))],
                    Size(q), Bytes(q, 1, payload), <<>>)

\* `find`: the leaves of the tree with this root; equal roots have equal
\* leaves.
LeavesAt(p, root) == {t.leaves : t \in {u \in p.trees : u.root = root}}

GetMerkleLeafProof(p, list, i) ==
    IF p.queue # <<>> \/ LeavesAt(p, list.root) = {} THEN Failure(p)
    ELSE LET leaves == CHOOSE t \in LeavesAt(p, list.root) : TRUE
             proof == Hashes(GetProof(Tree(leaves), i))
             n == Min({ProofFirst, Len(proof)})
         IN  IF i >= list.size \/ list.size # Len(leaves) THEN Failure(p)
             ELSE Answer([p EXCEPT !.queue = SubSeq(proof, n + 1, Len(proof))],
                         Len(proof), SubSeq(proof, 1, n), leaves[i + 1])

GetMerkleLeafIndex(p, list, leaf) ==
    IF ~\E t \in LeavesAt(p, list.root) : leaf \in Range(t) THEN Failure(p)
    ELSE LET leaves == CHOOSE t \in LeavesAt(p, list.root) : TRUE
             i == Min({j \in DOMAIN leaves : leaves[j] = leaf})
         IN  Answer(p, 0, <<>>, leaves[i])

GetMoreElements(p) ==
    IF \/ p.queue = <<>>
       \/ \E j \in DOMAIN p.queue : p.queue[j].len # p.queue[1].len
    THEN Failure(p)
    ELSE LET n == Min({MoreRoom \div p.queue[1].len, Len(p.queue)})
         IN  Answer([p EXCEPT !.queue = SubSeq(@, n + 1, Len(@))],
                    0, SubSeq(p.queue, 1, n), <<>>)

Yield(p, y) == Answer([p EXCEPT !.yielded = Append(@, y)], 0, <<>>, <<>>)

(***************************************************************************)
(* The requests (client.rs, command.rs, wallet.rs).                        *)
(***************************************************************************)
KeyEls == [i \in DOMAIN Policy.keys |-> Plain("xpub", i, 0, Policy.keys[i])]
Template == Plain("template", 0, 0, Policy.template)
\* WalletPolicy::serialize, version 2: the hash of the template and the
\* root of the keys.
Serialized == Element(<<"policy", 0, 0>>, 75, {ListOf(KeyEls)},
                      {Hash(Bare(Template))})
PolicyId == Hash(Bare(Serialized))

WalletTables ==
    AddKnownPreimage(
        AddKnownList(AddKnownPreimage(NewInterpreter, Serialized), KeyEls),
        Template)

GlobalPairs(x) == Pairs(GlobalOrder, GlobalFixed, x.global, "global")
InputPairs(x, i) == Pairs(InputOrder, InputFixed, x.inputs[i], "input")
OutputPairs(x, i) == Pairs(OutputOrder, OutputFixed, x.outputs[i], "output")
InputMaps(x) == [i \in DOMAIN x.inputs |-> InputPairs(x, i)]
OutputMaps(x) == [i \in DOMAIN x.outputs |-> OutputPairs(x, i)]
Commitments(maps, owner) ==
    [i \in DOMAIN maps |-> MapCommitment(maps[i], owner)]

\* sign_psbt up to its request: the tables it fills, in order.
SignTables(x) ==
    LET global == AddKnownMapping(WalletTables, GlobalPairs(x))
        ins == FoldLeft(AddKnownMapping, global, InputMaps(x))
        insRoot == AddKnownList(ins, Commitments(InputMaps(x), "in"))
        outs == FoldLeft(AddKnownMapping, insRoot, OutputMaps(x))
    IN  AddKnownList(outs, Commitments(OutputMaps(x), "out"))

\* What each command carries.
SignKnows(x) ==
    [lists  |-> MapCommitment(GlobalPairs(x), "global").lists \cup
                  {ListOf(Commitments(InputMaps(x), "in")),
                   ListOf(Commitments(OutputMaps(x), "out"))},
     hashes |-> {PolicyId}]
RegisterKnows == [lists |-> Serialized.lists, hashes |-> Serialized.hashes]
AddressKnows == [lists |-> {}, hashes |-> {PolicyId}]

\* A request is under way with these tables and this knowledge.
Request(name, tables, knows) ==
    /\ call' = [name |-> name, result |-> "pending"]
    /\ intpr' = tables
    /\ device' = [lists |-> knows.lists, hashes |-> knows.hashes,
                  leaves |-> {}, ask |-> <<"none">>, due |-> 0,
                  parts |-> <<>>, asks |-> 0]

\* sign_tx and its client's sign_psbt.
SignTx(x) ==
    /\ call.name = "none"
    /\ Request("sign", SignTables(x), SignKnows(x))
    /\ UNCHANGED psbt

RegisterWallet ==
    /\ call.name = "none"
    /\ Request("register", WalletTables, RegisterKnows)
    /\ UNCHANGED psbt

\* display_address of a miniscript, and what register_wallet ends with.
GetWalletAddress ==
    /\ call.name = "none"
    /\ Request("address", WalletTables, AddressKnows)
    /\ UNCHANGED psbt

(***************************************************************************)
(* The device's side of an exchange.                                       *)
(***************************************************************************)
Reading == Len(device.parts) < device.due

\* The device has read the answer to what it asked: what it learns.
Learns(ask, parts) ==
    IF ask[1] = "preimage"
    THEN LET q == CHOOSE q \in intpr.preimages : Hash(q) = ask[2]
         IN  [lists |-> q.el.lists, hashes |-> q.el.hashes]
    ELSE [lists |-> {}, hashes |-> {}]

\* make_request's loop: the host executes the device's command and sends
\* its answer, or ends the request with the interpreter's error.
Interrupt(ask, r) ==
    IF ~r.ok
    THEN /\ call' = [call EXCEPT !.result = "interpreter error"]
         /\ intpr' = r.intpr
         /\ UNCHANGED <<psbt, device>>
    ELSE LET more == ask[1] = "more"
             now == IF more THEN device.ask ELSE ask
             due == IF more THEN device.due ELSE r.due
             parts == IF more THEN device.parts \o r.part ELSE r.part
             l == IF Len(parts) >= due THEN Learns(now, parts)
                  ELSE [lists |-> {}, hashes |-> {}]
             leaf == IF now[1] = "proof" /\ ~more
                     THEN {<<now[2], r.leaf>>} ELSE {}
         IN  /\ intpr' = r.intpr
             /\ device' = [device EXCEPT
                    !.ask = now, !.due = due, !.parts = parts,
                    !.asks = @ + (IF more THEN 0 ELSE 1),
                    !.leaves = @ \cup leaf,
                    !.lists = @ \cup l.lists,
                    !.hashes = @ \cup l.hashes \cup {f[2] : f \in leaf}]
             /\ UNCHANGED <<psbt, call>>

Ready == /\ call.result = "pending"
         /\ ~Reading
         /\ device.asks < MaxAsks

AskPreimage(h) ==
    /\ Ready
    /\ Interrupt(<<"preimage", h>>, GetPreimage(intpr, h))

AskLeafProof(list, i) ==
    /\ Ready
    /\ Interrupt(<<"proof", list, i>>, GetMerkleLeafProof(intpr, list, i))

AskLeafIndex(list, leaf) ==
    /\ Ready
    /\ Interrupt(<<"index", leaf>>, GetMerkleLeafIndex(intpr, list, leaf))

AskMore ==
    /\ call.result = "pending"
    /\ Reading
    /\ Interrupt(<<"more">>, GetMoreElements(intpr))

\* A signature: the input it is for and the field PartialSignature's
\* from_slice puts it in, told from the length of the key; 0 stands for a
\* result of at most one byte.
AskYield(y) ==
    /\ Ready
    /\ call.name = "sign"
    /\ Interrupt(<<"yield">>, Yield(intpr, y))

End(result) == /\ call' = [call EXCEPT !.result = result]
               /\ UNCHANGED <<intpr, device>>

\* The device denies the request or goes away.
Refuse ==
    /\ call.result = "pending"
    /\ \/ End("device error")
       \/ End("transport error")
    /\ UNCHANGED psbt

\* sign_tx's loop over the signatures: one for an input the PSBT lacks ends
\* it, with those before it in place.
Lost(ys) == {j \in DOMAIN ys : ys[j].input \notin DOMAIN psbt.inputs}
Insert(inputs, y) ==
    [inputs EXCEPT ![y.input] = (<<y.field, 0>> :> 72) @@ @]
Signed ==
    /\ call.name = "sign"
    /\ LET ys == intpr.yielded
           n == Min({j - 1 : j \in Lost(ys)} \cup {Len(ys)})
       IN  IF \E j \in DOMAIN ys : ys[j].field = 0
           THEN End("unexpected result") /\ UNCHANGED psbt
           ELSE /\ psbt' = [psbt EXCEPT !.inputs =
                               FoldLeft(Insert, @, SubSeq(ys, 1, n))]
                /\ End(IF Lost(ys) # {} THEN "did not sign" ELSE "ok")

\* register_wallet goes on to ask for the first receive address; an address
\* other than the one the host derives is refused.
Registered ==
    /\ call.name = "register"
    /\ Request("address", WalletTables, AddressKnows)
    /\ UNCHANGED psbt
Addressed ==
    /\ call.name = "address"
    /\ \/ End("ok")
       \/ End("invalid address")
    /\ UNCHANGED psbt

\* The device completes the request.
Complete ==
    /\ call.result = "pending"
    /\ ~Reading
    /\ Signed \/ Registered \/ Addressed

LedgerInit ==
    /\ \E x \in Psbts : psbt = x
    /\ intpr = NewInterpreter
    /\ device = [lists |-> {}, hashes |-> {}, leaves |-> {},
                 ask |-> <<"none">>, due |-> 0, parts |-> <<>>, asks |-> 0]
    /\ call = [name |-> "none", result |-> "none"]

Signatures == [input : 1..(Len(psbt.inputs) + 1),
               field : {0, 2, 19}]

LedgerNext ==
    \/ SignTx(psbt)
    \/ RegisterWallet
    \/ GetWalletAddress
    \/ \E h \in device.hashes : AskPreimage(h)
    \/ \E l \in device.lists : \E i \in 0..(l.size - 1) : AskLeafProof(l, i)
    \/ \E f \in device.leaves : AskLeafIndex(f[1], f[2])
    \/ AskMore
    \/ \E y \in Signatures : AskYield(y)
    \/ Refuse
    \/ Complete

LedgerSpec == LedgerInit /\ [][LedgerNext]_vars

-----------------------------------------------------------------------------
\* A device that asks only for what it was given a commitment of is never
\* answered with an error: every root and every hash a request carries,
\* directly or through what the device has read, is in the interpreter's
\* tables, and the queue is empty when a new answer begins (execute).
HonestDeviceIsServed == call.result # "interpreter error"

\* When the device has an answer to its end, over as many messages as it
\* took, it has every byte of the preimage in order, or a proof that folds
\* the leaf to the root it was given (get_preimage_command,
\* get_merkle_leaf_proof, get_more_elements), and nothing is left queued.
WholeAnswer ==
    call.result = "pending" /\ ~Reading =>
        /\ intpr.queue = <<>>
        /\ device.ask[1] = "preimage" =>
             \E q \in intpr.preimages :
                /\ Hash(q) = device.ask[2]
                /\ device.parts = Bytes(q, 1, Size(q))
        /\ device.ask[1] = "proof" =>
             \E f \in device.leaves :
                /\ f[1] = device.ask[2]
                /\ RootFrom(f[2], device.ask[3], f[1].size,
                            [j \in DOMAIN device.parts |->
                                device.parts[j].of]) = f[1].root
=============================================================================
