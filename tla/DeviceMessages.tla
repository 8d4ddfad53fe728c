--------------------------- MODULE DeviceMessages ---------------------------
(***************************************************************************)
(* What passes between the application and a hardware wallet.              *)
(*                                                                         *)
(* How messages are cut into USB packets of 64 bytes: the Ledger's         *)
(* (hwi/src/ledger/transport_hidapi) and the BitBox's U2F framing          *)
(* (hwi/src/bitbox/api/u2fframing.rs).  A message is a sequence of bytes;  *)
(* where only its length matters a byte is its place.                      *)
(*                                                                         *)
(* How the signatures of a device get into a PSBT (hwi/src/utils.rs,       *)
(* specter.rs, coldcard.rs, jade).  Some devices sign an input with the    *)
(* first key of theirs they find, so a PSBT is signed in rounds, the keys  *)
(* that are not for this round hidden from the device; what comes back is  *)
(* merged into the PSBT that was sent.  An input has the set deriv of      *)
(* records [key, fg, path], a path being <<branch, index>>, the keys sigs  *)
(* that signed it, and keysig, the signature of the taproot key (0: none). *)
(***************************************************************************)
EXTENDS Integers, Sequences, FiniteSets, FiniteSetsExt, SequencesExt

LOCAL Least(a, b) == IF a < b THEN a ELSE b
LOCAL CeilDiv(a, b) == (a + b - 1) \div b

(***************************************************************************)
(* Ledger: the first two bytes of the data are the length of the command.  *)
(***************************************************************************)
Channel == 257
Tag == 5
LedgerChunk == 59

\* write_apdu: one buffer serves for all packets, so that the last one ends
\* with bytes of the one before it.
WriteApdu(apdu) ==
    LET data == <<(Len(apdu) \div 256) % 256, Len(apdu) % 256>> \o apdu
        n == CeilDiv(Len(data), LedgerChunk)
        at(k, i) == (k - 1) * LedgerChunk + i
        chunk(k) == [i \in 1..LedgerChunk |->
                        IF at(k, i) <= Len(data) THEN data[at(k, i)]
                        ELSE IF k > 1 THEN data[at(k - 1, i)] ELSE 0]
    IN  [k \in 1..n |-> [channel |-> Channel, tag |-> Tag, seq |-> k - 1,
                         data |-> chunk(k)]]

\* read_apdu, one packet: `want` is the length the first packet gave.
ReadPacket(r, p) ==
    IF r.st # "reading" THEN r
    ELSE IF p.channel # Channel \/ p.tag # Tag \/ p.seq # r.seq
    THEN [r EXCEPT !.st = "error"]
    ELSE LET want == IF r.seq = 0 THEN 256 * p.data[1] + p.data[2] ELSE r.want
             data == IF r.seq = 0 THEN SubSeq(p.data, 3, LedgerChunk)
                     ELSE p.data
             got == r.got \o SubSeq(data, 1, Least(Len(data),
                                                   want - Len(r.got)))
         IN  [st |-> IF Len(got) >= want THEN "done" ELSE "reading",
              seq |-> r.seq + 1, want |-> want, got |-> got]
ReadApdu(packets) ==
    FoldLeft(ReadPacket, [st |-> "reading", seq |-> 0, want |-> 0,
                          got |-> <<>>], packets)

\* APDUCommand::encode: the length of the data is one byte.
EncodeApdu(data) == <<225, 0, 0, 1, Len(data) % 256>> \o data

(***************************************************************************)
(* U2F: the first packet of a message holds 57 of its bytes after a header *)
(* of 7, the others 59 after one of 5.                                     *)
(***************************************************************************)
First == 57
Next59 == 59
MaxSeq == 127

\* get_encoded_len, in 16 bits.
EncodedLen(n) ==
    IF n % 65536 < First THEN 64
    ELSE 64 + 64 * CeilDiv((n % 65536) - First, Next59)

\* encode: the bytes written, or empty for a message it refuses.  The
\* number of continuation packets is compared after it is counted up.
Continuations(n) == IF n <= First THEN 0 ELSE CeilDiv(n - First, Next59)
EncodeU2f(cid, cmd, msg) ==
    LET n == Len(msg)
        head == <<cid, cid, cid, cid, cmd, (n \div 256) % 256, n % 256>>
        \* byte i of packet k, the first packet being 0
        byte(k, i) ==
            LET h == IF k = 0 THEN 7 ELSE 5
                at == IF k = 0 THEN i - h ELSE First + (k - 1) * Next59 + i - h
            IN  IF i <= h
                THEN IF k > 0 /\ i = 5 THEN k - 1 ELSE head[i]
                ELSE IF at <= n THEN msg[at] ELSE 0
    IN  IF EncodedLen(n) > 129 * 64 \/ Continuations(n) > MaxSeq THEN <<>>
        ELSE [p \in 1..EncodedLen(n) |->
                byte((p - 1) \div 64, ((p - 1) % 64) + 1)]

\* decode: what the bytes read so far make: a message, nothing yet, or an
\* error.  The headers of the continuation packets are skipped unread.
DecodeU2fEarly(cid, cmd, buf) ==
    LET n == 256 * buf[6] + buf[7]
        at(i) == IF i <= First THEN 7 + i
                 ELSE LET j == i - First - 1
                      IN  64 + (j \div Next59) * 64 + 6 + (j % Next59)
    IN  IF Len(buf) + 64 < EncodedLen(n) THEN [st |-> "more", msg |-> <<>>]
        ELSE [st |-> "done",
              msg |-> [i \in 1..n |-> IF at(i) <= Len(buf) THEN buf[at(i)]
                                      ELSE 0]]
DecodeU2f(cid, cmd, buf) ==
    LET n == 256 * buf[6] + buf[7]
        at(i) == IF i <= First THEN 7 + i
                 ELSE LET j == i - First - 1
                      IN  64 + (j \div Next59) * 64 + 6 + (j % Next59)
    IN  IF Len(buf) < 7 \/ buf[1] # cid \/ buf[5] # cmd
        THEN [st |-> "error", msg |-> <<>>]
        ELSE IF Len(buf) < EncodedLen(n) THEN [st |-> "more", msg |-> <<>>]
        ELSE [st |-> "done", msg |-> [i \in 1..n |-> buf[at(i)]]]

-----------------------------------------------------------------------------
Bytes(n) == [i \in 1..n |-> (i % 251) + 1]

\* A command cut into packets is put together again byte for byte whatever
\* its length, and its last packet is needed: what a packet carries beyond
\* the end of the command is never taken for data (write_apdu, read_apdu).
LedgerFramesRoundTrip(n) ==
    LET apdu == EncodeApdu(Bytes(n))
        packets == WriteApdu(apdu)
    IN  /\ ReadApdu(packets).st = "done"
        /\ ReadApdu(packets).got = apdu
        /\ \A k \in 0..(Len(packets) - 1) :
              ReadApdu(SubSeq(packets, 1, k)).st = "reading"

\* A message that fits 127 continuation packets is put together again byte
\* for byte, and not before its last packet is read (encode, decode,
\* U2fHidCommunication::read).
U2fFramesRoundTrip(n) ==
    LET bytes == EncodeU2f(255, 193, Bytes(n))
    IN  Continuations(n) <= MaxSeq =>
            /\ Len(bytes) = EncodedLen(n)
            /\ DecodeU2f(255, 193, bytes) = [st |-> "done", msg |-> Bytes(n)]
            /\ Len(bytes) > 64 =>
                 DecodeU2f(255, 193, SubSeq(bytes, 1, Len(bytes) - 64)).st
                     = "more"

-----------------------------------------------------------------------------
\* ignore_signed_key_derivation
IgnoreSigned(psbt) ==
    [i \in DOMAIN psbt |->
        [psbt[i] EXCEPT !.deriv = {d \in @ : d.key \notin psbt[i].sigs}]]

\* ignore_same_fg_bip32_derivations: of the keys of one fingerprint an input
\* keeps the one of the greatest path.
PathLess(p, q) == p[1] < q[1] \/ (p[1] = q[1] /\ p[2] < q[2])
IgnoreSameFgPerInput(psbt) ==
    [i \in DOMAIN psbt |->
        [psbt[i] EXCEPT !.deriv =
            {d \in @ : \A e \in @ : e.fg = d.fg => e.key >= d.key}]]
IgnoreSameFg(psbt) ==
    [i \in DOMAIN psbt |->
        [psbt[i] EXCEPT !.deriv =
            {d \in @ : \A e \in @ : e.fg = d.fg => ~PathLess(d.path, e.path)}]]

\* External: a device signs each input with the first key of its
\* fingerprint.
DeviceSigns(psbt, fg) ==
    [i \in DOMAIN psbt |->
        LET own == {d.key : d \in {e \in psbt[i].deriv : e.fg = fg}}
        IN  [psbt[i] EXCEPT !.sigs = @ \cup IF own = {} THEN {} ELSE {Min(own)}]]

\* Bip32DerivationFilter: both filters, the device, and the hidden
\* derivations put back, unless the device failed.
SignRound(psbt, fg, fails) ==
    LET shown == IgnoreSameFg(IgnoreSigned(psbt))
        signed == DeviceSigns(shown, fg)
    IN  IF fails THEN shown
        ELSE [i \in DOMAIN psbt |->
                [signed[i] EXCEPT !.deriv = @ \cup psbt[i].deriv]]

-----------------------------------------------------------------------------
\* merge_signatures (Jade): extra inputs of the device's PSBT are skipped.
MergeSignatures(psbt, signed) ==
    [i \in DOMAIN psbt |->
        IF i \notin DOMAIN signed THEN psbt[i]
        ELSE [psbt[i] EXCEPT !.sigs = @ \cup signed[i].sigs,
                !.keysig = IF signed[i].keysig # 0 THEN signed[i].keysig ELSE @]]

\* Specter's sign_tx: a taproot signature may come as the final witness
\* instead, and a PSBT without any signature is an error.
SpecterMerge(psbt, signed) ==
    LET keysig(i) == IF signed[i].keysig # 0 THEN signed[i].keysig
                     ELSE signed[i].witness
    IN  [psbt |-> [i \in DOMAIN psbt |->
                    IF i \notin DOMAIN signed THEN psbt[i]
                    ELSE [psbt[i] EXCEPT
                            !.sigs = @ \cup signed[i].sigs,
                            !.keysig = IF keysig(i) # 0 THEN keysig(i) ELSE @]],
         ok |-> \E i \in DOMAIN signed : signed[i].sigs # {} \/ keysig(i) # 0]

\* Coldcard's sign_tx: the answer is polled for and merged like Jade's, with
\* no check that there is a signature.
ColdcardMerge(psbt, signed) == MergeSignatures(psbt, signed)

-----------------------------------------------------------------------------
\* Rounds of signing sign every key of the device, one per input and round,
\* the same branch on every input, and leave the derivations as they were:
\* the keys a round hides are neither lost nor signed twice
\* (Bip32DerivationFilter).
RoundsSignEveryKey(psbt, fg) ==
    LET own(i) == {d \in psbt[i].deriv : d.fg = fg}
        most == Max({Cardinality(own(i)) : i \in DOMAIN psbt})
        after[n \in 0..most] ==
            IF n = 0 THEN psbt ELSE SignRound(after[n - 1], fg, FALSE)
    IN  /\ \A i \in DOMAIN psbt :
              /\ after[most][i].deriv = psbt[i].deriv
              /\ after[most][i].sigs = {d.key : d \in own(i)}
        /\ \A n \in 1..most :
              LET new(i) == {d \in own(i) :
                                d.key \in after[n][i].sigs \ after[n-1][i].sigs}
              IN  /\ \A i \in DOMAIN psbt : Cardinality(new(i)) <= 1
                  /\ (\A i, j \in DOMAIN psbt :
                        {d.path[1] : d \in own(i)} = {d.path[1] : d \in own(j)})
                     => \A i, j \in DOMAIN psbt : \A d \in new(i), e \in new(j) :
                            d.path[1] = e.path[1]

\* Merging a device's PSBT adds its signatures to those of other signers and
\* loses none, whatever inputs the device filled and however it returned a
\* taproot signature (merge_signatures and the sign_tx of Specter and
\* Coldcard); Specter's is refused exactly when nothing was signed.
MergesKeepSignatures(psbt, signed) ==
    LET kept(r) ==
            \A i \in DOMAIN psbt :
                /\ psbt[i].sigs \subseteq r[i].sigs
                /\ i \in DOMAIN signed => signed[i].sigs \subseteq r[i].sigs
                /\ r[i].keysig = 0 => psbt[i].keysig = 0
                /\ i \in DOMAIN signed /\ signed[i].keysig # 0
                     => r[i].keysig = signed[i].keysig
    IN  /\ kept(MergeSignatures(psbt, signed))
        /\ kept(SpecterMerge(psbt, signed).psbt)
        /\ kept(ColdcardMerge(psbt, signed))
        /\ SpecterMerge(psbt, signed).ok <=>
                \E i \in DOMAIN signed : \/ signed[i].sigs # {}
                                         \/ signed[i].keysig # 0
                                         \/ signed[i].witness # 0
=============================================================================
