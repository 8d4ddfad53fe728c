---------------------------- MODULE SpScanProofs ----------------------------
(***************************************************************************)
(* What holds of the silent-payment scan for every set of transactions,    *)
(* every chain and every bound: the blocks the scan state vouches for are  *)
(* in the coin store, and the coins spent by a broadcast have its          *)
(* transaction in the history.                                             *)
(***************************************************************************)
EXTENDS SpScan, SequenceTheorems, WellFoundedInduction, TLAPS

(***************************************************************************)
(* Blocks and hashes, of a chain ch whose new blocks are of branch br.     *)
(***************************************************************************)
ChainOK(ch, br) ==
    /\ ch \in Seq([branch : Nat, txs : SUBSET Txs]) /\ br \in Nat
    /\ \A i \in 1..Len(ch) : ch[i].branch <= br
    /\ \A i, j \in 1..Len(ch) : ch[i].txs \cap ch[j].txs # {} => i = j

Current(ch, h, hash) == h <= Len(ch) /\ hash = <<h, ch[h].branch>>

\* A hash the server served for height h: no block mined from now on has it.
Dated(ch, br, h, hash) ==
    /\ hash = <<h, hash[2]>> /\ hash[2] \in 0..br
    /\ h > Len(ch) => hash[2] < br

Served(ch, br, hs) ==
    \A h \in DOMAIN hs : h \in 1..MaxHeight /\ Dated(ch, br, h, hs[h])

Fetched(ch, br, got) ==
    \A h \in DOMAIN got :
       /\ h \in 1..MaxHeight /\ Dated(ch, br, h, got[h].hash)
       /\ Current(ch, h, got[h].hash) => got[h].txs = ch[h].txs

\* The coins of block h are in the store cs, but for those in sk.
Stored(ch, cs, sk, h) ==
    \A t \in (ch[h].txs \cap Pays) \ sk : t \in DOMAIN cs /\ cs[t].height = h

Vouched(ch, cs, sk, hs) ==
    \A h \in DOMAIN hs : Current(ch, h, hs[h]) => Stored(ch, cs, sk, h)

(***************************************************************************)
(* The scan thread s: what it committed is stored, what it fetched is the  *)
(* block it names, and a hash kept above the fork is off the chain.        *)
(***************************************************************************)
Fields == DOMAIN IdleScan
Special == {"fork", "rollCoins", "rollTxs", "commitTxs"}
Looping(s) == s.pc = "loop" \/ (s.pc = "flush" /\ s.then = "loop")

ScanOK(ch, br, cs, sk, hs, s) ==
    /\ DOMAIN s = Fields
    /\ Served(ch, br, s.done) /\ Vouched(ch, cs, sk, s.done)
    /\ Fetched(ch, br, s.got)
    /\ s.pc = "flush" => s.then \notin Special \cup {"flush"}
    /\ Looping(s) \/ s.pc \in {"fork", "rollCoins"} => s.done = <<>>
    /\ s.pc \in {"fork", "rollCoins"} => s.known = hs /\ s.probe \subseteq DOMAIN hs
    /\ s.pc = "fork" =>
          \A h \in DOMAIN hs \ s.probe : ~Current(ch, h, hs[h])
    /\ s.pc = "rollCoins" =>
          \A h \in DOMAIN hs : h > s.fork => ~Current(ch, h, hs[h])

StateFields == {"scanned", "spend", "hashes"}

CoinsInv ==
    /\ ChainOK(chain, branch)
    /\ DOMAIN st = StateFields /\ DOMAIN disk = StateFields
    /\ disk.hashes = st.hashes
    /\ Served(chain, branch, st.hashes)
    /\ Vouched(chain, coins, skipped, st.hashes)
    /\ ScanOK(chain, branch, coins, skipped, st.hashes, sc)

(***************************************************************************)
(* The history.  Until it is broadcast, a transaction of the account is    *)
(* nowhere; until it is recorded, it is in no block and not in the         *)
(* history; and the spenders a roll back is about to keep are those it     *)
(* collected, one that is unconfirmed or one being broadcast.              *)
(***************************************************************************)
Unseen(t) ==
    /\ t \notin OnChain /\ t \notin DOMAIN txs
    /\ sc.pc = "commitTxs" => t \notin sc.outs

Sending == {t \in {bc.tx} : bc.pc # "idle"}

Pending(t) ==
    t \in sc.pending \/ t \in Sending \/ (t \in DOMAIN txs /\ txs[t] = Unconfirmed)

HistoryInv ==
    /\ DOMAIN bc = {"pc", "tx"}
    /\ bc.pc = "idle" => bc = NoBroadcast
    /\ bc.pc # "idle" => bc.tx \in mempool
    /\ \A t \in Own \ mempool : Unseen(t)
    /\ lapse \/ bc.pc = "idle" \/ Unseen(bc.tx)
    /\ lapse \/ SpendingTxids(coins) \subseteq DOMAIN txs \cup Sending
    /\ lapse \/ (sc.pc = "rollTxs" => \A t \in SpendingTxids(coins) : Pending(t))

\* Every hash served stays one, and none comes back to the chain.
Evolves(ch, br, ch2, br2) ==
    \A h \in Nat \ {0} : \A hash :
       Dated(ch, br, h, hash) =>
          /\ Dated(ch2, br2, h, hash)
          /\ Current(ch2, h, hash) =>
                Current(ch, h, hash) /\ ch2[h].txs = ch[h].txs

-----------------------------------------------------------------------------
\* The greatest member of a bounded set of heights.
LEMMA MaxIsMember ==
    ASSUME NEW N \in Nat, NEW S \in SUBSET (1..N), S # {}
    PROVE  Max(S) \in S /\ \A y \in S : Max(S) >= y
<1> DEFINE R == {ss \in Nat \X Nat : ss[1] < ss[2]}
           T == {N - h : h \in S}
<1>0. IsWellFoundedOn(R, Nat)
  BY NatLessThanWellFounded DEF OpToRel
<1>1. T \subseteq Nat /\ T # {}
  <2>1. \A h \in S : N - h \in Nat
    OBVIOUS
  <2>2. PICK h \in S : TRUE
    OBVIOUS
  <2>3. N - h \in T
    BY <2>2
  <2> QED
    BY <2>1, <2>3
<1>2. PICK m \in T : \A y \in T : ~ (<<y, m>> \in R)
  <2> HIDE DEF R, T
  <2> QED
    BY <1>0, <1>1, WFMin, Zenon
<1>3. PICK x \in S : m = N - x
  OBVIOUS
<1>4. \A y \in S : x >= y
  <2> SUFFICES ASSUME NEW y \in S, ~(x >= y) PROVE FALSE
    OBVIOUS
  <2>1. x \in 1..N /\ y \in 1..N
    OBVIOUS
  <2>2. N - y < m /\ N - y \in Nat /\ m \in Nat
    BY <1>3, <2>1
  <2>3. <<N - y, m>> \in R /\ N - y \in T
    BY <2>2
  <2> QED
    BY <1>2, <2>3
<1> QED
  BY <1>4, Zenon DEF Max

\* The larger of two heights bounds both.
LEMMA MaxOfTwo ==
    ASSUME NEW a \in Int, NEW b \in Int
    PROVE  Max({a, b}) \in Int /\ Max({a, b}) >= a /\ Max({a, b}) >= b
<1>1. \E x \in {a, b} : \A y \in {a, b} : x >= y
  <2>1. CASE a >= b
    BY <2>1
  <2>2. CASE ~(a >= b)
    BY <2>2
  <2> QED
    BY <2>1, <2>2
<1>2. Max({a, b}) \in {a, b} /\ \A y \in {a, b} : Max({a, b}) >= y
  BY <1>1, Zenon DEF Max
<1> QED
  BY <1>2

\* The first blocks of a chain.
LEMMA Prefix ==
    ASSUME NEW S, NEW q \in Seq(S), NEW k \in Nat, k <= Len(q)
    PROVE  /\ SubSeq(q, 1, k) \in Seq(S) /\ Len(SubSeq(q, 1, k)) = k
           /\ \A i \in 1..k : SubSeq(q, 1, k)[i] = q[i]
<1>1. \A i \in 1..k : q[i] \in S
  OBVIOUS
<1>2. 1 \in Int /\ k \in Int
  OBVIOUS
<1>3. PICK p : p = SubSeq(q, 1, k)
  OBVIOUS
<1>4. /\ p \in Seq(S)
      /\ Len(p) = IF 1 <= k THEN k - 1 + 1 ELSE 0
      /\ \A i \in 1 .. k - 1 + 1 : p[i] = q[1 + i - 1]
  BY <1>1, <1>2, <1>3, SubSeqProperties
<1>5. Len(p) = k
  BY <1>4
<1>6. \A i \in 1..k : p[i] = q[i]
  BY <1>4
<1> QED
  BY <1>3, <1>4, <1>5, <1>6, Zenon

\* A block of the chain has a branch and a set of transactions.
LEMMA BlockFields ==
    ASSUME NEW ch \in Seq([branch : Nat, txs : SUBSET Txs]), NEW i \in 1..Len(ch)
    PROVE  ch[i].branch \in Nat /\ ch[i].txs \subseteq Txs
<1>1. ch[i] \in [branch : Nat, txs : SUBSET Txs]
  <2> DEFINE S == [branch : Nat, txs : SUBSET Txs]
  <2>1. ch \in Seq(S)
    OBVIOUS
  <2> HIDE DEF S
  <2>2. ch[i] \in S
    BY <2>1
  <2> QED
    BY <2>2 DEF S
<1> QED
  BY <1>1

\* A block is mined on top of the chain.
LEMMA GrowEvolves ==
    ASSUME NEW ch, NEW br, ChainOK(ch, br), NEW B \in SUBSET Txs,
           \A i \in 1..Len(ch) : ch[i].txs \cap B = {}
    PROVE  LET ch2 == Append(ch, [branch |-> br, txs |-> B])
           IN  ChainOK(ch2, br) /\ Evolves(ch, br, ch2, br)
<1> DEFINE top == [branch |-> br, txs |-> B]
           ch2 == Append(ch, top)
<1>1. /\ ch \in Seq([branch : Nat, txs : SUBSET Txs])
      /\ br \in Nat /\ top \in [branch : Nat, txs : SUBSET Txs]
  BY DEF ChainOK
<1>2. /\ ch2 \in Seq([branch : Nat, txs : SUBSET Txs]) /\ Len(ch2) = Len(ch) + 1
      /\ Len(ch) \in Nat
      /\ \A i \in 1..Len(ch) : ch2[i] = ch[i]
      /\ ch2[Len(ch) + 1] = top
  BY <1>1
<1>3. top.branch = br /\ top.txs = B
  OBVIOUS
<1> HIDE DEF ch2, top
<1>4. \A i \in 1..Len(ch2) : i = Len(ch) + 1 \/ i \in 1..Len(ch)
  BY <1>2
<1>5. \A i \in 1..Len(ch2) : ch2[i].branch <= br
  <2> SUFFICES ASSUME NEW i \in 1..Len(ch2) PROVE ch2[i].branch <= br
    OBVIOUS
  <2>1. CASE i = Len(ch) + 1
    BY <1>1, <1>2, <1>3, <2>1
  <2>2. CASE i \in 1..Len(ch)
    BY <1>2, <2>2 DEF ChainOK
  <2> QED
    BY <1>4, <2>1, <2>2
<1>6. \A i, j \in 1..Len(ch2) : ch2[i].txs \cap ch2[j].txs # {} => i = j
  BY <1>2, <1>3, <1>4, Zenon DEF ChainOK
<1>7. ASSUME NEW h \in Nat \ {0}, NEW hash, Dated(ch, br, h, hash)
      PROVE  /\ Dated(ch2, br, h, hash)
             /\ Current(ch2, h, hash) => Current(ch, h, hash) /\ ch2[h].txs = ch[h].txs
  <2>1. CASE h <= Len(ch)
    <3>1. ch2[h] = ch[h] /\ h <= Len(ch2)
      BY <1>2, <2>1
    <3> QED
      BY <1>2, <1>7, <2>1, <3>1 DEF Dated, Current
  <2>2. CASE h = Len(ch) + 1
    <3>1. hash[2] < br /\ hash[2] \in Nat
      BY <1>1, <1>2, <1>7, <2>2 DEF Dated
    <3>2. ~Current(ch2, h, hash)
      BY <1>1, <1>2, <1>3, <2>2, <3>1 DEF Current
    <3> QED
      BY <1>7, <3>1, <3>2 DEF Dated
  <2>3. CASE h > Len(ch) + 1
    BY <1>2, <1>7, <2>3 DEF Dated, Current
  <2> QED
    BY <1>2, <2>1, <2>2, <2>3
<1>8. ChainOK(ch2, br)
  BY <1>1, <1>2, <1>5, <1>6, Zenon DEF ChainOK
<1>9. Evolves(ch, br, ch2, br)
  BY <1>7, Zenon DEF Evolves
<1> QED
  BY <1>8, <1>9, Zenon DEF ch2, top

\* The chain is cut back and a new branch begins.
LEMMA CutEvolves ==
    ASSUME NEW ch, NEW br, ChainOK(ch, br), NEW keep \in 0..(Len(ch) - 1)
    PROVE  LET ch2 == SubSeq(ch, 1, keep)
           IN  /\ ChainOK(ch2, br + 1) /\ Evolves(ch, br, ch2, br + 1)
               /\ Range(ch2) \subseteq Range(ch)
<1> DEFINE ch2 == SubSeq(ch, 1, keep)
<1>1. ch \in Seq([branch : Nat, txs : SUBSET Txs]) /\ br \in Nat /\ Len(ch) \in Nat
  BY DEF ChainOK
<1>2. keep \in Nat /\ keep < Len(ch)
  BY <1>1
<1>3. /\ ch2 \in Seq([branch : Nat, txs : SUBSET Txs]) /\ Len(ch2) = keep
      /\ \A i \in 1..keep : ch2[i] = ch[i]
  <2>1. keep <= Len(ch)
    BY <1>1, <1>2
  <2> QED
    BY <1>1, <1>2, <2>1, Prefix, Zenon
<1> HIDE DEF ch2
<1>4. \A i \in 1..Len(ch2) : i \in 1..Len(ch)
  BY <1>1, <1>2, <1>3
<1>5. \A i \in 1..Len(ch2) : ch2[i].branch <= br + 1
  <2> SUFFICES ASSUME NEW i \in 1..Len(ch2) PROVE ch2[i].branch <= br + 1
    OBVIOUS
  <2>1. ch2[i] = ch[i] /\ ch[i].branch <= br
    BY <1>3, <1>4, Zenon DEF ChainOK
  <2>2. ch[i].branch \in Nat
    BY <1>1, <1>4, BlockFields, Zenon
  <2> QED
    BY <1>1, <2>1, <2>2
<1>6. \A i, j \in 1..Len(ch2) : ch2[i].txs \cap ch2[j].txs # {} => i = j
  BY <1>3, <1>4, Zenon DEF ChainOK
<1>7. ASSUME NEW h \in Nat \ {0}, NEW hash, Dated(ch, br, h, hash)
      PROVE  /\ Dated(ch2, br + 1, h, hash)
             /\ Current(ch2, h, hash) => Current(ch, h, hash) /\ ch2[h].txs = ch[h].txs
  <2>1. Dated(ch2, br + 1, h, hash)
    BY <1>1, <1>7 DEF Dated
  <2>2. CASE h <= keep
    <3>1. ch2[h] = ch[h] /\ h <= Len(ch)
      BY <1>1, <1>2, <1>3, <2>2
    <3> QED
      BY <1>3, <2>1, <2>2, <3>1 DEF Current
  <2>3. CASE h > keep
    BY <1>2, <1>3, <2>1, <2>3 DEF Current
  <2> QED
    BY <1>2, <2>2, <2>3
<1>8. Range(ch2) \subseteq Range(ch)
  <2>1. DOMAIN ch2 = 1..keep /\ DOMAIN ch = 1..Len(ch)
    BY <1>1, <1>3
  <2> QED
    BY <1>3, <1>4, <2>1 DEF Range
<1>9. ChainOK(ch2, br + 1)
  <2>1. br + 1 \in Nat
    BY <1>1
  <2> QED
    BY <1>3, <1>5, <1>6, <2>1, Zenon DEF ChainOK
<1>10. Evolves(ch, br, ch2, br + 1)
  BY <1>7, Zenon DEF Evolves
<1> QED
  BY <1>8, <1>9, <1>10, Zenon DEF ch2

\* What a thread holds survives the chain's evolution.
LEMMA EvolvesKeeps ==
    ASSUME NEW ch, NEW br, NEW ch2, NEW br2, Evolves(ch, br, ch2, br2),
           NEW cs, NEW sk, NEW hs, NEW s,
           Served(ch, br, hs), Vouched(ch, cs, sk, hs),
           ScanOK(ch, br, cs, sk, hs, s)
    PROVE  /\ Served(ch2, br2, hs) /\ Vouched(ch2, cs, sk, hs)
           /\ ScanOK(ch2, br2, cs, sk, hs, s)
<1>1. \A h \in 1..MaxHeight : h \in Nat \ {0}
  BY SpScanAssumption
<1>2. ASSUME NEW f, Served(ch, br, f)
      PROVE  /\ Served(ch2, br2, f)
             /\ \A h \in DOMAIN f : Current(ch2, h, f[h]) =>
                   Current(ch, h, f[h]) /\ ch2[h].txs = ch[h].txs
  BY <1>1, <1>2, Zenon DEF Served, Evolves
<1>3. ASSUME NEW f, Served(ch, br, f), Vouched(ch, cs, sk, f)
      PROVE  Vouched(ch2, cs, sk, f)
  BY <1>2, <1>3, Zenon DEF Vouched, Stored
<1>4. Fetched(ch2, br2, s.got)
  <2>1. Fetched(ch, br, s.got)
    BY Zenon DEF ScanOK
  <2> QED
    BY <1>1, <2>1, Zenon DEF Fetched, Evolves
<1>5. Served(ch2, br2, s.done) /\ Vouched(ch2, cs, sk, s.done)
  BY <1>2, <1>3, Zenon DEF ScanOK
<1>6. \A h \in DOMAIN hs : ~Current(ch, h, hs[h]) => ~Current(ch2, h, hs[h])
  BY <1>2, Zenon
<1> QED
  BY <1>2, <1>3, <1>4, <1>5, <1>6, Zenon DEF ScanOK

-----------------------------------------------------------------------------
(***************************************************************************)
(* Steps of the thread that touch neither the coins nor the history: the   *)
(* thread moves on, at most forgetting blocks, or only its prefetched      *)
(* filters change; and a hash kept was kept or committed before.           *)
(***************************************************************************)
Same(s, t) ==
    /\ DOMAIN t = Fields
    /\ t.pc = s.pc /\ t.then = s.then /\ t.done = s.done /\ t.got = s.got
    /\ t.known = s.known /\ t.probe = s.probe /\ t.fork = s.fork
    /\ t.outs = s.outs /\ t.pending = s.pending

Ready(s, t) ==
    /\ DOMAIN t = Fields
    /\ t.pc \notin Special \cup {"flush"}
    /\ t.done \in {s.done, <<>>} /\ t.got \in {s.got, <<>>}
    /\ t.pc = "loop" => t.done = <<>>

Plain(s, t) ==
    /\ DOMAIN t = Fields
    /\ t.pc \notin Special
    /\ t.pc = "flush" => t.then \notin Special \cup {"flush"}
    /\ t.done \in {s.done, <<>>} /\ t.got \in {s.got, <<>>}
    /\ Looping(t) => t.done = <<>>

HashesFrom(hs2, hs, done) ==
    \A h \in DOMAIN hs2 : \/ h \in DOMAIN hs /\ hs2[h] = hs[h]
                          \/ h \in DOMAIN done /\ hs2[h] = done[h]

StateFrom ==
    /\ DOMAIN st' = StateFields /\ DOMAIN disk' = StateFields
    /\ disk'.hashes = st'.hashes
    /\ HashesFrom(st'.hashes, st.hashes, sc.done)

QuietStep ==
    /\ UNCHANGED <<chain, branch, mempool, coins, txs, skipped, bc>>
    /\ lapse => lapse'
    /\ \/ Plain(sc, sc') /\ StateFrom
       \/ Same(sc, sc') /\ UNCHANGED <<st, disk>>

Shapes ==
    /\ DOMAIN sc = Fields
    /\ DOMAIN st = StateFields /\ DOMAIN disk = StateFields
    /\ disk.hashes = st.hashes

\* The fields of the scan thread, listed for the provers.
LEMMA FieldNames ==
    Fields = {"pc", "then", "mode", "start", "end", "calm", "known", "probe",
              "fork", "pending", "got", "done", "height", "outs", "watch",
              "cursor", "next", "flight", "buf", "failed", "abort", "outcome"}
BY DEF Fields, IdleScan

\* A scan thread that does not run holds nothing.
LEMMA IdleFields ==
    /\ IdleScan.pc = "idle" /\ IdleScan.then = "idle" /\ IdleScan.done = <<>>
    /\ IdleScan.got = <<>> /\ IdleScan.outs = {} /\ IdleScan.pending = {}
BY DEF IdleScan

\* A step that only readies the thread keeps what it has scanned.
LEMMA ReadyIsPlain ==
    ASSUME NEW s, NEW t, Ready(s, t) PROVE Plain(s, t)
BY Zenon DEF Ready, Plain, Looping

\* Readying the thread, then a step that keeps the rest, readies it.
LEMMA ReadySame ==
    ASSUME NEW s, NEW t, NEW u, Ready(s, t), Same(t, u) PROVE Ready(s, u)
BY Zenon DEF Ready, Same

\* The thread ends, or goes back to its loop, with nothing in hand.
LEMMA EndScanReady ==
    ASSUME NEW s, NEW t, NEW o PROVE Ready(s, EndScan(t, o))
<1> DEFINE p == IF t.mode = "continuous" /\ o = "completed" THEN "loop" ELSE "idle"
           m == IF o = "completed" THEN t.mode ELSE "oneshot"
<1>1. p \in {"loop", "idle"}
  OBVIOUS
<1> HIDE DEF p, m
<1>2. PICK i : i = IdleScan
  OBVIOUS
<1>3. DOMAIN i = Fields /\ i.done = <<>> /\ i.got = <<>>
  BY <1>2, IdleFields, Zenon DEF Fields
<1>4. PICK e : e = [i EXCEPT !.pc = p, !.mode = m, !.calm = t.calm, !.end = t.end,
                             !.outcome = o]
  OBVIOUS
<1>5. DOMAIN e = Fields /\ e.pc = p /\ e.done = <<>> /\ e.got = <<>>
  BY <1>3, <1>4, FieldNames
<1>6. Ready(s, e)
  BY <1>1, <1>5 DEF Ready, Special
<1> QED
  BY <1>2, <1>4, <1>6, Zenon DEF EndScan, p, m

\* Asking for more filters (the window of the sweep) keeps what was scanned.
LEMMA RefillSame ==
    ASSUME NEW s, DOMAIN s = Fields PROVE Same(s, Refill(s))
<1> DEFINE limit == Min({s.cursor + Window, s.end + 1})
           f == s.flight \cup s.next..(limit - 1)
           n == Max({s.next, limit})
<1> HIDE DEF f, n
<1>1. Same(s, s)
  BY Zenon DEF Same
<1>2. Same(s, [s EXCEPT !.flight = f, !.next = n])
  BY FieldNames DEF Same
<1> QED
  BY <1>1, <1>2, Zenon DEF Refill, f, n

\* Moving the sweep forward keeps what was scanned.
LEMMA JumpSame ==
    ASSUME NEW s, DOMAIN s = Fields, NEW to PROVE Same(s, JumpTo(s, to))
<1> DEFINE n == Max({s.next, to})
           b == KeptFrom(s.buf, to)
           t == [s EXCEPT !.cursor = to, !.next = n, !.buf = b]
<1> HIDE DEF n, b
<1>1. Same(s, t)
  BY FieldNames DEF Same
<1> HIDE DEF t
<1>2. Same(t, Refill(t))
  BY <1>1, RefillSame, Zenon DEF Same
<1>3. Same(s, Refill(t))
  BY <1>1, <1>2, Zenon DEF Same
<1> QED
  BY <1>3, Zenon DEF JumpTo, t, n, b

\* The scan state is written, and the thread waits for the frontiers.
LEMMA RecordPlain ==
    ASSUME Shapes, NEW newSt, NEW t, Ready(sc, t), Record(newSt, t),
           DOMAIN newSt = StateFields,
           HashesFrom(newSt.hashes, st.hashes, sc.done)
    PROVE  Plain(sc, sc') /\ StateFrom
<1>1. /\ st' = newSt /\ disk' = [disk EXCEPT !.hashes = newSt.hashes]
      /\ sc' = [t EXCEPT !.pc = "flush", !.then = t.pc]
  BY Zenon DEF Record
<1>2. DOMAIN disk' = StateFields /\ disk'.hashes = newSt.hashes
  BY <1>1 DEF Shapes, StateFields
<1>3. DOMAIN t = Fields
  BY Zenon DEF Ready
<1>4. /\ DOMAIN sc' = Fields /\ sc'.pc = "flush" /\ sc'.then = t.pc
      /\ sc'.done = t.done /\ sc'.got = t.got
  BY <1>1, <1>3, FieldNames
<1>5. Plain(sc, sc')
  BY <1>4 DEF Plain, Ready, Looping, Special
<1> QED
  BY <1>1, <1>2, <1>5, Zenon DEF StateFrom

\* A step that only readies the thread leaves both frontiers alone.
LEMMA MovePlain ==
    ASSUME Shapes, NEW t, Ready(sc, t), sc' = t, UNCHANGED scanState
    PROVE  Plain(sc, sc') /\ StateFrom
<1>1. HashesFrom(st.hashes, st.hashes, sc.done)
  BY Zenon DEF HashesFrom
<1> QED
  BY <1>1, ReadyIsPlain, Zenon DEF StateFrom, Shapes, scanState

\* advance_spend_frontier keeps the hashes of the scanned blocks.
LEMMA SpendFrontierPlain ==
    ASSUME Shapes, NEW h, NEW t, Ready(sc, t), Record(AdvanceSpendFrontier(st, h), t)
    PROVE  Plain(sc, sc') /\ StateFrom
<1> DEFINE v == IF h > st.spend THEN h ELSE st.spend
<1>1. PICK n : n = [st EXCEPT !.spend = v]
  BY Zenon
<1>2. Record(n, t)
  BY <1>1, Zenon DEF AdvanceSpendFrontier
<1> HIDE DEF v
<1>3. DOMAIN n = StateFields /\ n.hashes = st.hashes
  BY <1>1 DEF Shapes, StateFields
<1>4. HashesFrom(n.hashes, st.hashes, sc.done)
  BY <1>3, Zenon DEF HashesFrom
<1> QED
  BY <1>2, <1>3, <1>4, RecordPlain, Zenon

\* advance_frontier keeps a hash it had, or that of a block it was given.
LEMMA AdvanceHashes ==
    ASSUME NEW s, DOMAIN s = StateFields, NEW done, NEW hs \in SUBSET DOMAIN done
    PROVE  /\ DOMAIN AdvanceFrontier(s, hs, done) = StateFields
           /\ HashesFrom(AdvanceFrontier(s, hs, done).hashes, s.hashes, done)
<1> DEFINE past == {h \in hs : h > s.scanned}
           top == Max(past)
           all == Merge(s.hashes, Restrict(done, past))
           kept == KeptFrom(all, top + 1 - ReorgDepth)
<1>1. past \subseteq DOMAIN done
  OBVIOUS
<1> HIDE DEF past
<1>2. HashesFrom(all, s.hashes, done)
  BY <1>1 DEF HashesFrom, Merge, Restrict
<1> HIDE DEF all
<1>3. \A h \in DOMAIN kept : h \in DOMAIN all /\ kept[h] = all[h]
  BY Zenon DEF KeptFrom, Restrict
<1> HIDE DEF kept
<1>4. HashesFrom(kept, s.hashes, done)
  BY <1>2, <1>3, Zenon DEF HashesFrom
<1>5. HashesFrom(s.hashes, s.hashes, done)
  BY Zenon DEF HashesFrom
<1>6. CASE past = {}
  BY <1>5, <1>6, Zenon DEF AdvanceFrontier, past
<1>7. CASE past # {}
  <2> HIDE DEF top
  <2>1. AdvanceFrontier(s, hs, done) = [scanned |-> top, spend |-> s.spend, hashes |-> kept]
    BY <1>7, Zenon DEF AdvanceFrontier, past, top, all, kept
  <2>2. PICK n : n = [scanned |-> top, spend |-> s.spend, hashes |-> kept]
    BY Zenon
  <2>3. DOMAIN n = StateFields /\ n.hashes = kept
    BY <2>2 DEF StateFields
  <2> QED
    BY <1>4, <2>1, <2>2, <2>3, Zenon
<1> QED
  BY <1>6, <1>7, Zenon

\* record_scan_frontier advances over blocks that were committed.
LEMMA RecordTipPlain ==
    ASSUME Shapes, NEW t, Ready(sc, t), RecordTip(t), DOMAIN sc.done \subseteq 1..MaxHeight
    PROVE  Plain(sc, sc') /\ StateFrom
<1>1. CASE ReceiveTip = 0
  BY <1>1, MovePlain, Zenon DEF RecordTip
<1>2. CASE ReceiveTip # 0
  <2> DEFINE S == {h \in DOMAIN sc.done : sc.start..h \subseteq DOMAIN sc.done}
             from == Max({sc.start, ReceiveTip + 1 - ReorgDepth})
             hs == from .. ReceiveTip
             n == AdvanceFrontier(st, hs, sc.done)
  <2>1. sc.start \in DOMAIN sc.done /\ ReceiveTip = Max(S)
    BY <1>2, Zenon DEF ReceiveTip
  <2>2. MaxHeight \in Nat /\ ReorgDepth \in Nat
    BY SpScanAssumption, ReorgDepthAssumption
  <2>3. sc.start \in Int
    BY <2>1, <2>2
  <2>4. sc.start..sc.start = {sc.start}
    BY <2>3
  <2>5. sc.start \in S
    BY <2>1, <2>4, Zenon
  <2>6. S \in SUBSET (1..MaxHeight) /\ S # {}
    BY <2>5, Zenon
  <2>7. ReceiveTip \in S
    <3> HIDE DEF S
    <3> QED
      BY <2>1, <2>2, <2>6, MaxIsMember, Zenon
  <2>8. ReceiveTip \in Int /\ sc.start..ReceiveTip \subseteq DOMAIN sc.done
    BY <2>2, <2>6, <2>7
  <2>9. from \in Int /\ from >= sc.start
    <3>1. ReceiveTip + 1 - ReorgDepth \in Int
      BY <2>2, <2>8
    <3> QED
      BY <2>3, <3>1, MaxOfTwo, Zenon
  <2>10. hs \subseteq DOMAIN sc.done
    <3> HIDE DEF from
    <3>1. from..ReceiveTip \subseteq sc.start..ReceiveTip
      BY <2>3, <2>8, <2>9
    <3> QED
      BY <2>8, <3>1, Zenon
  <2>11. Record(n, t)
    BY <1>2, Zenon DEF RecordTip, RecordFrontier
  <2> HIDE DEF hs
  <2>12. DOMAIN n = StateFields /\ HashesFrom(n.hashes, st.hashes, sc.done)
    BY <2>10, AdvanceHashes, Zenon DEF Shapes
  <2> HIDE DEF n
  <2> QED
    BY <2>11, <2>12, RecordPlain, Zenon
<1> QED
  BY <1>1, <1>2, Zenon

\* A scan that ends with an error stores nothing.
LEMMA FailQuiet ==
    ASSUME Shapes, FailScan PROVE QuietStep
<1>1. Ready(sc, EndScan(sc, "failed"))
  BY EndScanReady, Zenon
<1> QED
  BY <1>1, MovePlain, Zenon DEF FailScan, QuietStep, world, stores, scanState

\* The steps that leave the stores alone.
LEMMA QuietActions ==
    ASSUME CoinsInv,
           \/ FlushFrontiers \/ StopScan \/ Joined \/ Cancel \/ ClearScanState
           \/ RequestFails \/ RollState \/ SpendFloor \/ ChoosePass
           \/ Checkpoint \/ StopCheck \/ ReceiveDone \/ BeginSweep \/ SweepTop
           \/ TakeFailure \/ SweepCheckpoint \/ SweepJump
           \/ \E h \in 1..MaxHeight : FetchFilter(h) \/ FilterMissing(h) \/ FilterFails(h)
    PROVE  QuietStep
<1>0. /\ Shapes /\ DOMAIN sc = Fields /\ DOMAIN sc.done \subseteq 1..MaxHeight
      /\ Same(sc, sc)
  BY Zenon DEF CoinsInv, Shapes, ScanOK, Served, Same
<1>1. ASSUME NEW t, Ready(sc, t), sc' = t, UNCHANGED <<world, stores, scanState, bc>>
      PROVE  QuietStep
  BY <1>0, <1>1, MovePlain, Zenon DEF QuietStep, world, stores, scanState
<1>2. ASSUME NEW t, NEW h, Ready(sc, t), Record(AdvanceSpendFrontier(st, h), t),
             UNCHANGED <<world, stores, bc>>
      PROVE  QuietStep
  BY <1>0, <1>2, SpendFrontierPlain, Zenon DEF QuietStep, world, stores
<1>3. ASSUME NEW t, Ready(sc, t), RecordTip(t), UNCHANGED <<world, stores, bc>>
      PROVE  QuietStep
  BY <1>0, <1>3, RecordTipPlain, Zenon DEF QuietStep, world, stores
<1>4. ASSUME Same(sc, sc'), UNCHANGED <<world, stores, scanState, bc>>
      PROVE  QuietStep
  BY <1>4, Zenon DEF QuietStep, world, stores, scanState
<1>5. \A o : Ready(sc, EndScan(sc, o))
  BY EndScanReady, Zenon
<1>6. CASE FlushFrontiers
  <2>1. PICK t : t = [sc EXCEPT !.pc = sc.then, !.then = "idle"]
    BY Zenon
  <2>2. DOMAIN t = Fields /\ t.pc = sc.then /\ t.done = sc.done /\ t.got = sc.got
    BY <1>0, <2>1, FieldNames
  <2>3. sc.pc = "flush" /\ disk' = st /\ sc' = t /\ UNCHANGED <<world, stores, st, bc>>
    BY <1>6, <2>1, Zenon DEF FlushFrontiers
  <2>4. /\ sc.then \notin Special \cup {"flush"}
        /\ sc.then = "loop" => sc.done = <<>>
    BY <2>3, Zenon DEF CoinsInv, ScanOK, Looping
  <2>5. Plain(sc, sc')
    BY <2>2, <2>3, <2>4, ReadyIsPlain, Zenon DEF Ready
  <2>6. StateFrom
    BY <1>0, <2>3, Zenon DEF StateFrom, Shapes, HashesFrom
  <2> QED
    BY <2>3, <2>5, <2>6, Zenon DEF QuietStep, world, stores
<1>7. CASE StopScan \/ Joined \/ Cancel
  BY <1>0, <1>4, <1>7, Zenon DEF StopScan, Joined, Cancel
<1>8. CASE ClearScanState
  <2>1. /\ Record(NewScanState, IdleScan) /\ (lapse => lapse')
        /\ UNCHANGED <<chain, branch, mempool, stores, bc>>
    BY <1>8, Zenon DEF ClearScanState
  <2>2. Ready(sc, IdleScan)
    BY IdleFields DEF Ready, Fields, Special
  <2>3. PICK n : n = NewScanState
    BY Zenon
  <2>4. DOMAIN n = StateFields /\ DOMAIN n.hashes = {}
    BY <2>3 DEF NewScanState, StateFields
  <2>5. HashesFrom(n.hashes, st.hashes, sc.done)
    BY <2>4, Zenon DEF HashesFrom
  <2>6. Plain(sc, sc') /\ StateFrom
    BY <1>0, <2>1, <2>2, <2>3, <2>4, <2>5, RecordPlain, Zenon
  <2> QED
    BY <2>1, <2>6, Zenon DEF QuietStep, stores
<1>9. CASE RequestFails
  BY <1>0, <1>9, FailQuiet, Zenon DEF RequestFails
<1>10. CASE RollState
  <2>1. PICK t : t = [sc EXCEPT !.pc = "floor"]
    BY Zenon
  <2>2. Ready(sc, t)
    BY <1>0, <2>1, FieldNames DEF Ready, Special
  <2>3. PICK n : n = RollBackState(st, sc.fork)
    BY Zenon
  <2>4. DOMAIN n = StateFields /\ n.hashes = KeptUpTo(st.hashes, sc.fork)
    BY <2>3 DEF RollBackState, StateFields
  <2>5. HashesFrom(n.hashes, st.hashes, sc.done)
    BY <2>4, Zenon DEF HashesFrom, KeptUpTo, Restrict
  <2>6. Record(n, t) /\ UNCHANGED <<world, stores, bc>>
    BY <1>10, <2>1, <2>3, Zenon DEF RollState
  <2>7. Plain(sc, sc') /\ StateFrom
    BY <1>0, <2>2, <2>4, <2>5, <2>6, RecordPlain, Zenon
  <2> QED
    BY <2>6, <2>7, Zenon DEF QuietStep, world, stores
<1>11. CASE SpendFloor
  <2>1. PICK t : t = [sc EXCEPT !.pc = "work"]
    BY Zenon
  <2>2. Ready(sc, t)
    BY <1>0, <2>1, FieldNames DEF Ready, Special
  <2>3. /\ \/ Record(AdvanceSpendFrontier(st, sc.start - 1), t)
           \/ sc' = t /\ UNCHANGED scanState
        /\ UNCHANGED <<world, stores, bc>>
    BY <1>11, <2>1, Zenon DEF SpendFloor
  <2> QED
    BY <1>1, <1>2, <2>2, <2>3, Zenon
<1>12. CASE ChoosePass
  <2>1. PICK t : t = [sc EXCEPT !.pc = "receive"]
    BY Zenon
  <2>2. PICK u : u = [sc EXCEPT !.pc = "spend"]
    BY Zenon
  <2>3. Ready(sc, t) /\ Ready(sc, u)
    BY <1>0, <2>1, <2>2, FieldNames DEF Ready, Special
  <2>4. /\ sc' = t \/ sc' = u \/ sc' = EndScan(sc, "failed")
        /\ UNCHANGED <<world, stores, scanState, bc>>
    <3> DEFINE A == sc.start <= sc.end
               B == EffectiveSpendStart(st, sc.start) <= sc.end
               C == sc.start > sc.end
               e == EndScan(sc, "failed")
    <3>1. /\ sc' = CASE A -> t [] C /\ B -> u [] OTHER -> e
          /\ UNCHANGED <<world, stores, scanState, bc>>
      BY <1>12, <2>1, <2>2, Zenon DEF ChoosePass
    <3> HIDE DEF A, B, C, e
    <3>3. sc' = t \/ sc' = u \/ sc' = e
      BY <3>1
    <3> QED
      BY <3>1, <3>3, Zenon DEF e
  <2> QED
    BY <1>1, <1>5, <2>3, <2>4, Zenon
<1>13. CASE Checkpoint
  <2>1. PICK t : t = [sc EXCEPT !.pc = "stopCheck", !.height = 0]
    BY Zenon
  <2>2. Ready(sc, t)
    BY <1>0, <2>1, FieldNames DEF Ready, Special
  <2>3. RecordTip(t) /\ UNCHANGED <<world, stores, bc>>
    BY <1>13, <2>1, Zenon DEF Checkpoint
  <2> QED
    BY <1>3, <2>2, <2>3, Zenon
<1>14. CASE StopCheck
  <2>1. PICK t : t = [sc EXCEPT !.pc = "receive", !.height = 0]
    BY Zenon
  <2>2. Ready(sc, t)
    BY <1>0, <2>1, FieldNames DEF Ready, Special
  <2>3. /\ \/ RecordTip(EndScan(sc, "stopped"))
           \/ sc' = t /\ UNCHANGED scanState
        /\ UNCHANGED <<world, stores, bc>>
    BY <1>14, <2>1, Zenon DEF StopCheck
  <2> QED
    BY <1>1, <1>3, <1>5, <2>2, <2>3, Zenon
<1>15. CASE ReceiveDone
  <2>1. PICK t : t = [sc EXCEPT !.pc = "spend", !.done = <<>>]
    BY Zenon
  <2>2. Ready(sc, t)
    BY <1>0, <2>1, FieldNames DEF Ready, Special
  <2>3. /\ RecordTip(t) \/ RecordTip(EndScan(sc, "stopped"))
        /\ UNCHANGED <<world, stores, bc>>
    BY <1>15, <2>1, Zenon DEF ReceiveDone
  <2> QED
    BY <1>3, <1>5, <2>2, <2>3, Zenon
<1>16. CASE BeginSweep
  <2> DEFINE resume == EffectiveSpendStart(st, sc.start)
             w == Watchable(coins, resume)
             c == Max({resume, WatchFloor(w)})
             t == [sc EXCEPT !.pc = "sweep", !.watch = w, !.cursor = c, !.next = c]
  <2>1. /\ SweepDone(sc) \/ (sc' = Refill(t) /\ UNCHANGED scanState)
        /\ UNCHANGED <<world, stores, bc>>
    BY <1>16, Zenon DEF BeginSweep
  <2> HIDE DEF resume, w, c
  <2>2. Ready(sc, t)
    BY <1>0, FieldNames DEF Ready, Special
  <2> HIDE DEF t
  <2>3. Ready(sc, Refill(t))
    BY <2>2, RefillSame, ReadySame, Zenon DEF Ready
  <2> QED
    BY <1>1, <1>2, <1>5, <2>1, <2>3, Zenon DEF SweepDone
<1>17. CASE SweepTop
  <2>1. PICK t : t = [sc EXCEPT !.pc = "next"]
    BY Zenon
  <2>2. Ready(sc, t)
    BY <1>0, <2>1, FieldNames DEF Ready, Special
  <2>3. Ready(sc, Refill(t))
    BY <2>2, RefillSame, ReadySame, Zenon DEF Ready
  <2>4. /\ \/ SweepDone(sc)
           \/ Record(AdvanceSpendFrontier(st, sc.cursor - 1), EndScan(sc, "stopped"))
           \/ sc' = Refill(t) /\ UNCHANGED scanState
        /\ UNCHANGED <<world, stores, bc>>
    BY <1>17, <2>1, Zenon DEF SweepTop
  <2> QED
    BY <1>1, <1>2, <1>5, <2>3, <2>4, Zenon DEF SweepDone
<1>18. CASE TakeFailure
  <2>1. PICK t : t = [sc EXCEPT !.failed = {}]
    BY Zenon
  <2>2. Same(sc, t)
    BY <1>0, <2>1, FieldNames DEF Same
  <2>3. FailScan \/ (sc' = t /\ UNCHANGED <<world, stores, scanState, bc>>)
    BY <1>18, <2>1, Zenon DEF TakeFailure
  <2> QED
    BY <1>0, <1>4, <2>2, <2>3, FailQuiet, Zenon
<1>19. CASE SweepCheckpoint
  <2>1. PICK t : t = [sc EXCEPT !.pc = "jump"]
    BY Zenon
  <2>2. Ready(sc, t)
    BY <1>0, <2>1, FieldNames DEF Ready, Special
  <2>3. /\ Record(AdvanceSpendFrontier(st, sc.cursor - 1), t)
        /\ UNCHANGED <<world, stores, bc>>
    BY <1>19, <2>1, Zenon DEF SweepCheckpoint
  <2> QED
    BY <1>2, <2>2, <2>3, Zenon
<1>20. CASE SweepJump
  <2>1. PICK t : t = [sc EXCEPT !.pc = "sweep"]
    BY Zenon
  <2>2. Ready(sc, t)
    BY <1>0, <2>1, FieldNames DEF Ready, Special
  <2> DEFINE f == WatchFloor(sc.watch)
  <2>3. /\ \/ SweepDone(sc)
           \/ Record(AdvanceSpendFrontier(st, f - 1), JumpTo(t, f))
           \/ sc' = t /\ UNCHANGED scanState
        /\ UNCHANGED <<world, stores, bc>>
    BY <1>20, <2>1, Zenon DEF SweepJump
  <2> HIDE DEF f
  <2>4. Ready(sc, JumpTo(t, f))
    BY <2>2, JumpSame, ReadySame, Zenon DEF Ready
  <2> QED
    BY <1>1, <1>2, <1>5, <2>2, <2>3, <2>4, Zenon DEF SweepDone
<1>21. CASE \E h \in 1..MaxHeight : FetchFilter(h) \/ FilterMissing(h) \/ FilterFails(h)
  <2>1. PICK h \in 1..MaxHeight : FetchFilter(h) \/ AbortFetches(h)
    BY <1>21, Zenon DEF FilterMissing, FilterFails
  <2>2. \A f, b : Same(sc, [sc EXCEPT !.flight = f, !.buf = b])
    BY <1>0, FieldNames DEF Same
  <2>3. \A f, g : Same(sc, [sc EXCEPT !.flight = f, !.abort = TRUE, !.failed = g])
    BY <1>0, FieldNames DEF Same
  <2>4. CASE FetchFilter(h)
    <3> DEFINE f == sc.flight \ {h}
               b == IF h < sc.cursor THEN sc.buf
                    ELSE Merge(sc.buf, Entry(h, [hash |-> Hash(h), txs |-> chain[h].txs]))
    <3>1. /\ sc' = [sc EXCEPT !.flight = f, !.buf = b]
          /\ UNCHANGED <<world, stores, scanState, bc>>
      BY <2>4, Zenon DEF FetchFilter
    <3> HIDE DEF f, b
    <3> QED
      BY <1>4, <2>2, <3>1, Zenon
  <2>5. CASE AbortFetches(h)
    <3> DEFINE f == sc.flight \ {h}
    <3>1. /\ sc' = [sc EXCEPT !.flight = f, !.abort = TRUE, !.failed = {h}]
          /\ UNCHANGED <<world, stores, scanState, bc>>
      BY <2>5, Zenon DEF AbortFetches
    <3> HIDE DEF f
    <3> QED
      BY <1>4, <2>3, <3>1, Zenon
  <2> QED
    BY <2>1, <2>4, <2>5, Zenon
<1> QED
  BY <1>6, <1>7, <1>8, <1>9, <1>10, <1>11, <1>12, <1>13, <1>14, <1>15, <1>16,
     <1>17, <1>18, <1>19, <1>20, <1>21, Zenon

-----------------------------------------------------------------------------
\* An empty map of hashes or of blocks claims nothing.
LEMMA NothingHeld ==
    ASSUME NEW ch, NEW br, NEW cs, NEW sk
    PROVE  /\ Served(ch, br, <<>>) /\ Vouched(ch, cs, sk, <<>>) /\ Fetched(ch, br, <<>>)
<1>1. DOMAIN <<>> = {}
  OBVIOUS
<1> QED
  BY <1>1, Zenon DEF Served, Vouched, Fetched

\* A plain step keeps the scan thread consistent with the chain.
LEMMA PlainOK ==
    ASSUME NEW ch, NEW br, NEW cs, NEW sk, NEW hs, NEW hs2, NEW s, NEW t,
           ScanOK(ch, br, cs, sk, hs, s), Plain(s, t)
    PROVE  ScanOK(ch, br, cs, sk, hs2, t)
<1>1. /\ Served(ch, br, t.done) /\ Vouched(ch, cs, sk, t.done)
      /\ Fetched(ch, br, t.got)
  BY NothingHeld, Zenon DEF ScanOK, Plain
<1>2. "fork" \in Special /\ "rollCoins" \in Special
  BY DEF Special
<1>3. t.pc # "fork" /\ t.pc # "rollCoins"
  BY <1>2, Zenon DEF Plain
<1> QED
  BY <1>1, <1>3, Zenon DEF ScanOK, Plain

\* So does a step that changes neither the place nor the blocks held.
LEMMA SameOK ==
    ASSUME NEW ch, NEW br, NEW cs, NEW sk, NEW hs, NEW s, NEW t,
           ScanOK(ch, br, cs, sk, hs, s), Same(s, t)
    PROVE  ScanOK(ch, br, cs, sk, hs, t)
BY Zenon DEF ScanOK, Same, Looping

\* Hashes taken from two vouched maps are vouched for.
LEMMA HashesVouched ==
    ASSUME NEW ch, NEW br, NEW cs, NEW sk, NEW hs, NEW hs2, NEW done,
           Served(ch, br, hs), Vouched(ch, cs, sk, hs),
           Served(ch, br, done), Vouched(ch, cs, sk, done),
           HashesFrom(hs2, hs, done)
    PROVE  Served(ch, br, hs2) /\ Vouched(ch, cs, sk, hs2)
BY Zenon DEF Served, Vouched, HashesFrom

\* A step that stores nothing and changes no block keeps CoinsInv.
LEMMA QuietKeepsCoins ==
    ASSUME CoinsInv, UNCHANGED <<chain, branch, coins, skipped>>,
           \/ Plain(sc, sc') /\ StateFrom
           \/ Same(sc, sc') /\ UNCHANGED <<st, disk>>
    PROVE  CoinsInv'
<1>1. /\ chain' = chain /\ branch' = branch /\ coins' = coins /\ skipped' = skipped
  BY Zenon
<1>2. CASE Plain(sc, sc') /\ StateFrom
  <2>1. ScanOK(chain, branch, coins, skipped, st'.hashes, sc')
    BY <1>2, PlainOK, Zenon DEF CoinsInv
  <2>2. /\ Served(chain, branch, st'.hashes)
        /\ Vouched(chain, coins, skipped, st'.hashes)
    BY <1>2, HashesVouched, Zenon DEF CoinsInv, StateFrom, ScanOK
  <2> QED
    BY <1>1, <1>2, <2>1, <2>2, Zenon DEF CoinsInv, StateFrom
<1>3. CASE Same(sc, sc') /\ UNCHANGED <<st, disk>>
  <2>1. ScanOK(chain, branch, coins, skipped, st.hashes, sc')
    BY <1>3, SameOK, Zenon DEF CoinsInv
  <2> QED
    BY <1>1, <1>3, <2>1, Zenon DEF CoinsInv
<1> QED
  BY <1>2, <1>3, Zenon

-----------------------------------------------------------------------------
(***************************************************************************)
(* The coin store: a step that keeps every block stored that is on the     *)
(* chain.                                                                  *)
(***************************************************************************)
StoredStays(ch, cs, sk, cs2, sk2) ==
    \A h \in 1..MaxHeight :
       h <= Len(ch) /\ Stored(ch, cs, sk, h) => Stored(ch, cs2, sk2, h)

HeightsKept(cs, cs2) ==
    \A c \in DOMAIN cs : c \in DOMAIN cs2 /\ cs2[c].height = cs[c].height

Inserted(cs, outs, h, cs2) ==
    /\ DOMAIN cs2 = DOMAIN cs \cup outs
    /\ \A c \in outs : cs2[c].height = h
    /\ \A c \in DOMAIN cs \ outs : cs2[c] = cs[c]

RolledBack(cs, fork, cs2) ==
    /\ DOMAIN cs2 = {c \in DOMAIN cs : ~Above(cs[c].height, fork)}
    /\ \A c \in DOMAIN cs2 : cs2[c].height = cs[c].height

\* Coins that stay stored still vouch for the hashes.
LEMMA StoresKeepVouched ==
    ASSUME NEW ch, NEW br, NEW cs, NEW sk, NEW cs2, NEW sk2, NEW f,
           StoredStays(ch, cs, sk, cs2, sk2),
           Served(ch, br, f), Vouched(ch, cs, sk, f)
    PROVE  Vouched(ch, cs2, sk2, f)
BY Zenon DEF StoredStays, Served, Vouched, Current

\* Coins that stay stored keep the scan thread consistent.
LEMMA StoresKeepScan ==
    ASSUME NEW ch, NEW br, NEW cs, NEW sk, NEW cs2, NEW sk2, NEW hs, NEW s,
           StoredStays(ch, cs, sk, cs2, sk2), ScanOK(ch, br, cs, sk, hs, s)
    PROVE  ScanOK(ch, br, cs2, sk2, hs, s)
<1>1. Vouched(ch, cs2, sk2, s.done)
  BY StoresKeepVouched, Zenon DEF ScanOK
<1> QED
  BY <1>1, Zenon DEF ScanOK

\* Coins that stay, at the height they have.
LEMMA HeightsStay ==
    ASSUME NEW ch, NEW cs, NEW sk, NEW cs2, HeightsKept(cs, cs2)
    PROVE  StoredStays(ch, cs, sk, cs2, sk)
BY Zenon DEF StoredStays, Stored, HeightsKept

\* mark_spent changes no height.
LEMMA MarkHeights ==
    ASSUME NEW cs, NEW S, NEW t
    PROVE  HeightsKept(cs, MarkSpent(cs, S, t))
<1>1. \A c \in DOMAIN cs : WithStatus(cs[c], Spent(t, NoBlock)).height = cs[c].height
  BY DEF WithStatus
<1> QED
  BY <1>1, Zenon DEF MarkSpent, HeightsKept

\* Confirming a spend changes no height.
LEMMA ConfirmHeights ==
    ASSUME NEW cs, NEW S, NEW hash
    PROVE  HeightsKept(cs, ConfirmSpend(cs, S, hash))
<1>1. \A c \in DOMAIN cs :
         WithStatus(cs[c], Confirmed(cs[c].status, hash)).height = cs[c].height
  BY DEF WithStatus
<1> QED
  BY <1>1, Zenon DEF ConfirmSpend, HeightsKept


\* apply_unconfirmed_spend changes the height of no coin already there.
LEMMA InjectHeights ==
    ASSUME NEW cs, NEW t, NEW ins, NEW outs
    PROVE  HeightsKept(cs, InjectSpend(cs, t, ins, outs))
<1>1. PICK m : m = MarkSpent(cs, ins, t)
  BY Zenon
<1>2. PICK n : n = [c \in outs |-> [height |-> Unconfirmed, status |-> Unspent]]
  BY Zenon
<1>3. InjectSpend(cs, t, ins, outs) = Merge(n, m)
  BY <1>1, <1>2, Zenon DEF InjectSpend
<1>4. HeightsKept(cs, m)
  BY <1>1, MarkHeights, Zenon
<1>5. PICK r : r = Merge(n, m)
  BY Zenon
<1>6. \A c \in DOMAIN m : c \in DOMAIN r /\ r[c] = m[c]
  BY <1>5, Zenon DEF Merge
<1>7. HeightsKept(cs, r)
  BY <1>4, <1>6, Zenon DEF HeightsKept
<1> QED
  BY <1>3, <1>5, <1>7, Zenon

\* insert_outputs: the coins of the block have its height, the others theirs.
LEMMA InsertHeights ==
    ASSUME NEW cs, NEW outs, NEW h
    PROVE  Inserted(cs, outs, h, InsertOutputs(cs, outs, h))
<1> DEFINE S(c) == IF c \in DOMAIN cs THEN cs[c].status ELSE Unspent
<1>1. PICK n : n = [c \in outs |-> [height |-> h, status |-> S(c)]]
  BY Zenon
<1>2. DOMAIN n = outs /\ \A c \in outs : n[c] = [height |-> h, status |-> S(c)]
  BY <1>1, Zenon
<1>3. InsertOutputs(cs, outs, h) = Merge(cs, n)
  BY <1>1, Zenon DEF InsertOutputs
<1> HIDE DEF S
<1>4. \A c \in outs : n[c].height = h
  BY <1>2
<1>5. PICK r : r = Merge(cs, n)
  BY Zenon
<1>6. /\ DOMAIN r = DOMAIN cs \cup DOMAIN n /\ \A c \in DOMAIN n : r[c] = n[c]
      /\ \A c \in DOMAIN cs \ DOMAIN n : r[c] = cs[c]
  BY <1>5, Zenon DEF Merge
<1>7. \A c \in outs : r[c].height = h
  BY <1>2, <1>4, <1>6, Zenon
<1>8. DOMAIN r = DOMAIN cs \cup outs /\ \A c \in DOMAIN cs \ outs : r[c] = cs[c]
  BY <1>2, <1>6, Zenon
<1> QED
  BY <1>3, <1>5, <1>7, <1>8, Zenon DEF Inserted

\* roll_back keeps the coins that are not above the fork.
LEMMA RollBackHeights ==
    ASSUME NEW cs, NEW fork, NEW gone
    PROVE  RolledBack(cs, fork, RollBackCoins(cs, fork, gone))
<1>1. \A c \in DOMAIN cs :
         WithStatus(cs[c], Reopened(cs[c].status, gone)).height = cs[c].height
  BY DEF WithStatus
<1> QED
  BY <1>1, Zenon DEF RollBackCoins, RolledBack

\* A scan begins with the hashes it has to compare.
LEMMA BeginOK ==
    ASSUME NEW br, NEW cs, NEW sk, NEW s, NEW o, DOMAIN s = Fields, s.done = <<>>,
           Fetched(chain, br, s.got)
    PROVE  ScanOK(chain, br, cs, sk, st.hashes, BeginScan(s, o))
<1> DEFINE a == IF o = Never THEN NextStart(st.scanned, Birthday) ELSE Max({o, Birthday})
<1>1. PICK t : t = [s EXCEPT !.pc = "fork", !.start = a, !.end = Len(chain), !.calm = TRUE,
                             !.known = st.hashes, !.probe = DOMAIN st.hashes,
                             !.outcome = "none"]
  BY Zenon
<1>2. BeginScan(s, o) = t
  BY <1>1, Zenon DEF BeginScan
<1> HIDE DEF a
<1>3. /\ DOMAIN t = Fields /\ t.pc = "fork" /\ t.done = <<>> /\ t.got = s.got
      /\ t.known = st.hashes /\ t.probe = DOMAIN st.hashes
  BY <1>1, FieldNames
<1>4. Served(chain, br, t.done) /\ Vouched(chain, cs, sk, t.done)
  BY <1>3, NothingHeld, Zenon
<1>5. t.pc # "flush" /\ t.pc # "rollCoins" /\ t.pc # "loop"
  BY <1>3
<1> QED
  BY <1>2, <1>3, <1>4, <1>5, Zenon DEF ScanOK


\* A block mined on top keeps CoinsInv.
LEMMA MineKeepsCoins ==
    ASSUME CoinsInv, NEW B \in SUBSET Txs, Mine(B) PROVE CoinsInv'
<1>1. /\ chain' = Append(chain, [branch |-> branch, txs |-> B])
      /\ branch' = branch /\ coins' = coins /\ skipped' = skipped
      /\ st' = st /\ disk' = disk /\ sc' = sc /\ B \cap OnChain = {}
  BY Zenon DEF Mine, Minable, stores, scanState
<1>2. chain \in Seq([branch : Nat, txs : SUBSET Txs])
  BY Zenon DEF CoinsInv, ChainOK
<1>3. DOMAIN chain = 1..Len(chain)
  BY <1>2
<1>4. \A i \in 1..Len(chain) : chain[i].txs \cap B = {}
  BY <1>1, <1>3 DEF OnChain, Range
<1>5. ChainOK(chain', branch) /\ Evolves(chain, branch, chain', branch)
  BY <1>1, <1>4, GrowEvolves, Zenon DEF CoinsInv
<1>6. /\ Served(chain', branch, st.hashes) /\ Vouched(chain', coins, skipped, st.hashes)
      /\ ScanOK(chain', branch, coins, skipped, st.hashes, sc)
  BY <1>5, EvolvesKeeps, Zenon DEF CoinsInv
<1> QED
  BY <1>1, <1>5, <1>6, Zenon DEF CoinsInv

\* A reorganisation keeps CoinsInv: it opens a branch no hash names.
LEMMA ReorgKeepsCoins ==
    ASSUME CoinsInv, NEW keep \in 0..(Len(chain) - 1), Reorg(keep) PROVE CoinsInv'
<1>1. /\ chain' = SubSeq(chain, 1, keep) /\ branch' = branch + 1
      /\ coins' = coins /\ skipped' = skipped
      /\ st' = st /\ disk' = disk /\ sc' = [sc EXCEPT !.calm = FALSE]
  BY Zenon DEF Reorg, stores, scanState
<1>2. ChainOK(chain', branch') /\ Evolves(chain, branch, chain', branch')
  BY <1>1, CutEvolves, Zenon DEF CoinsInv
<1>3. /\ Served(chain', branch', st.hashes) /\ Vouched(chain', coins, skipped, st.hashes)
      /\ ScanOK(chain', branch', coins, skipped, st.hashes, sc)
  BY <1>2, EvolvesKeeps, Zenon DEF CoinsInv
<1>4. DOMAIN sc = Fields
  BY Zenon DEF CoinsInv, ScanOK
<1>5. Same(sc, sc')
  BY <1>1, <1>4, FieldNames DEF Same
<1>6. ScanOK(chain', branch', coins, skipped, st.hashes, sc')
  BY <1>3, <1>5, SameOK, Zenon
<1> QED
  BY <1>1, <1>2, <1>3, <1>6, Zenon DEF CoinsInv

\* The start of a scan holds no scanned block.
LEMMA BeginKeepsCoins ==
    ASSUME CoinsInv, NEW s, NEW o, DOMAIN s = Fields, s.done = <<>>,
           Fetched(chain, branch, s.got), sc' = BeginScan(s, o),
           UNCHANGED <<chain, branch, coins, skipped, st, disk>>
    PROVE  CoinsInv'
<1>1. ScanOK(chain, branch, coins, skipped, st.hashes, sc')
  BY BeginOK, Zenon
<1> QED
  BY <1>1, Zenon DEF CoinsInv

\* Starting a scan keeps CoinsInv.
LEMMA StartKeepsCoins ==
    ASSUME CoinsInv, NEW mode, NEW o, StartScan(mode, o) PROVE CoinsInv'
<1>1. PICK i : i = IdleScan
  BY Zenon
<1>2. PICK s : s = [i EXCEPT !.mode = mode]
  BY Zenon
<1>3. DOMAIN i = Fields /\ i.done = <<>> /\ i.got = <<>>
  BY <1>1, IdleFields, Zenon DEF Fields
<1>4. DOMAIN s = Fields /\ s.done = <<>> /\ s.got = <<>>
  BY <1>2, <1>3, FieldNames
<1>5. sc' = BeginScan(s, o) /\ UNCHANGED <<chain, branch, coins, skipped, st, disk>>
  BY <1>1, <1>2, Zenon DEF StartScan, world, stores, scanState
<1> QED
  BY <1>4, <1>5, BeginKeepsCoins, NothingHeld, Zenon

\* The next round of a continuous scan keeps CoinsInv.
LEMMA LoopKeepsCoins ==
    ASSUME CoinsInv, ContinueLoop PROVE CoinsInv'
<1>1. Shapes /\ sc.pc = "loop" /\ UNCHANGED <<world, stores, scanState, bc>>
  BY Zenon DEF ContinueLoop, CoinsInv, Shapes, ScanOK
<1>2. CASE sc' = EndScan(sc, "stopped")
  <2>1. Plain(sc, sc') /\ StateFrom
    BY <1>1, <1>2, EndScanReady, MovePlain, Zenon
  <2> QED
    BY <1>1, <2>1, QuietKeepsCoins, Zenon DEF world, stores
<1>3. CASE sc' = BeginScan(sc, Never)
  <2>1. DOMAIN sc = Fields /\ sc.done = <<>> /\ Fetched(chain, branch, sc.got)
    BY <1>1, Zenon DEF CoinsInv, ScanOK, Looping
  <2> QED
    BY <1>1, <1>3, <2>1, BeginKeepsCoins, Zenon DEF world, stores, scanState
<1> QED
  BY <1>2, <1>3, Zenon DEF ContinueLoop

\* Comparing the kept hashes with the server keeps CoinsInv.
LEMMA FindForkKeepsCoins ==
    ASSUME CoinsInv, FindFork PROVE CoinsInv'
<1> DEFINE h == Max(sc.probe)
           t1 == [sc EXCEPT !.pc = "floor"]
           t2 == [sc EXCEPT !.probe = @ \ {h}]
           m  == Min({sc.start, h + 1})
           t3 == [sc EXCEPT !.pc = "rollCoins", !.fork = h, !.start = m]
<1>0. /\ Shapes /\ DOMAIN sc = Fields /\ sc.pc = "fork"
      /\ ScanOK(chain, branch, coins, skipped, st.hashes, sc)
  BY Zenon DEF FindFork, CoinsInv, Shapes, ScanOK
<1>1. /\ sc.known = st.hashes /\ sc.probe \subseteq DOMAIN st.hashes
      /\ \A k \in DOMAIN st.hashes \ sc.probe : ~Current(chain, k, st.hashes[k])
      /\ sc.done = <<>>
  BY <1>0, Zenon DEF ScanOK
<1>2. /\ \/ sc' = t1
         \/ FailScan
         \/ /\ sc.probe # {} /\ h <= Len(chain)
            /\ \/ Hash(h) # sc.known[h] /\ sc' = t2
               \/ Hash(h) = sc.known[h] /\ sc' = t1
               \/ sc' = t3
      /\ UNCHANGED <<world, stores, scanState, bc>>
  <2>1. CASE sc.probe # {} /\ h <= Len(chain)
    <3> DEFINE A == Hash(h) # sc.known[h]
               B == /\ Hash(h) = sc.known[h]
                    /\ sc.probe = DOMAIN sc.known
    <3>1. /\ FailScan \/ sc' = t1 \/ sc' = CASE A -> t2 [] B -> t1 [] OTHER -> t3
          /\ UNCHANGED <<world, stores, scanState, bc>>
      BY <2>1, Zenon DEF FindFork, FailScan
    <3>2. B => Hash(h) = sc.known[h]
      BY Zenon
    <3> HIDE DEF t1, t2, t3, h, B
    <3>3. \/ FailScan \/ sc' = t1
          \/ Hash(h) # sc.known[h] /\ sc' = t2
          \/ B /\ sc' = t1
          \/ sc' = t3
      BY <3>1
    <3> QED
      BY <2>1, <3>1, <3>2, <3>3, Zenon
  <2>2. CASE ~(sc.probe # {} /\ h <= Len(chain))
    BY <2>2, Zenon DEF FindFork, FailScan
  <2> QED
    BY <2>1, <2>2, Zenon
<1>3. UNCHANGED <<chain, branch, coins, skipped, st, disk>>
  BY <1>2, Zenon DEF world, stores, scanState
<1>4. CASE sc' = t1
  <2>1. Ready(sc, t1)
    BY <1>0, FieldNames DEF Ready, Special
  <2>2. Plain(sc, sc') /\ StateFrom
    BY <1>0, <1>2, <1>4, <2>1, MovePlain, Zenon
  <2> QED
    BY <1>3, <2>2, QuietKeepsCoins, Zenon
<1>5. CASE FailScan
  BY <1>0, <1>3, <1>5, FailQuiet, QuietKeepsCoins, Zenon DEF QuietStep
<1>6. CASE sc.probe # {} /\ Hash(h) # sc.known[h] /\ sc' = t2
  <2> HIDE DEF h
  <2>1. /\ DOMAIN t2 = Fields /\ t2.pc = "fork" /\ t2.done = sc.done /\ t2.got = sc.got
        /\ t2.known = sc.known /\ t2.probe = sc.probe \ {h}
    BY <1>0, FieldNames
  <2> HIDE DEF t2
  <2>2. t2.pc # "flush" /\ t2.pc # "loop" /\ t2.pc # "rollCoins"
    BY <2>1
  <2>3. ~Current(chain, h, st.hashes[h])
    BY <1>1, <1>6, Zenon DEF Current, Hash
  <2>4. \A k \in DOMAIN st.hashes \ t2.probe : ~Current(chain, k, st.hashes[k])
    BY <1>1, <2>1, <2>3, Zenon
  <2>5. ScanOK(chain, branch, coins, skipped, st.hashes, t2)
    BY <1>0, <1>1, <2>1, <2>2, <2>4, Zenon DEF ScanOK, Looping
  <2> QED
    BY <1>3, <1>6, <2>5, Zenon DEF CoinsInv
<1>7. CASE sc.probe # {} /\ sc' = t3
  <2>1. h \in sc.probe /\ \A y \in sc.probe : h >= y
    <3>1. MaxHeight \in Nat /\ sc.probe \in SUBSET (1..MaxHeight)
      BY <1>1, SpScanAssumption, Zenon DEF CoinsInv, Served
    <3> QED
      BY <1>7, <3>1, MaxIsMember, Zenon
  <2>2. \A k \in DOMAIN st.hashes : k > h => k \notin sc.probe
    <3>1. DOMAIN st.hashes \subseteq 1..MaxHeight /\ MaxHeight \in Nat
      BY SpScanAssumption, Zenon DEF CoinsInv, Served
    <3> HIDE DEF h
    <3>2. h \in 1..MaxHeight
      BY <1>1, <2>1, <3>1, Zenon
    <3> QED
      BY <2>1, <3>1, <3>2
  <2> HIDE DEF h, m
  <2>3. /\ DOMAIN t3 = Fields /\ t3.pc = "rollCoins" /\ t3.done = sc.done /\ t3.got = sc.got
        /\ t3.known = sc.known /\ t3.probe = sc.probe /\ t3.fork = h
    BY <1>0, FieldNames
  <2> HIDE DEF t3
  <2>4. t3.pc # "flush" /\ t3.pc # "loop" /\ t3.pc # "fork"
    BY <2>3
  <2>5. \A k \in DOMAIN st.hashes : k > t3.fork => ~Current(chain, k, st.hashes[k])
    BY <1>1, <2>2, <2>3, Zenon
  <2>6. ScanOK(chain, branch, coins, skipped, st.hashes, t3)
    BY <1>0, <1>1, <2>3, <2>4, <2>5, Zenon DEF ScanOK, Looping
  <2> QED
    BY <1>3, <1>7, <2>6, Zenon DEF CoinsInv
<1> QED
  BY <1>2, <1>4, <1>5, <1>6, <1>7, Zenon

\* The coins above the fork go; no block that is still current is above it.
LEMMA RollCoinsKeepsCoins ==
    ASSUME CoinsInv, RollCoins PROVE CoinsInv'
<1> DEFINE gone == {sc.known[h] : h \in {h \in DOMAIN sc.known : h > sc.fork}}
           pend == SpendingTxids(coins')
           t == [sc EXCEPT !.pc = "rollTxs", !.pending = pend]
<1>0. /\ sc.pc = "rollCoins" /\ coins' = RollBackCoins(coins, sc.fork, gone) /\ sc' = t
      /\ UNCHANGED <<chain, branch, skipped, st, disk>>
  BY Zenon DEF RollCoins, world, scanState
<1> HIDE DEF gone, pend
<1>1. /\ DOMAIN sc = Fields
      /\ \A h \in DOMAIN st.hashes : h > sc.fork => ~Current(chain, h, st.hashes[h])
      /\ Fetched(chain, branch, sc.got) /\ sc.done = <<>>
  BY <1>0, Zenon DEF CoinsInv, ScanOK
<1>2. /\ DOMAIN coins' = {c \in DOMAIN coins : ~Above(coins[c].height, sc.fork)}
      /\ \A c \in DOMAIN coins' : coins'[c].height = coins[c].height
  <2>1. RolledBack(coins, sc.fork, coins')
    BY <1>0, RollBackHeights, Zenon
  <2> QED
    BY <2>1, Zenon DEF RolledBack
<1>3. ASSUME NEW h \in DOMAIN st.hashes, Current(chain, h, st.hashes[h])
      PROVE  Stored(chain, coins', skipped, h)
  <2>1. Stored(chain, coins, skipped, h)
    BY <1>3, Zenon DEF CoinsInv, Vouched
  <2>2. ~Above(h, sc.fork)
    BY <1>1, <1>3, Zenon DEF Above
  <2> QED
    BY <1>2, <2>1, <2>2, Zenon DEF Stored
<1>4. Vouched(chain, coins', skipped, st.hashes)
  BY <1>3, Zenon DEF Vouched
<1>5. /\ DOMAIN t = Fields /\ t.pc = "rollTxs" /\ t.done = sc.done /\ t.got = sc.got
  BY <1>1, FieldNames
<1> HIDE DEF t
<1>6. t.pc # "flush" /\ t.pc # "loop" /\ t.pc # "fork" /\ t.pc # "rollCoins"
  BY <1>5
<1>7. ScanOK(chain, branch, coins', skipped, st.hashes, t)
  BY <1>1, <1>5, <1>6, NothingHeld, Zenon DEF ScanOK, Looping
<1> QED
  BY <1>0, <1>4, <1>7, Zenon DEF CoinsInv

\* A block received is the block of its height and branch.
LEMMA FetchKeepsCoins ==
    ASSUME CoinsInv, NEW h \in 1..MaxHeight, FetchBlock(h) PROVE CoinsInv'
<1>0. Shapes /\ DOMAIN sc = Fields /\ sc.pc = "receive" /\ ChainOK(chain, branch)
  BY Zenon DEF FetchBlock, CoinsInv, Shapes, ScanOK
<1>1. CASE FailScan
  BY <1>0, <1>1, FailQuiet, QuietKeepsCoins, Zenon DEF QuietStep
<1>2. CASE ~FailScan
  <2>1. PICK b : b = [hash |-> Hash(h), txs |-> chain[h].txs]
    BY Zenon
  <2>2. PICK g : g = Merge(sc.got, Entry(h, b))
    BY Zenon
  <2>3. PICK t : t = [sc EXCEPT !.got = g]
    BY Zenon
  <2>4. /\ h <= Len(chain) /\ sc' = t /\ UNCHANGED <<chain, branch, coins, skipped, st, disk>>
    BY <1>2, <2>1, <2>2, <2>3, Zenon DEF FetchBlock, world, stores, scanState
  <2>5. /\ DOMAIN t = Fields /\ t.pc = "receive" /\ t.done = sc.done /\ t.got = g
    BY <1>0, <2>3, FieldNames
  <2>6. /\ DOMAIN g = DOMAIN sc.got \cup {h} /\ g[h] = b
        /\ \A k \in DOMAIN sc.got \ {h} : g[k] = sc.got[k]
    BY <2>2, Zenon DEF Merge, Entry
  <2>7. b.hash = <<h, chain[h].branch>> /\ b.txs = chain[h].txs
    BY <2>1 DEF Hash
  <2>8. Dated(chain, branch, h, b.hash)
    <3>1. chain \in Seq([branch : Nat, txs : SUBSET Txs]) /\ h \in 1..Len(chain)
      BY <1>0, <2>4, SpScanAssumption DEF ChainOK
    <3>2. chain[h].branch \in Nat
      BY <3>1, BlockFields, Zenon
    <3>3. chain[h].branch <= branch /\ branch \in Nat
      BY <1>0, <3>1, Zenon DEF ChainOK
    <3> QED
      BY <2>4, <2>7, <3>1, <3>2, <3>3 DEF Dated
  <2>9. Fetched(chain, branch, sc.got)
    BY Zenon DEF CoinsInv, ScanOK
  <2>10. Fetched(chain, branch, g)
    BY <2>6, <2>7, <2>8, <2>9, Zenon DEF Fetched
  <2>11. t.pc # "flush" /\ t.pc # "loop" /\ t.pc # "fork" /\ t.pc # "rollCoins"
    BY <2>5
  <2>12. ScanOK(chain, branch, coins, skipped, st.hashes, t)
    BY <2>5, <2>10, <2>11, Zenon DEF CoinsInv, ScanOK, Looping
  <2> QED
    BY <2>4, <2>12, Zenon DEF CoinsInv
<1> QED
  BY <1>1, <1>2, Zenon

\* commit_block: what the block pays the account is stored before the block
\* counts as scanned, and no other block loses a coin by it.
LEMMA CommitKeepsCoins ==
    ASSUME CoinsInv, NEW h \in DOMAIN sc.got, CommitBlock(h) PROVE CoinsInv'
<1>0. Shapes /\ DOMAIN sc = Fields /\ sc.pc = "receive" /\ ChainOK(chain, branch)
      /\ Fetched(chain, branch, sc.got)
      /\ Served(chain, branch, sc.done) /\ Vouched(chain, coins, skipped, sc.done)
  BY Zenon DEF CommitBlock, CoinsInv, Shapes, ScanOK
<1>1. CASE FailScan
  BY <1>0, <1>1, FailQuiet, QuietKeepsCoins, Zenon DEF QuietStep
<1>2. CASE ~FailScan
  <2>1. PICK b : b = sc.got[h]
    BY Zenon
  <2>2. PICK outs : outs = DeriveOwned(h, b)
    BY Zenon
  <2> DEFINE p == IF outs = {} THEN "tip" ELSE "commitTxs"
             g == Restrict(sc.got, DOMAIN sc.got \ {h})
             d == Merge(sc.done, Entry(h, b.hash))
             X == IF Matches(b) THEN (b.txs \cap chain[h].txs \cap Pays) \ outs ELSE {}
             t == [sc EXCEPT !.pc = p, !.got = g, !.done = d, !.height = h, !.outs = outs]
  <2>3. /\ ~(Matches(b) /\ h > Len(chain))
        /\ coins' = InsertOutputs(coins, outs, h) /\ sc' = t
        /\ skipped' = (skipped \ outs) \cup X
        /\ UNCHANGED <<chain, branch, st, disk>>
    BY <1>2, <2>1, <2>2, Zenon DEF CommitBlock, world, scanState
  <2>4. p \in {"tip", "commitTxs"}
    BY Zenon
  <2>5. /\ \A k \in DOMAIN g : k \in DOMAIN sc.got /\ g[k] = sc.got[k]
    BY Zenon DEF Restrict
  <2>6. /\ DOMAIN d = DOMAIN sc.done \cup {h} /\ d[h] = b.hash
        /\ \A k \in DOMAIN sc.done \ {h} : d[k] = sc.done[k]
    BY Zenon DEF Merge, Entry
  <2>7. X \subseteq Pays /\ X \cap outs = {}
        /\ (Matches(b) => (b.txs \cap chain[h].txs \cap Pays) \ outs \subseteq X)
    BY Zenon
  <2> HIDE DEF p, g, d, X
  <2>8. /\ DOMAIN t = Fields /\ t.pc = p /\ t.done = d /\ t.got = g
    BY <1>0, FieldNames
  <2> HIDE DEF t
  <2>9. h \in 1..MaxHeight /\ Dated(chain, branch, h, b.hash)
        /\ (Current(chain, h, b.hash) => b.txs = chain[h].txs)
    BY <1>0, <2>1, Zenon DEF Fetched
  <2>10. outs # {} => Matches(b) /\ outs \subseteq chain[h].txs \cap Pays
    BY <2>2, Zenon DEF DeriveOwned, OwnedOutputs
  <2>11. outs # {} => h \in 1..Len(chain)
    <3>1. h \in Nat /\ h >= 1 /\ Len(chain) \in Nat
      BY <1>0, <2>9, SpScanAssumption DEF ChainOK
    <3>2. outs # {} => ~(h > Len(chain))
      BY <2>3, <2>10, Zenon
    <3> QED
      BY <3>1, <3>2
  <2>12. /\ DOMAIN coins' = DOMAIN coins \cup outs
         /\ \A c \in outs : coins'[c].height = h
         /\ \A c \in DOMAIN coins \ outs : coins'[c] = coins[c]
    <3>1. Inserted(coins, outs, h, coins')
      BY <2>3, InsertHeights, Zenon
    <3> QED
      BY <3>1, Zenon DEF Inserted
  <2>13. StoredStays(chain, coins, skipped, coins', skipped')
    <3> SUFFICES ASSUME NEW k \in 1..MaxHeight, k <= Len(chain),
                        Stored(chain, coins, skipped, k),
                        NEW c \in (chain[k].txs \cap Pays) \ skipped'
                 PROVE  c \in DOMAIN coins' /\ coins'[c].height = k
      BY Zenon DEF StoredStays, Stored
    <3>1. k \in 1..Len(chain)
      BY <1>0, SpScanAssumption DEF ChainOK
    <3>2. CASE c \in outs
      <4>1. chain[h].txs \cap chain[k].txs # {}
        BY <2>10, <3>2, Zenon
      <4>2. h = k
        BY <1>0, <2>11, <3>1, <3>2, <4>1, Zenon DEF ChainOK
      <4> QED
        BY <2>12, <3>2, <4>2, Zenon
    <3>3. CASE c \notin outs
      <4>1. c \notin skipped
        BY <2>3, <3>3, Zenon
      <4> QED
        BY <2>12, <3>3, <4>1, Zenon DEF Stored
    <3> QED
      BY <3>2, <3>3, Zenon
  <2>14. Current(chain, h, b.hash) => Stored(chain, coins', skipped', h)
    <3> SUFFICES ASSUME Current(chain, h, b.hash),
                        NEW c \in (chain[h].txs \cap Pays) \ skipped'
                 PROVE  c \in DOMAIN coins' /\ coins'[c].height = h
      BY Zenon DEF Stored
    <3>1. c \in b.txs /\ Matches(b)
      BY <2>9, Zenon DEF Matches
    <3>2. c \in outs
      BY <2>3, <2>7, <3>1, Zenon
    <3> QED
      BY <2>12, <3>2, Zenon
  <2>15. Vouched(chain, coins', skipped', sc.done)
    BY <1>0, <2>13, StoresKeepVouched, Zenon
  <2>16. Served(chain, branch, d) /\ Vouched(chain, coins', skipped', d)
    BY <1>0, <2>6, <2>9, <2>14, <2>15, Zenon DEF Served, Vouched
  <2>17. Fetched(chain, branch, g)
    BY <1>0, <2>5, Zenon DEF Fetched
  <2>18. t.pc # "flush" /\ t.pc # "loop" /\ t.pc # "fork" /\ t.pc # "rollCoins"
    BY <2>4, <2>8
  <2>19. ScanOK(chain, branch, coins', skipped', st.hashes, t)
    BY <2>8, <2>16, <2>17, <2>18, Zenon DEF ScanOK, Looping
  <2>20. Vouched(chain, coins', skipped', st.hashes)
    BY <2>13, StoresKeepVouched, Zenon DEF CoinsInv
  <2> QED
    BY <2>3, <2>19, <2>20, Zenon DEF CoinsInv
<1> QED
  BY <1>1, <1>2, Zenon

\* A spend found or made changes the status of coins, never their height.
LEMMA HeightsKeepCoins ==
    ASSUME CoinsInv, HeightsKept(coins, coins'),
           UNCHANGED <<chain, branch, skipped, st, disk>>,
           Same(sc, sc') \/ Ready(sc, sc')
    PROVE  CoinsInv'
<1>1. StoredStays(chain, coins, skipped, coins', skipped)
  BY HeightsStay, Zenon
<1>2. /\ Vouched(chain, coins', skipped, st.hashes)
      /\ ScanOK(chain, branch, coins', skipped, st.hashes, sc)
  BY <1>1, StoresKeepVouched, StoresKeepScan, Zenon DEF CoinsInv
<1>3. ScanOK(chain, branch, coins', skipped, st.hashes, sc')
  BY <1>2, SameOK, ReadyIsPlain, PlainOK, Zenon
<1> QED
  BY <1>2, <1>3, Zenon DEF CoinsInv

\* The spend sweep keeps CoinsInv: it changes no height.
LEMMA SweepKeepsCoins ==
    ASSUME CoinsInv, SweepBlock PROVE CoinsInv'
<1>0. Shapes /\ DOMAIN sc = Fields
  BY Zenon DEF CoinsInv, Shapes, ScanOK
<1>1. CASE FailScan
  BY <1>0, <1>1, FailQuiet, QuietKeepsCoins, Zenon DEF QuietStep
<1>2. CASE ~FailScan
  <2> DEFINE h == sc.cursor
             b == sc.buf[h]
             hits == DOMAIN sc.watch \cap UNION {Ins[t] : t \in b.txs}
             spent == IF hits # {} /\ h <= Len(chain) /\ b.hash = Hash(h) THEN hits ELSE {}
             outs == {coins[c].status.by : c \in {c \in spent \cap DOMAIN coins :
                                                  coins[c].status.kind = "spent"}}
             f == Restrict(sc.buf, DOMAIN sc.buf \ {h})
             w == Restrict(sc.watch, DOMAIN sc.watch \ spent)
             t == [sc EXCEPT !.pc = "sweepTxs", !.height = h, !.cursor = h + 1,
                             !.buf = f, !.watch = w, !.outs = outs]
  <2>1. /\ coins' = ConfirmSpend(coins, spent, b.hash) /\ sc' = Refill(t)
        /\ UNCHANGED <<chain, branch, skipped, st, disk>>
    BY <1>2, Zenon DEF SweepBlock, world, scanState
  <2> HIDE DEF h, b, hits, spent, outs, f, w
  <2>2. Ready(sc, t)
    BY <1>0, FieldNames DEF Ready, Special
  <2> HIDE DEF t
  <2>3. Ready(sc, sc')
    BY <2>1, <2>2, RefillSame, ReadySame, ZenonT(30) DEF Ready
  <2>4. HeightsKept(coins, coins')
    BY <2>1, ConfirmHeights, Zenon
  <2> QED
    BY <2>1, <2>3, <2>4, HeightsKeepCoins, Zenon
<1> QED
  BY <1>1, <1>2, Zenon

\* Every step keeps CoinsInv.
LEMMA CoinsStep ==
    ASSUME CoinsInv, [Next]_vars PROVE CoinsInv'
<1>0. Shapes /\ DOMAIN sc = Fields /\ Same(sc, sc)
  BY Zenon DEF CoinsInv, Shapes, ScanOK, Same
<1>1. ASSUME QuietStep PROVE CoinsInv'
  BY <1>1, QuietKeepsCoins, Zenon DEF QuietStep
<1>2. ASSUME Same(sc, sc'), UNCHANGED <<chain, branch, coins, skipped, st, disk>>
      PROVE  CoinsInv'
  BY <1>2, QuietKeepsCoins, Zenon
<1>3. ASSUME Ready(sc, sc'), UNCHANGED <<chain, branch, coins, skipped, st, disk>>
      PROVE  CoinsInv'
  BY <1>0, <1>3, MovePlain, QuietKeepsCoins, Zenon DEF scanState
<1>4. CASE \E B \in SUBSET Txs : Mine(B)
  BY <1>4, MineKeepsCoins, Zenon
<1>5. CASE \E keep \in 0..(Len(chain) - 1) : Reorg(keep)
  BY <1>5, ReorgKeepsCoins, Zenon
<1>6. CASE \E mode \in {"oneshot", "continuous"}, o \in {Never} \cup Overrides :
              StartScan(mode, o)
  BY <1>6, StartKeepsCoins, Zenon
<1>7. CASE StopScan \/ Joined \/ Cancel \/ ClearScanState \/ RequestFails
           \/ Checkpoint \/ SweepCheckpoint
  BY <1>1, <1>7, QuietActions, Zenon
<1>8. CASE \E h \in 1..MaxHeight : FilterFails(h)
  BY <1>1, <1>8, QuietActions, Zenon
<1>9. CASE Server
  <2>1. PICK h \in 1..MaxHeight : FetchBlock(h) \/ FetchFilter(h) \/ FilterMissing(h)
    BY <1>9, Zenon DEF Server
  <2>2. CASE FetchBlock(h)
    BY <2>2, FetchKeepsCoins, Zenon
  <2>3. CASE FetchFilter(h) \/ FilterMissing(h)
    BY <1>1, <2>3, QuietActions, Zenon
  <2> QED
    BY <2>1, <2>2, <2>3, Zenon
<1>10. CASE ScanStep
  <2>1. CASE \/ FlushFrontiers \/ RollState \/ SpendFloor \/ ChoosePass \/ StopCheck
             \/ ReceiveDone \/ BeginSweep \/ SweepTop \/ TakeFailure \/ SweepJump
    BY <1>1, <2>1, QuietActions, Zenon
  <2>2. CASE ContinueLoop
    BY <2>2, LoopKeepsCoins, Zenon
  <2>3. CASE FindFork
    BY <2>3, FindForkKeepsCoins, Zenon
  <2>4. CASE RollCoins
    BY <2>4, RollCoinsKeepsCoins, Zenon
  <2>5. CASE \E h \in DOMAIN sc.got : CommitBlock(h)
    BY <2>5, CommitKeepsCoins, Zenon
  <2>6. CASE SweepBlock
    BY <2>6, SweepKeepsCoins, Zenon
  <2>7. CASE RollTxs
    <3>1. sc' = [sc EXCEPT !.pc = "rollState", !.pending = {}]
          /\ UNCHANGED <<chain, branch, coins, skipped, st, disk>>
      BY <2>7, Zenon DEF RollTxs, world, scanState
    <3>2. Ready(sc, sc')
      BY <1>0, <3>1, FieldNames DEF Ready, Special
    <3> QED
      BY <1>3, <3>1, <3>2, Zenon
  <2>8. CASE CommitTxs
    <3>1. sc' = [sc EXCEPT !.pc = "tip", !.outs = {}, !.height = 0]
          /\ UNCHANGED <<chain, branch, coins, skipped, st, disk>>
      BY <2>8, Zenon DEF CommitTxs, world, scanState
    <3>2. Ready(sc, sc')
      BY <1>0, <3>1, FieldNames DEF Ready, Special
    <3> QED
      BY <1>3, <3>1, <3>2, Zenon
  <2>9. CASE SweepTxs
    <3>1. sc' = [sc EXCEPT !.pc = "swept", !.outs = {}, !.height = 0]
          /\ UNCHANGED <<chain, branch, coins, skipped, st, disk>>
      BY <2>9, Zenon DEF SweepTxs, world, scanState
    <3>2. Ready(sc, sc')
      BY <1>0, <3>1, FieldNames DEF Ready, Special
    <3> QED
      BY <1>3, <3>1, <3>2, Zenon
  <2> QED
    BY <1>10, <2>1, <2>2, <2>3, <2>4, <2>5, <2>6, <2>7, <2>8, <2>9, Zenon DEF ScanStep
<1>11. CASE (\E t \in Own : Broadcast(t)) \/ ApplyTxs
  BY <1>0, <1>2, <1>11, Zenon DEF Broadcast, ApplyTxs, stores, scanState, world
<1>12. CASE ApplyCoins
  <2>1. HeightsKept(coins, coins')
    BY <1>12, InjectHeights, Zenon DEF ApplyCoins
  <2> QED
    BY <1>0, <1>12, <2>1, HeightsKeepCoins, Zenon DEF ApplyCoins, world, scanState
<1>13. CASE Crash
  <2>1. /\ st' = disk /\ disk' = disk /\ sc' = IdleScan
        /\ UNCHANGED <<chain, branch, coins, skipped>>
    BY <1>13, Zenon DEF Crash, stores
  <2>2. Ready(sc, IdleScan)
    BY IdleFields DEF Ready, Fields, Special
  <2>3. Plain(sc, sc')
    BY <2>1, <2>2, ReadyIsPlain, Zenon
  <2>4. StateFrom
    BY <1>0, <2>1, Zenon DEF StateFrom, Shapes, HashesFrom
  <2> QED
    BY <2>1, <2>3, <2>4, QuietKeepsCoins, Zenon
<1>14. CASE UNCHANGED vars
  BY <1>0, <1>2, <1>14, Zenon DEF vars
<1> QED
  BY <1>4, <1>5, <1>6, <1>7, <1>8, <1>9, <1>10, <1>11, <1>12, <1>13, <1>14, Zenon DEF Next

\* CoinsInv holds of a new account.
LEMMA CoinsInit ==
    ASSUME Init PROVE CoinsInv
<1>1. /\ chain = Genesis /\ branch = 0 /\ coins = <<>> /\ skipped = {}
      /\ st = NewScanState /\ disk = NewScanState /\ sc = IdleScan
  BY Zenon DEF Init
<1>2. ChainOK(chain, branch)
  <2>1. Genesis \in Seq([branch : {0}, txs : SUBSET Txs])
    BY SpScanAssumption, Zenon
  <2>2. \A i \in 1..Len(Genesis) : Genesis[i] \in [branch : {0}, txs : SUBSET Txs]
    <3> DEFINE S == [branch : {0}, txs : SUBSET Txs]
    <3>1. Genesis \in Seq(S)
      BY <2>1, Zenon
    <3> HIDE DEF S
    <3>2. \A i \in 1..Len(Genesis) : Genesis[i] \in S
      BY <3>1
    <3> QED
      BY <3>2, Zenon DEF S
  <2>3. DOMAIN Genesis = 1..Len(Genesis) /\ Len(Genesis) \in Nat
    BY <2>1
  <2>4. \A i \in 1..Len(Genesis) : Genesis[i] \in [branch : Nat, txs : SUBSET Txs]
                                   /\ Genesis[i].branch <= 0
    BY <2>2
  <2>5. Genesis \in Seq([branch : Nat, txs : SUBSET Txs])
    <3> DEFINE S == [branch : Nat, txs : SUBSET Txs]
               R == [branch : {0}, txs : SUBSET Txs]
    <3>1. Genesis \in Seq(R) /\ \A i \in 1..Len(Genesis) : Genesis[i] \in S
      BY <2>1, <2>4, Zenon
    <3> HIDE DEF S, R
    <3>2. Genesis \in Seq(S)
      BY <3>1
    <3> QED
      BY <3>2, Zenon DEF S
  <2>6. \A i, j \in 1..Len(Genesis) : Genesis[i].txs \cap Genesis[j].txs # {} => i = j
    BY <2>3, SpScanAssumption, Zenon
  <2>7. branch \in Nat
    BY <1>1
  <2> QED
    BY <1>1, <2>4, <2>5, <2>6, <2>7, Zenon DEF ChainOK
<1>3. DOMAIN st = StateFields /\ DOMAIN disk = StateFields /\ disk.hashes = st.hashes
      /\ st.hashes = <<>>
  BY <1>1 DEF NewScanState, StateFields
<1>4. /\ DOMAIN sc = Fields /\ sc.pc = "idle" /\ sc.done = <<>> /\ sc.got = <<>>
  BY <1>1, IdleFields, Zenon DEF Fields
<1>5. sc.pc # "flush" /\ sc.pc # "loop" /\ sc.pc # "fork" /\ sc.pc # "rollCoins"
  BY <1>4
<1>6. ScanOK(chain, branch, coins, skipped, st.hashes, sc)
  BY <1>4, <1>5, NothingHeld, Zenon DEF ScanOK, Looping
<1> QED
  BY <1>2, <1>3, <1>6, NothingHeld, Zenon DEF CoinsInv

\* A block whose hash the scan state keeps, and which is still on the chain, has
\* each of its outputs to the account in the coin store at its height, for any
\* transactions, chain and reorganisation window: commit_block stores the coins
\* before record_scan_frontier keeps the hash, and handle_reorg drops no coin of a
\* block it goes on vouching for.
THEOREM ScannedStayStored == Spec => []ScannedCoinsAreStored
<1>1. Init => CoinsInv
  BY CoinsInit, Zenon
<1>2. CoinsInv /\ [Next]_vars => CoinsInv'
  BY CoinsStep, Zenon
<1>3. CoinsInv => ScannedCoinsAreStored
  BY Zenon DEF CoinsInv, Vouched, Current, Stored, ScannedCoinsAreStored, Hash
<1> QED
  BY <1>1, <1>2, <1>3, PTL DEF Spec

-----------------------------------------------------------------------------
(***************************************************************************)
(* The spenders of the coins.                                              *)
(***************************************************************************)
LEMMA SpendersWithin ==
    ASSUME NEW cs, NEW T,
           \A c \in DOMAIN cs : cs[c].status.kind = "spent" => cs[c].status.by \in T
    PROVE  SpendingTxids(cs) \subseteq T
BY Zenon DEF SpendingTxids

\* The spender of a spent coin is one of spending_txids.
LEMMA SpenderOf ==
    ASSUME NEW cs, NEW c \in DOMAIN cs, cs[c].status.kind = "spent"
    PROVE  cs[c].status.by \in SpendingTxids(cs)
BY Zenon DEF SpendingTxids

\* What the three spend statuses hold.
LEMMA StatusFields ==
    /\ Unspent.kind # "spent"
    /\ \A hash : Mined(hash).kind # "spent"
    /\ \A t, hash : Spent(t, hash).kind = "spent" /\ Spent(t, hash).by = t
    /\ \A e, status : WithStatus(e, status).status = status
BY DEF Unspent, Mined, Spent, WithStatus

\* record_outputs adds no spender: it keeps the status of a known coin.
LEMMA InsertSpenders ==
    ASSUME NEW cs, NEW outs, NEW h
    PROVE  SpendingTxids(InsertOutputs(cs, outs, h)) \subseteq SpendingTxids(cs)
<1> DEFINE S(c) == IF c \in DOMAIN cs THEN cs[c].status ELSE Unspent
<1>1. PICK n : n = [c \in outs |-> [height |-> h, status |-> S(c)]]
  BY Zenon
<1>2. DOMAIN n = outs /\ \A c \in outs : n[c] = [height |-> h, status |-> S(c)]
  BY <1>1, Zenon
<1>3. PICK r : r = Merge(cs, n)
  BY Zenon
<1>4. InsertOutputs(cs, outs, h) = r
  BY <1>1, <1>3, Zenon DEF InsertOutputs
<1>5. \A c \in outs : S(c) = Unspent \/ (c \in DOMAIN cs /\ S(c) = cs[c].status)
  BY Zenon
<1> HIDE DEF S
<1>6. \A c \in outs : n[c].status = S(c)
  BY <1>2
<1>7. \A c \in DOMAIN r : (c \in outs /\ r[c] = n[c]) \/ (c \in DOMAIN cs /\ r[c] = cs[c])
  BY <1>2, <1>3, Zenon DEF Merge
<1>8. \A c \in DOMAIN r : r[c].status = Unspent \/ (c \in DOMAIN cs /\ r[c].status = cs[c].status)
  BY <1>5, <1>6, <1>7, Zenon
<1>9. \A c \in DOMAIN r : r[c].status.kind = "spent" => r[c].status.by \in SpendingTxids(cs)
  BY <1>8, SpenderOf, StatusFields, Zenon
<1> QED
  BY <1>4, <1>9, SpendersWithin, Zenon

\* roll_back of the coins adds no spender.
LEMMA RollBackSpenders ==
    ASSUME NEW cs, NEW fork, NEW gone
    PROVE  SpendingTxids(RollBackCoins(cs, fork, gone)) \subseteq SpendingTxids(cs)
<1>1. PICK r : r = RollBackCoins(cs, fork, gone)
  BY Zenon
<1>2. \A c \in DOMAIN r :
         c \in DOMAIN cs /\ r[c] = WithStatus(cs[c], Reopened(cs[c].status, gone))
  BY <1>1, Zenon DEF RollBackCoins
<1>3. ASSUME NEW status, Reopened(status, gone).kind = "spent"
      PROVE  status.kind = "spent" /\ Reopened(status, gone).by = status.by
  <2> DEFINE A == status.kind = "spent" /\ status.at \in gone
             B == status.kind = "mined" /\ status.at \in gone
  <2>1. Reopened(status, gone) = CASE A -> Spent(status.by, NoBlock) [] B -> Unspent
                                   [] OTHER -> status
    BY Zenon DEF Reopened
  <2>2. A => status.kind = "spent"
    BY Zenon
  <2> HIDE DEF A, B
  <2>3. \/ A /\ Reopened(status, gone) = Spent(status.by, NoBlock)
        \/ Reopened(status, gone) = Unspent
        \/ Reopened(status, gone) = status
    BY <2>1
  <2>4. CASE A /\ Reopened(status, gone) = Spent(status.by, NoBlock)
    <3>1. Spent(status.by, NoBlock).by = status.by
      BY StatusFields, Zenon
    <3> QED
      BY <2>2, <2>4, <3>1, Zenon
  <2>5. Reopened(status, gone) # Unspent
    BY <1>3, StatusFields, Zenon
  <2>6. CASE Reopened(status, gone) = status
    BY <1>3, <2>6, Zenon
  <2> QED
    BY <2>3, <2>4, <2>5, <2>6, Zenon
<1>4. \A c \in DOMAIN r : r[c].status = Reopened(cs[c].status, gone)
  BY <1>2 DEF WithStatus
<1>5. ASSUME NEW c \in DOMAIN r, r[c].status.kind = "spent"
      PROVE  r[c].status.by \in SpendingTxids(cs)
  <2>1. c \in DOMAIN cs /\ Reopened(cs[c].status, gone).kind = "spent"
        /\ r[c].status.by = Reopened(cs[c].status, gone).by
    BY <1>2, <1>4, <1>5, Zenon
  <2>2. cs[c].status.kind = "spent" /\ r[c].status.by = cs[c].status.by
    BY <1>3, <2>1, Zenon
  <2> QED
    BY <2>1, <2>2, SpenderOf, Zenon
<1> QED
  BY <1>1, <1>5, SpendersWithin, Zenon

\* Confirming a spend adds no spender: a block names none.
LEMMA ConfirmSpenders ==
    ASSUME NEW cs, NEW S, NEW hash
    PROVE  SpendingTxids(ConfirmSpend(cs, S, hash)) \subseteq SpendingTxids(cs)
<1>1. PICK r : r = ConfirmSpend(cs, S, hash)
  BY Zenon
<1>2. \A c \in DOMAIN r :
         /\ c \in DOMAIN cs
         /\ r[c] = cs[c] \/ r[c] = WithStatus(cs[c], Confirmed(cs[c].status, hash))
  BY <1>1, Zenon DEF ConfirmSpend
<1>3. ASSUME NEW status, Confirmed(status, hash).kind = "spent"
      PROVE  status.kind = "spent" /\ Confirmed(status, hash).by = status.by
  BY <1>3, StatusFields, Zenon DEF Confirmed
<1>4. \A c \in DOMAIN r : r[c].status = cs[c].status
                          \/ r[c].status = Confirmed(cs[c].status, hash)
  BY <1>2 DEF WithStatus
<1>5. ASSUME NEW c \in DOMAIN r, r[c].status.kind = "spent"
      PROVE  r[c].status.by \in SpendingTxids(cs)
  <2>1. c \in DOMAIN cs
    BY <1>2, Zenon
  <2>2. cs[c].status.kind = "spent" /\ r[c].status.by = cs[c].status.by
    <3>1. CASE r[c].status = cs[c].status
      BY <1>5, <3>1, Zenon
    <3>2. CASE r[c].status = Confirmed(cs[c].status, hash)
      BY <1>3, <1>5, <3>2, Zenon
    <3> QED
      BY <1>4, <3>1, <3>2, Zenon
  <2> QED
    BY <2>1, <2>2, SpenderOf, Zenon
<1> QED
  BY <1>1, <1>5, SpendersWithin, Zenon

\* apply_unconfirmed_spend adds only the broadcast as a spender.
LEMMA InjectSpenders ==
    ASSUME NEW cs, NEW t, NEW ins, NEW outs
    PROVE  SpendingTxids(InjectSpend(cs, t, ins, outs)) \subseteq SpendingTxids(cs) \cup {t}
<1>1. PICK m : m = MarkSpent(cs, ins, t)
  BY Zenon
<1>2. PICK n : n = [c \in outs |-> [height |-> Unconfirmed, status |-> Unspent]]
  BY Zenon
<1>3. PICK r : r = Merge(n, m)
  BY Zenon
<1>4. InjectSpend(cs, t, ins, outs) = r
  BY <1>1, <1>2, <1>3, Zenon DEF InjectSpend
<1>5. DOMAIN n = outs /\ \A c \in outs : n[c] = [height |-> Unconfirmed, status |-> Unspent]
  BY <1>2, Zenon
<1>6. \A c \in outs : n[c].status = Unspent
  BY <1>5
<1>7. \A c \in DOMAIN m :
         c \in DOMAIN cs /\ (m[c] = cs[c] \/ m[c] = WithStatus(cs[c], Spent(t, NoBlock)))
  BY <1>1, Zenon DEF MarkSpent
<1>8. \A c \in DOMAIN r : (c \in outs /\ r[c] = n[c]) \/ (c \in DOMAIN m /\ r[c] = m[c])
  BY <1>3, <1>5, Zenon DEF Merge
<1>9. \A c \in DOMAIN r : \/ r[c].status = Unspent
                          \/ c \in DOMAIN cs /\ r[c].status = cs[c].status
                          \/ r[c].status = Spent(t, NoBlock)
  <2>1. \A c \in DOMAIN m : \/ c \in DOMAIN cs /\ m[c].status = cs[c].status
                            \/ m[c].status = Spent(t, NoBlock)
    BY <1>7 DEF WithStatus
  <2> QED
    BY <1>6, <1>8, <2>1, Zenon
<1>10. ASSUME NEW c \in DOMAIN r, r[c].status.kind = "spent"
       PROVE  r[c].status.by \in SpendingTxids(cs) \cup {t}
  <2>1. CASE r[c].status = Unspent
    BY <1>10, <2>1, StatusFields, Zenon
  <2>2. CASE c \in DOMAIN cs /\ r[c].status = cs[c].status
    BY <1>10, <2>2, SpenderOf, Zenon
  <2>3. CASE r[c].status = Spent(t, NoBlock)
    BY <2>3, StatusFields, Zenon
  <2> QED
    BY <1>9, <2>1, <2>2, <2>3, Zenon
<1> QED
  BY <1>4, <1>10, SpendersWithin, Zenon

-----------------------------------------------------------------------------
(***************************************************************************)
(* A step of the scan that records no transaction: it adds no spender, it  *)
(* commits only what is on the chain, and a roll back collects every       *)
(* spender.                                                                *)
(***************************************************************************)
NoRecord ==
    /\ UNCHANGED <<chain, mempool, txs, bc>>
    /\ lapse => lapse'
    /\ SpendingTxids(coins') \subseteq SpendingTxids(coins)
    /\ sc'.pc = "commitTxs" =>
          sc'.outs \subseteq OnChain \/ (sc.pc = "commitTxs" /\ sc'.outs = sc.outs)
    /\ sc'.pc = "rollTxs" =>
          \/ SpendingTxids(coins') \subseteq sc'.pending
          \/ sc.pc = "rollTxs" /\ sc'.pending = sc.pending

\* A step that records no transaction keeps HistoryInv.
LEMMA NoRecordKeeps ==
    ASSUME HistoryInv, NoRecord PROVE HistoryInv'
<1>1. /\ chain' = chain /\ mempool' = mempool /\ txs' = txs /\ bc' = bc
      /\ lapse => lapse'
      /\ SpendingTxids(coins') \subseteq SpendingTxids(coins)
  BY Zenon DEF NoRecord
<1>2. \A t : Unseen(t) => Unseen(t)'
  BY Zenon DEF NoRecord, Unseen, OnChain
<1>3. Sending' = Sending
  BY <1>1, Zenon DEF Sending
<1>4. lapse' \/ (sc'.pc = "rollTxs" => \A t \in SpendingTxids(coins') : Pending(t)')
  <2>1. CASE SpendingTxids(coins') \subseteq sc'.pending
    BY <2>1, Zenon DEF Pending
  <2>2. CASE sc.pc = "rollTxs" /\ sc'.pending = sc.pending
    <3>1. \A t : Pending(t) => Pending(t)'
      BY <1>1, <1>3, <2>2, Zenon DEF Pending
    <3> QED
      BY <1>1, <2>2, <3>1, Zenon DEF HistoryInv
  <2> QED
    BY <2>1, <2>2, Zenon DEF NoRecord
<1> QED
  BY <1>1, <1>2, <1>3, <1>4, Zenon DEF HistoryInv

\* A quiet step records no transaction.
LEMMA QuietRecordsNothing ==
    ASSUME QuietStep PROVE NoRecord
<1>1. "commitTxs" \in Special /\ "rollTxs" \in Special
  BY DEF Special
<1>2. /\ sc'.pc = "commitTxs" => sc.pc = "commitTxs" /\ sc'.outs = sc.outs
      /\ sc'.pc = "rollTxs" => sc.pc = "rollTxs" /\ sc'.pending = sc.pending
  BY <1>1, Zenon DEF QuietStep, Plain, Same
<1> QED
  BY <1>2, Zenon DEF QuietStep, NoRecord

\* The thread moves to a step that neither commits nor rolls back transactions.
LEMMA MoveRecordsNothing ==
    ASSUME UNCHANGED <<chain, mempool, txs, bc, lapse>>,
           SpendingTxids(coins') \subseteq SpendingTxids(coins),
           sc'.pc # "commitTxs", sc'.pc # "rollTxs"
    PROVE  NoRecord
BY Zenon DEF NoRecord

\* Nor does a scan that ends with an error.
LEMMA FailRecordsNothing ==
    ASSUME CoinsInv, FailScan PROVE NoRecord
<1>1. Shapes
  BY Zenon DEF CoinsInv, Shapes, ScanOK
<1> QED
  BY <1>1, FailQuiet, QuietRecordsNothing, Zenon

\* A scan starts by looking for the fork.
LEMMA BeginPc ==
    ASSUME NEW s, NEW o, DOMAIN s = Fields PROVE BeginScan(s, o).pc = "fork"
<1> DEFINE a == IF o = Never THEN NextStart(st.scanned, Birthday) ELSE Max({o, Birthday})
<1>1. PICK t : t = [s EXCEPT !.pc = "fork", !.start = a, !.end = Len(chain), !.calm = TRUE,
                             !.known = st.hashes, !.probe = DOMAIN st.hashes,
                             !.outcome = "none"]
  BY Zenon
<1>2. BeginScan(s, o) = t
  BY <1>1, Zenon DEF BeginScan
<1> HIDE DEF a
<1>3. t.pc = "fork"
  BY <1>1, FieldNames
<1> QED
  BY <1>2, <1>3, Zenon

\* Starting a scan, or its next round, records no transaction.
LEMMA StartRecordsNothing ==
    ASSUME CoinsInv,
           \/ \E mode, o : StartScan(mode, o)
           \/ ContinueLoop
    PROVE  NoRecord
<1>1. CASE \E mode, o : StartScan(mode, o)
  <2>1. PICK mode, o : StartScan(mode, o)
    BY <1>1, Zenon
  <2>2. PICK i : i = IdleScan
    BY Zenon
  <2>3. PICK s : s = [i EXCEPT !.mode = mode]
    BY Zenon
  <2>4. DOMAIN i = Fields
    BY <2>2, Zenon DEF Fields
  <2>5. DOMAIN s = Fields
    BY <2>3, <2>4
  <2>6. sc'.pc = "fork" /\ UNCHANGED <<chain, mempool, txs, bc, lapse, coins>>
    BY <2>1, <2>2, <2>3, <2>5, BeginPc, Zenon DEF StartScan, world, stores
  <2>7. sc'.pc # "commitTxs" /\ sc'.pc # "rollTxs"
    BY <2>6
  <2> QED
    BY <2>6, <2>7, MoveRecordsNothing, Zenon
<1>2. CASE ContinueLoop
  <2>1. Shapes /\ UNCHANGED <<world, stores, scanState, bc>>
    BY <1>2, Zenon DEF ContinueLoop, CoinsInv, Shapes, ScanOK
  <2>2. CASE sc' = EndScan(sc, "stopped")
    <3>1. Plain(sc, sc') /\ StateFrom
      BY <2>1, <2>2, EndScanReady, MovePlain, Zenon
    <3>2. QuietStep
      BY <2>1, <3>1, Zenon DEF QuietStep, world, stores
    <3> QED
      BY <3>2, QuietRecordsNothing, Zenon
  <2>3. CASE sc' = BeginScan(sc, Never)
    <3>1. sc'.pc = "fork" /\ UNCHANGED <<chain, mempool, txs, bc, lapse, coins>>
      BY <2>1, <2>3, BeginPc, Zenon DEF Shapes, world, stores
    <3>2. sc'.pc # "commitTxs" /\ sc'.pc # "rollTxs"
      BY <3>1
    <3> QED
      BY <3>1, <3>2, MoveRecordsNothing, Zenon
  <2> QED
    BY <1>2, <2>2, <2>3, Zenon DEF ContinueLoop
<1> QED
  BY <1>1, <1>2, Zenon

\* Nor does the search for the fork.
LEMMA FindForkRecordsNothing ==
    ASSUME CoinsInv, FindFork PROVE NoRecord
<1> DEFINE h == Max(sc.probe)
           t1 == [sc EXCEPT !.pc = "floor"]
           t2 == [sc EXCEPT !.probe = @ \ {h}]
           m  == Min({sc.start, h + 1})
           t3 == [sc EXCEPT !.pc = "rollCoins", !.fork = h, !.start = m]
<1>0. DOMAIN sc = Fields /\ sc.pc = "fork"
  BY Zenon DEF FindFork, CoinsInv, ScanOK
<1>1. CASE FailScan
  BY <1>1, FailRecordsNothing, Zenon
<1>2. CASE ~FailScan
  <2>1. UNCHANGED <<chain, mempool, txs, bc, lapse, coins>>
    BY <1>2, Zenon DEF FindFork, world, stores
  <2>2. sc' = t1 \/ sc' = t2 \/ sc' = t3
    <3> DEFINE A == Hash(h) # sc.known[h]
               B == /\ Hash(h) = sc.known[h]
                    /\ sc.probe = DOMAIN sc.known
    <3>1. sc' = t1 \/ sc' = CASE A -> t2 [] B -> t1 [] OTHER -> t3
      BY <1>2, Zenon DEF FindFork
    <3> HIDE DEF A, B, t1, t2, t3
    <3> QED
      BY <3>1
  <2> HIDE DEF h, m
  <2>3. t1.pc = "floor" /\ t2.pc = "fork" /\ t3.pc = "rollCoins"
    BY <1>0, FieldNames
  <2> HIDE DEF t1, t2, t3
  <2>4. sc'.pc # "commitTxs" /\ sc'.pc # "rollTxs"
    BY <2>2, <2>3
  <2> QED
    BY <2>1, <2>4, MoveRecordsNothing, Zenon
<1> QED
  BY <1>1, <1>2, Zenon

\* roll_back of the coins hands every spender that it keeps to the history.
LEMMA RollCoinsCollects ==
    ASSUME CoinsInv, RollCoins PROVE NoRecord
<1> DEFINE gone == {sc.known[h] : h \in {h \in DOMAIN sc.known : h > sc.fork}}
           pend == SpendingTxids(coins')
<1>1. /\ coins' = RollBackCoins(coins, sc.fork, gone)
      /\ sc' = [sc EXCEPT !.pc = "rollTxs", !.pending = pend]
      /\ UNCHANGED <<chain, mempool, txs, bc, lapse>> /\ DOMAIN sc = Fields
  BY Zenon DEF RollCoins, world, CoinsInv, ScanOK
<1> HIDE DEF gone
<1>2. SpendingTxids(coins') \subseteq SpendingTxids(coins)
  BY <1>1, RollBackSpenders, Zenon
<1> HIDE DEF pend
<1>3. sc'.pc = "rollTxs" /\ sc'.pending = pend
  BY <1>1, FieldNames
<1>4. sc'.pc # "commitTxs" /\ sc'.pending = SpendingTxids(coins')
  BY <1>3 DEF pend
<1> QED
  BY <1>1, <1>2, <1>4, Zenon DEF NoRecord

\* A block received is not recorded yet.
LEMMA FetchRecordsNothing ==
    ASSUME CoinsInv, NEW h, FetchBlock(h) PROVE NoRecord
<1>1. CASE FailScan
  BY <1>1, FailRecordsNothing, Zenon
<1>2. CASE ~FailScan
  <2> DEFINE g == Merge(sc.got, Entry(h, [hash |-> Hash(h), txs |-> chain[h].txs]))
  <2>1. /\ sc' = [sc EXCEPT !.got = g] /\ sc.pc = "receive" /\ DOMAIN sc = Fields
        /\ UNCHANGED <<chain, mempool, txs, bc, lapse, coins>>
    BY <1>2, Zenon DEF FetchBlock, world, stores, CoinsInv, ScanOK
  <2> HIDE DEF g
  <2>2. sc'.pc = "receive"
    BY <2>1, FieldNames
  <2>3. sc'.pc # "commitTxs" /\ sc'.pc # "rollTxs"
    BY <2>2
  <2> QED
    BY <2>1, <2>3, MoveRecordsNothing, Zenon
<1> QED
  BY <1>1, <1>2, Zenon

\* Committing the outputs of a block takes its transactions from the chain.
LEMMA CommitRecordsNothing ==
    ASSUME CoinsInv, NEW h \in DOMAIN sc.got, CommitBlock(h) PROVE NoRecord
<1>1. CASE FailScan
  BY <1>1, FailRecordsNothing, Zenon
<1>2. CASE ~FailScan
  <2>1. PICK b : b = sc.got[h]
    BY Zenon
  <2>2. PICK outs : outs = DeriveOwned(h, b)
    BY Zenon
  <2> DEFINE p == IF outs = {} THEN "tip" ELSE "commitTxs"
             g == Restrict(sc.got, DOMAIN sc.got \ {h})
             d == Merge(sc.done, Entry(h, b.hash))
             t == [sc EXCEPT !.pc = p, !.got = g, !.done = d, !.height = h, !.outs = outs]
  <2>3. /\ ~(Matches(b) /\ h > Len(chain))
        /\ coins' = InsertOutputs(coins, outs, h) /\ sc' = t
        /\ UNCHANGED <<chain, mempool, txs, bc, lapse>>
        /\ DOMAIN sc = Fields /\ ChainOK(chain, branch) /\ h \in 1..MaxHeight
    BY <1>2, <2>1, <2>2, Zenon DEF CommitBlock, world, CoinsInv, ScanOK, Fetched
  <2>4. p # "rollTxs"
    OBVIOUS
  <2> HIDE DEF p, g, d
  <2>5. t.pc = p /\ t.outs = outs
    BY <2>3, FieldNames
  <2> HIDE DEF t
  <2>6. SpendingTxids(coins') \subseteq SpendingTxids(coins)
    BY <2>3, InsertSpenders, Zenon
  <2>7. outs \subseteq OnChain
    <3>1. CASE outs = {}
      BY <3>1, Zenon
    <3>2. CASE outs # {}
      <4>1. Matches(b) /\ outs \subseteq chain[h].txs
        BY <2>2, <3>2, Zenon DEF DeriveOwned, OwnedOutputs
      <4>2. ~(h > Len(chain))
        BY <2>3, <4>1, Zenon
      <4>3. h \in 1..Len(chain) /\ DOMAIN chain = 1..Len(chain)
        BY <2>3, <4>2, SpScanAssumption DEF ChainOK
      <4> QED
        BY <4>1, <4>3, Zenon DEF OnChain, Range
    <3> QED
      BY <3>1, <3>2, Zenon
  <2> QED
    BY <2>3, <2>4, <2>5, <2>6, <2>7, Zenon DEF NoRecord
<1> QED
  BY <1>1, <1>2, Zenon

\* A block of the sweep adds no spender that has no transaction.
LEMMA SweepRecordsNothing ==
    ASSUME CoinsInv, SweepBlock PROVE NoRecord
<1>1. CASE FailScan
  BY <1>1, FailRecordsNothing, Zenon
<1>2. CASE ~FailScan
  <2> DEFINE h == sc.cursor
             b == sc.buf[h]
             hits == DOMAIN sc.watch \cap UNION {Ins[t] : t \in b.txs}
             spent == IF hits # {} /\ h <= Len(chain) /\ b.hash = Hash(h) THEN hits ELSE {}
             outs == {coins[c].status.by : c \in {c \in spent \cap DOMAIN coins :
                                                  coins[c].status.kind = "spent"}}
             f == Restrict(sc.buf, DOMAIN sc.buf \ {h})
             w == Restrict(sc.watch, DOMAIN sc.watch \ spent)
             t == [sc EXCEPT !.pc = "sweepTxs", !.height = h, !.cursor = h + 1,
                             !.buf = f, !.watch = w, !.outs = outs]
  <2>1. /\ coins' = ConfirmSpend(coins, spent, b.hash) /\ sc' = Refill(t)
        /\ UNCHANGED <<chain, mempool, txs, bc, lapse>> /\ DOMAIN sc = Fields
    BY <1>2, Zenon DEF SweepBlock, world, CoinsInv, ScanOK
  <2> HIDE DEF h, b, hits, spent, outs, f, w
  <2>2. DOMAIN t = Fields /\ t.pc = "sweepTxs"
    BY <2>1, FieldNames
  <2> HIDE DEF t
  <2>3. sc'.pc = "sweepTxs"
    BY <2>1, <2>2, RefillSame, Zenon DEF Same
  <2>4. sc'.pc # "commitTxs" /\ sc'.pc # "rollTxs"
    BY <2>3
  <2>5. SpendingTxids(coins') \subseteq SpendingTxids(coins)
    BY <2>1, ConfirmSpenders, Zenon
  <2> QED
    BY <2>1, <2>4, <2>5, MoveRecordsNothing, Zenon
<1> QED
  BY <1>1, <1>2, Zenon

-----------------------------------------------------------------------------
\* Mining the broadcast before the worker recorded it is the named lapse.
LEMMA MineKeepsHistory ==
    ASSUME CoinsInv, HistoryInv, NEW B \in SUBSET Txs, Mine(B) PROVE HistoryInv'
<1>1. /\ chain' = Append(chain, [branch |-> branch, txs |-> B])
      /\ lapse' = (lapse \/ bc.tx \in B) /\ B \cap Own \subseteq mempool
      /\ UNCHANGED <<mempool, coins, txs, sc, bc>>
  BY Zenon DEF Mine, Minable, stores
<1>2. OnChain' \subseteq OnChain \cup B
  <2>1. chain \in Seq([branch : Nat, txs : SUBSET Txs])
    BY Zenon DEF CoinsInv, ChainOK
  <2>2. PICK top : top = [branch |-> branch, txs |-> B]
    BY Zenon
  <2>3. top.txs = B /\ chain' = Append(chain, top)
    BY <1>1, <2>2
  <2>4. /\ DOMAIN chain = 1..Len(chain) /\ DOMAIN chain' = 1..(Len(chain) + 1)
        /\ Len(chain) \in Nat
        /\ \A i \in 1..Len(chain) : chain'[i] = chain[i]
        /\ chain'[Len(chain) + 1] = top
    BY <2>1, <2>3
  <2>5. \A i \in DOMAIN chain' : i \in DOMAIN chain \/ i = Len(chain) + 1
    BY <2>4
  <2>6. \A i \in DOMAIN chain' : chain'[i] \in Range(chain) \/ chain'[i] = top
    BY <2>4, <2>5, Zenon DEF Range
  <2>7. \A x \in Range(chain') : x \in Range(chain) \/ x = top
    BY <2>6, Zenon DEF Range
  <2> QED
    BY <2>3, <2>7, Zenon DEF OnChain
<1>3. \A t : Unseen(t) /\ t \notin B => Unseen(t)'
  BY <1>1, <1>2, Zenon DEF Unseen
<1>4. Sending' = Sending /\ \A t : Pending(t) => Pending(t)'
  BY <1>1, Zenon DEF Sending, Pending
<1> QED
  BY <1>1, <1>3, <1>4, Zenon DEF HistoryInv

\* A reorganisation puts no transaction on the chain.
LEMMA ReorgKeepsHistory ==
    ASSUME CoinsInv, HistoryInv, NEW keep \in 0..(Len(chain) - 1), Reorg(keep)
    PROVE  HistoryInv'
<1>1. /\ chain' = SubSeq(chain, 1, keep) /\ (lapse => lapse')
      /\ sc' = [sc EXCEPT !.calm = FALSE] /\ DOMAIN sc = Fields
      /\ UNCHANGED <<mempool, coins, txs, bc>>
  BY Zenon DEF Reorg, stores, CoinsInv, ScanOK
<1>2. Range(chain') \subseteq Range(chain)
  BY <1>1, CutEvolves, Zenon DEF CoinsInv
<1>3. OnChain' \subseteq OnChain
  BY <1>2, Zenon DEF OnChain
<1>4. sc'.pc = sc.pc /\ sc'.outs = sc.outs /\ sc'.pending = sc.pending
  BY <1>1, FieldNames
<1>5. \A t : Unseen(t) => Unseen(t)'
  BY <1>1, <1>3, <1>4, Zenon DEF Unseen
<1>6. Sending' = Sending /\ \A t : Pending(t) => Pending(t)'
  BY <1>1, <1>4, Zenon DEF Sending, Pending
<1> QED
  BY <1>1, <1>4, <1>5, <1>6, Zenon DEF HistoryInv

\* SpTxStore::roll_back keeps the transactions that are pending.
LEMMA RollTxsKeepsHistory ==
    ASSUME CoinsInv, HistoryInv, RollTxs PROVE HistoryInv'
<1>1. /\ sc.pc = "rollTxs" /\ txs' = RollBackTxs(txs, sc.fork, sc.pending)
      /\ sc' = [sc EXCEPT !.pc = "rollState", !.pending = {}] /\ DOMAIN sc = Fields
      /\ UNCHANGED <<chain, mempool, coins, bc, lapse>>
  BY Zenon DEF RollTxs, world, CoinsInv, ScanOK
<1>2. sc'.pc = "rollState"
  BY <1>1, FieldNames
<1>3. sc'.pc # "commitTxs" /\ sc'.pc # "rollTxs"
  BY <1>2
<1>4. DOMAIN txs' = {t \in DOMAIN txs : Above(txs[t], sc.fork) => t \in sc.pending}
  BY <1>1, Zenon DEF RollBackTxs
<1>5. \A t : Unseen(t) => Unseen(t)'
  BY <1>1, <1>3, <1>4, Zenon DEF Unseen, OnChain
<1>6. Sending' = Sending
  BY <1>1, Zenon DEF Sending
<1>7. ASSUME ~lapse, NEW t \in SpendingTxids(coins)
      PROVE  t \in DOMAIN txs' \cup Sending
  <2>1. Pending(t) /\ t \in DOMAIN txs \cup Sending
    BY <1>1, <1>7, Zenon DEF HistoryInv
  <2>2. txs[t] = Unconfirmed => ~Above(txs[t], sc.fork)
    BY Zenon DEF Above
  <2> QED
    BY <1>4, <2>1, <2>2, Zenon DEF Pending
<1>8. lapse' \/ SpendingTxids(coins') \subseteq DOMAIN txs' \cup Sending'
  BY <1>1, <1>6, <1>7, Zenon
<1> QED
  BY <1>1, <1>3, <1>5, <1>8, Zenon DEF HistoryInv

\* The transactions of a block are recorded: they were on the chain.
LEMMA CommitTxsKeepsHistory ==
    ASSUME CoinsInv, HistoryInv, CommitTxs PROVE HistoryInv'
<1>1. /\ sc.pc = "commitTxs" /\ txs' = RecordTxs(txs, sc.outs, sc.height)
      /\ sc' = [sc EXCEPT !.pc = "tip", !.outs = {}, !.height = 0] /\ DOMAIN sc = Fields
      /\ UNCHANGED <<chain, mempool, coins, bc, lapse>>
  BY Zenon DEF CommitTxs, world, CoinsInv, ScanOK
<1>2. sc'.pc = "tip"
  BY <1>1, FieldNames
<1>3. sc'.pc # "commitTxs" /\ sc'.pc # "rollTxs"
  BY <1>2
<1>4. DOMAIN txs' = DOMAIN txs \cup sc.outs
  BY <1>1, Zenon DEF RecordTxs, Merge
<1>5. \A t : Unseen(t) => Unseen(t)'
  BY <1>1, <1>3, <1>4, Zenon DEF Unseen, OnChain
<1>6. Sending' = Sending
  BY <1>1, Zenon DEF Sending
<1> QED
  BY <1>1, <1>3, <1>4, <1>5, <1>6, Zenon DEF HistoryInv

\* Confirming transactions adds and drops none.
LEMMA SweepTxsKeepsHistory ==
    ASSUME CoinsInv, HistoryInv, SweepTxs PROVE HistoryInv'
<1>1. /\ txs' = ConfirmTxs(txs, sc.outs, sc.height)
      /\ sc' = [sc EXCEPT !.pc = "swept", !.outs = {}, !.height = 0] /\ DOMAIN sc = Fields
      /\ UNCHANGED <<chain, mempool, coins, bc, lapse>>
  BY Zenon DEF SweepTxs, world, CoinsInv, ScanOK
<1>2. sc'.pc = "swept"
  BY <1>1, FieldNames
<1>3. sc'.pc # "commitTxs" /\ sc'.pc # "rollTxs"
  BY <1>2
<1>4. DOMAIN txs' = DOMAIN txs
  BY <1>1, Zenon DEF ConfirmTxs
<1>5. \A t : Unseen(t) => Unseen(t)'
  BY <1>1, <1>3, <1>4, Zenon DEF Unseen, OnChain
<1>6. Sending' = Sending
  BY <1>1, Zenon DEF Sending
<1> QED
  BY <1>1, <1>3, <1>4, <1>5, <1>6, Zenon DEF HistoryInv

\* BroadcastWorker: nothing has seen the transaction when it is sent, and nothing
\* else records it before the worker does.
LEMMA BroadcastKeepsHistory ==
    ASSUME HistoryInv, NEW t \in Own, Broadcast(t) PROVE HistoryInv'
<1>1. /\ bc.pc = "idle" /\ t \notin mempool /\ mempool' = mempool \cup {t}
      /\ bc' = [pc |-> "coins", tx |-> t]
      /\ UNCHANGED <<chain, coins, txs, sc, lapse>>
  BY Zenon DEF Broadcast, stores
<1>2. DOMAIN bc' = {"pc", "tx"} /\ bc'.pc = "coins" /\ bc'.tx = t
  BY <1>1
<1>3. bc'.pc # "idle"
  BY <1>2
<1>4. \A u : Unseen(u) => Unseen(u)'
  BY <1>1, Zenon DEF Unseen, OnChain
<1>5. Unseen(bc.tx)'
  BY <1>1, <1>2, <1>4, Zenon DEF HistoryInv
<1>6. Sending = {} /\ \A u : Pending(u) => Pending(u)'
  BY <1>1, Zenon DEF Sending, Pending
<1> QED
  BY <1>1, <1>2, <1>3, <1>4, <1>5, <1>6, Zenon DEF HistoryInv

\* The coins are marked spent by the broadcast being sent.
LEMMA ApplyCoinsKeepsHistory ==
    ASSUME HistoryInv, ApplyCoins PROVE HistoryInv'
<1>1. /\ bc.pc = "coins"
      /\ coins' = InjectSpend(coins, bc.tx, Ins[bc.tx], {bc.tx} \cap Pays)
      /\ bc' = [bc EXCEPT !.pc = "txs"] /\ DOMAIN bc = {"pc", "tx"}
      /\ UNCHANGED <<chain, mempool, txs, sc, lapse>>
  BY Zenon DEF ApplyCoins, world, HistoryInv
<1>2. bc.pc # "idle" /\ DOMAIN bc' = {"pc", "tx"} /\ bc'.pc = "txs" /\ bc'.tx = bc.tx
  BY <1>1
<1>3. bc'.pc # "idle"
  BY <1>2
<1>4. SpendingTxids(coins') \subseteq SpendingTxids(coins) \cup {bc.tx}
  <2>1. PICK t : t = bc.tx
    BY Zenon
  <2>2. PICK ins, outs : ins = Ins[t] /\ outs = {t} \cap Pays
    BY Zenon
  <2>3. PICK cs : cs = coins
    BY Zenon
  <2>4. coins' = InjectSpend(cs, t, ins, outs)
    BY <1>1, <2>1, <2>2, <2>3
  <2>5. SpendingTxids(InjectSpend(cs, t, ins, outs)) \subseteq SpendingTxids(cs) \cup {t}
    BY InjectSpenders, Zenon
  <2> QED
    BY <2>1, <2>3, <2>4, <2>5
<1>5. \A u : Unseen(u) => Unseen(u)'
  BY <1>1, Zenon DEF Unseen, OnChain
<1>6. Unseen(bc.tx) => Unseen(bc.tx)'
  BY <1>1, <1>2, Zenon DEF Unseen, OnChain
<1>7. Sending' = {bc.tx} /\ Sending = {bc.tx}
  BY <1>2, <1>3, Zenon DEF Sending
<1>8. \A u : Pending(u) => Pending(u)'
  BY <1>1, <1>7, Zenon DEF Pending
<1>9. bc.tx \in Sending'
  BY <1>7, Zenon
<1>10. \A u : u \in Sending' => Pending(u)'
  BY Zenon DEF Pending
<1> QED
  BY <1>1, <1>2, <1>3, <1>4, <1>5, <1>6, <1>7, <1>8, <1>9, <1>10, Zenon DEF HistoryInv

\* The worker records the broadcast as unconfirmed.
LEMMA ApplyTxsKeepsHistory ==
    ASSUME HistoryInv, ApplyTxs PROVE HistoryInv'
<1>1. /\ bc.pc = "txs" /\ txs' = Merge(Entry(bc.tx, Unconfirmed), txs) /\ bc' = NoBroadcast
      /\ UNCHANGED <<chain, mempool, coins, sc, lapse>>
  BY Zenon DEF ApplyTxs, world
<1>2. bc.pc # "idle"
  BY <1>1
<1>3. DOMAIN bc' = {"pc", "tx"} /\ bc'.pc = "idle"
  BY <1>1 DEF NoBroadcast
<1>4. /\ DOMAIN txs' = DOMAIN txs \cup {bc.tx}
      /\ \A t \in DOMAIN txs : txs'[t] = txs[t]
      /\ bc.tx \notin DOMAIN txs => txs'[bc.tx] = Unconfirmed
  BY <1>1, Zenon DEF Merge, Entry
<1>5. \A t : Unseen(t) /\ t # bc.tx => Unseen(t)'
  BY <1>1, <1>4, Zenon DEF Unseen, OnChain
<1>6. Sending = {bc.tx} /\ Sending' = {}
  BY <1>2, <1>3, Zenon DEF Sending
<1>7. ASSUME ~lapse, NEW t, Pending(t) PROVE Pending(t)'
  <2>1. bc.tx \notin DOMAIN txs
    BY <1>2, <1>7, Zenon DEF HistoryInv, Unseen
  <2> QED
    BY <1>1, <1>4, <1>6, <1>7, <2>1, Zenon DEF Pending
<1> QED
  BY <1>1, <1>2, <1>3, <1>4, <1>5, <1>6, <1>7, Zenon DEF HistoryInv

\* A crash between the two halves of a broadcast is the named lapse.
LEMMA CrashKeepsHistory ==
    ASSUME HistoryInv, Crash PROVE HistoryInv'
<1>1. /\ lapse' = (lapse \/ sc.pc = "flush" \/ bc.pc # "idle")
      /\ sc' = IdleScan /\ bc' = NoBroadcast
      /\ UNCHANGED <<chain, mempool, coins, txs>>
  BY Zenon DEF Crash, stores
<1>2. DOMAIN bc' = {"pc", "tx"} /\ bc'.pc = "idle"
  BY <1>1 DEF NoBroadcast
<1>3. sc'.pc # "commitTxs" /\ sc'.pc # "rollTxs"
  BY <1>1, IdleFields
<1>4. \A t : Unseen(t) => Unseen(t)'
  BY <1>1, <1>3, Zenon DEF Unseen, OnChain
<1>5. bc.pc = "idle" => Sending = {}
  BY Zenon DEF Sending
<1> QED
  BY <1>1, <1>2, <1>3, <1>4, <1>5, Zenon DEF HistoryInv

\* Every step keeps HistoryInv, given CoinsInv.
LEMMA HistoryStep ==
    ASSUME CoinsInv, HistoryInv, [Next]_vars PROVE HistoryInv'
<1>1. ASSUME QuietStep PROVE HistoryInv'
  BY <1>1, QuietRecordsNothing, NoRecordKeeps, Zenon
<1>2. CASE \E B \in SUBSET Txs : Mine(B)
  BY <1>2, MineKeepsHistory, Zenon
<1>3. CASE \E keep \in 0..(Len(chain) - 1) : Reorg(keep)
  BY <1>3, ReorgKeepsHistory, Zenon
<1>4. CASE \E mode \in {"oneshot", "continuous"}, o \in {Never} \cup Overrides :
              StartScan(mode, o)
  BY <1>4, StartRecordsNothing, NoRecordKeeps, Zenon
<1>5. CASE StopScan \/ Joined \/ Cancel \/ ClearScanState \/ RequestFails
           \/ Checkpoint \/ SweepCheckpoint
  BY <1>1, <1>5, QuietActions, Zenon
<1>6. CASE \E h \in 1..MaxHeight : FilterFails(h)
  BY <1>1, <1>6, QuietActions, Zenon
<1>7. CASE Server
  <2>1. PICK h \in 1..MaxHeight : FetchBlock(h) \/ FetchFilter(h) \/ FilterMissing(h)
    BY <1>7, Zenon DEF Server
  <2>2. CASE FetchBlock(h)
    BY <2>2, FetchRecordsNothing, NoRecordKeeps, Zenon
  <2>3. CASE FetchFilter(h) \/ FilterMissing(h)
    BY <1>1, <2>3, QuietActions, Zenon
  <2> QED
    BY <2>1, <2>2, <2>3, Zenon
<1>8. CASE ScanStep
  <2>1. CASE \/ FlushFrontiers \/ RollState \/ SpendFloor \/ ChoosePass \/ StopCheck
             \/ ReceiveDone \/ BeginSweep \/ SweepTop \/ TakeFailure \/ SweepJump
    BY <1>1, <2>1, QuietActions, Zenon
  <2>2. CASE ContinueLoop
    BY <2>2, StartRecordsNothing, NoRecordKeeps, Zenon
  <2>3. CASE FindFork
    BY <2>3, FindForkRecordsNothing, NoRecordKeeps, Zenon
  <2>4. CASE RollCoins
    BY <2>4, RollCoinsCollects, NoRecordKeeps, Zenon
  <2>5. CASE \E h \in DOMAIN sc.got : CommitBlock(h)
    BY <2>5, CommitRecordsNothing, NoRecordKeeps, Zenon
  <2>6. CASE SweepBlock
    BY <2>6, SweepRecordsNothing, NoRecordKeeps, Zenon
  <2>7. CASE RollTxs
    BY <2>7, RollTxsKeepsHistory, Zenon
  <2>8. CASE CommitTxs
    BY <2>8, CommitTxsKeepsHistory, Zenon
  <2>9. CASE SweepTxs
    BY <2>9, SweepTxsKeepsHistory, Zenon
  <2> QED
    BY <1>8, <2>1, <2>2, <2>3, <2>4, <2>5, <2>6, <2>7, <2>8, <2>9, Zenon DEF ScanStep
<1>9. CASE \E t \in Own : Broadcast(t)
  BY <1>9, BroadcastKeepsHistory, Zenon
<1>10. CASE ApplyCoins
  BY <1>10, ApplyCoinsKeepsHistory, Zenon
<1>11. CASE ApplyTxs
  BY <1>11, ApplyTxsKeepsHistory, Zenon
<1>12. CASE Crash
  BY <1>12, CrashKeepsHistory, Zenon
<1>13. CASE UNCHANGED vars
  <2>1. NoRecord
    BY <1>13, Zenon DEF vars, NoRecord
  <2> QED
    BY <2>1, NoRecordKeeps, Zenon
<1> QED
  BY <1>2, <1>3, <1>4, <1>5, <1>6, <1>7, <1>8, <1>9, <1>10, <1>11, <1>12, <1>13,
     Zenon DEF Next

\* HistoryInv holds of a new account.
LEMMA HistoryInit ==
    ASSUME Init PROVE HistoryInv
<1>1. /\ chain = Genesis /\ mempool = {} /\ coins = <<>> /\ txs = <<>>
      /\ sc = IdleScan /\ bc = NoBroadcast
  BY Zenon DEF Init
<1>2. DOMAIN bc = {"pc", "tx"} /\ bc.pc = "idle"
  BY <1>1 DEF NoBroadcast
<1>3. DOMAIN coins = {} /\ DOMAIN txs = {}
  BY <1>1
<1>4. sc.pc # "commitTxs" /\ sc.pc # "rollTxs"
  BY <1>1, IdleFields
<1>5. SpendingTxids(coins) = {}
  BY <1>3, Zenon DEF SpendingTxids
<1>6. \A t \in Own : t \notin OnChain
  <2>1. \A i \in DOMAIN Genesis : Genesis[i].txs \cap Own = {}
    BY SpScanAssumption, Zenon
  <2> QED
    BY <1>1, <2>1, Zenon DEF OnChain, Range
<1> QED
  BY <1>1, <1>2, <1>3, <1>4, <1>5, <1>6, Zenon DEF HistoryInv, Unseen

\* A coin spent by a broadcast has the transaction in the history, or the worker
\* is about to record it, before, across and after any reorganisation that
\* unconfirms it: roll_back of the coins hands the spenders it keeps to the
\* roll_back of the transactions (SpTxStore::roll_back), and one broadcast between
\* the two is recorded as unconfirmed.
THEOREM SpendersStayRecorded == Spec => []SpendsKeepTheirTx
<1>1. Init => CoinsInv /\ HistoryInv
  BY CoinsInit, HistoryInit, Zenon
<1>2. CoinsInv /\ HistoryInv /\ [Next]_vars => CoinsInv' /\ HistoryInv'
  BY CoinsStep, HistoryStep, Zenon
<1>3. HistoryInv => SpendsKeepTheirTx
  BY Zenon DEF HistoryInv, SpendsKeepTheirTx, Sending
<1> QED
  BY <1>1, <1>2, <1>3, PTL DEF Spec
=============================================================================
