-------------------------- MODULE HeaderChainProofs --------------------------
(* That a failed replay erases nothing a worker synced; and what the         *)
(* operations of the store do to a chain of headers, and what a worker may   *)
(* hold against it between two of them, for every set of chains.             *)
EXTENDS HeaderStore, WellFoundedInduction, TLAPS

\* Where a worker can be while the chain is replayed.
Parked == {"none", "replay", "dead"}

\* The strengthening: until the replay thread is done the state it has yet to
\* publish is Validating, so no worker has left wait_for_replay, and the store
\* is what was loaded, or already wiped.
ReplayInv ==
    replay # "done" =>
        /\ valid = "validating"
        /\ wk = [k \in Tokens |-> wk[k]]
        /\ \A k \in Tokens : wk[k].pc \in Parked
        /\ \A h \in DOMAIN store : h \in DOMAIN snapshot /\ store[h] = snapshot[h]

\* The workers as a fresh process has them are parked.
FreshWorkers == [k \in Tokens |-> IF k = 0 THEN Spawned ELSE NoWorker]

\* The three records a parked worker can be replaced by.
LEMMA ParkedRecords ==
    Spawned.pc \in Parked /\ NoWorker.pc \in Parked /\ Dead.pc \in Parked
BY DEF Spawned, NoWorker, Dead, Parked

\* Replacing the record of one worker by a parked one leaves all of them parked.
LEMMA StaysParked ==
    ASSUME wk = [k \in Tokens |-> wk[k]],
           \A k \in Tokens : wk[k].pc \in Parked,
           NEW t, NEW r, r.pc \in Parked,
           wk' = [wk EXCEPT ![t] = r]
    PROVE  /\ wk' = [k \in Tokens |-> wk'[k]]
           /\ \A k \in Tokens : wk'[k].pc \in Parked
<1>1. DOMAIN wk = Tokens
  OBVIOUS
<1>2. wk' = [k \in Tokens |-> IF k = t THEN r ELSE wk[k]]
  BY <1>1
<1> QED
  BY <1>2

\* A process that opens a file replays exactly what it loaded.
LEMMA OpenReplays ==
    ASSUME NEW cp, NEW file, Open(cp, file).replay # "done"
    PROVE  /\ Open(cp, file).valid = "validating"
           /\ Open(cp, file).store = Open(cp, file).snapshot
<1> DEFINE replays == SanityCheck(cp, file) /\ file # NoChain
<1> HIDE DEF SanityCheck
<1>1. Open(cp, file).replay = IF replays THEN "check" ELSE "done"
  BY DEF Open
<1>2. replays
  BY <1>1
<1> QED
  BY <1>2 DEF Open

\* A store as `with_checkpoint` leaves it, before any thread, meets ReplayInv.
LEMMA InitReplayInv == Init => ReplayInv
<1> SUFFICES ASSUME Init, replay # "done" PROVE ReplayInv
  BY DEF ReplayInv
<1>1. PICK cp \in Checkpoints, file \in Files :
          /\ store = Open(cp, file).store
          /\ valid = Open(cp, file).valid
          /\ snapshot = Open(cp, file).snapshot
          /\ replay = Open(cp, file).replay
  BY DEF Init
<1>2. wk = FreshWorkers
  BY DEF Init, FreshWorkers
<1>3. \A k \in Tokens : wk[k].pc \in Parked
  BY <1>2, ParkedRecords DEF FreshWorkers
<1> QED
  BY <1>1, <1>2, <1>3, OpenReplays DEF ReplayInv, FreshWorkers

\* One step per action: a worker's step other than Unparks needs a worker that
\* is not parked, and Unparks lets a worker go only when it is stale.
LEMMA ReplayStep == ReplayInv /\ [Next]_vars => ReplayInv'
<1> SUFFICES ASSUME ReplayInv, [Next]_vars, replay' # "done" PROVE ReplayInv'
  BY DEF ReplayInv
<1> USE DEF ReplayInv
<1>1. CASE Crash
  <2>1. PICK cp \in Checkpoints :
            /\ store' = Open(cp, disk).store
            /\ valid' = Open(cp, disk).valid
            /\ snapshot' = Open(cp, disk).snapshot
            /\ replay' = Open(cp, disk).replay
    BY <1>1, Zenon DEF Crash
  <2>2. wk' = FreshWorkers
    BY <1>1, Zenon DEF Crash, FreshWorkers
  <2>3. \A k \in Tokens : wk'[k].pc \in Parked
    BY <2>2, ParkedRecords DEF FreshWorkers
  <2> QED
    BY <2>1, <2>2, <2>3, OpenReplays DEF FreshWorkers
<1>2. CASE ReplayPasses \/ ReplayPublishes
  BY <1>2 DEF ReplayPasses, ReplayPublishes
<1>3. CASE ReplayWipes
  <2>1. replay # "done" /\ store' = NoChain /\ UNCHANGED <<valid, wk>>
    BY <1>3 DEF ReplayWipes, Elsewhere
  <2>2. DOMAIN store' = {}
    BY <2>1 DEF NoChain
  <2> QED
    BY <2>1, <2>2
<1>4. ASSUME NEW k \in Tokens, Worker(k) PROVE ReplayInv'
  <2>1. replay # "done"
    <3>1. UNCHANGED replay
      BY <1>4, Zenon DEF Worker, Unparks, FirstTip, Sync, Anchor, GenesisAnswer,
         FillAnswer, InitialRetries, InitialCancelled, Parks, FetchFails,
         ExtendAnswer, ApplyOne, WalkAnswer, BranchAnswer, Weigh, Switch, LoopTop,
         Receive, Others, openVars
    <3> QED
      BY <3>1
  <2>2. wk[k].pc \in Parked
    BY <2>1
  <2>3. Unparks(k)
    <3>1. wk[k].pc \notin {"tip", "sync", "anchor", "genesis", "fill", "extend",
                          "walk", "branch", "apply", "weigh", "switch", "top", "recv"}
      BY <2>2 DEF Parked
    <3> QED
      BY <1>4, <3>1, Zenon DEF Worker, FirstTip, Sync, Anchor, GenesisAnswer,
         FillAnswer, InitialRetries, InitialCancelled, Parks, FetchFails,
         ExtendAnswer, ApplyOne, WalkAnswer, BranchAnswer, Weigh, Switch, LoopTop,
         Receive, Waiting
  <2>4. Stale(k)
    BY <2>1, <2>3 DEF Unparks, ReplaySettled
  <2>5. wk' = [wk EXCEPT ![k] = Dead] /\ UNCHANGED <<store, valid, snapshot>>
    BY <2>3, <2>4, Zenon DEF Unparks, storeVars, Others, openVars
  <2> QED
    BY <2>1, <2>5, StaysParked, ParkedRecords, Zenon
<1>5. ASSUME NEW connects, Restart(connects) PROVE ReplayInv'
  <2>1. UNCHANGED <<store, valid, snapshot, replay>>
    BY <1>5, Zenon DEF Restart, storeVars, openVars
  <2>2. wk' = [wk EXCEPT ![token + 1] = Spawned] \/ wk' = wk
    BY <1>5, Zenon DEF Restart
  <2> QED
    BY <2>1, <2>2, StaysParked, ParkedRecords
<1>6. CASE Follow \/ Reconnect
  BY <1>5, <1>6, Zenon DEF Follow, Reconnect
<1>7. CASE UNCHANGED <<store, valid, snapshot, replay, wk>>
  BY <1>7
<1>8. CASE \E k \in Tokens : ServerNotifies(k) \/ ServerAnswers(k) \/ ServerErrs(k)
  BY <1>7, <1>8, Zenon DEF ServerNotifies, ServerAnswers, ServerErrs, Quiet,
     storeVars, openVars
<1>9. CASE ServerMines \/ ConnectionDrops \/ StopStore \/ RequestExtendDown
  BY <1>7, <1>9, Zenon DEF ServerMines, ConnectionDrops, StopStore,
     RequestExtendDown, Quiet, storeVars, openVars
<1>10. CASE UNCHANGED vars
  BY <1>7, <1>10, Zenon DEF vars
<1> QED
  BY <1>1, <1>2, <1>3, <1>4, <1>6, <1>8, <1>9, <1>10, Zenon DEF Next

\* Whatever a replay that fails wipes was loaded from disk: no header a worker
\* fetched, for any file, any checkpoint, and any restarts during the replay.
THEOREM ReplayErasesOnlyLoaded == Spec => []ReplayErasesNoSync
<1>1. ReplayInv => ReplayErasesNoSync
  BY DEF ReplayInv, ReplayErasesNoSync
<1> QED
  BY <1>1, InitReplayInv, ReplayStep, PTL DEF Spec

-----------------------------------------------------------------------------
(* Lowest and highest heights.                                               *)

\* The least height of a set is one of it.
LEMMA LowestHeight ==
    ASSUME NEW S \in SUBSET Nat, S # {}
    PROVE  Min(S) \in S /\ \A y \in S : Min(S) <= y
<1> DEFINE R == {ss \in Nat \X Nat : ss[1] < ss[2]}
<1>1. IsWellFoundedOn(R, Nat)
  BY NatLessThanWellFounded DEF OpToRel
<1>2. PICK x \in S : \A y \in S : ~ (<<y, x>> \in R)
  <2> HIDE DEF R
  <2> QED
    BY <1>1, WFMin, Zenon
<1>3. ASSUME NEW y \in S, ~(x <= y) PROVE FALSE
  <2>1. x \in Nat /\ y \in Nat /\ y < x
    BY <1>3
  <2>2. <<y, x>> \in R
    BY <2>1
  <2> QED
    BY <1>2, <2>2
<1> QED
  BY <1>3, Zenon DEF Min

\* So is the highest one of a bounded set.
LEMMA HighestHeight ==
    ASSUME NEW S \in SUBSET Nat, S # {}, NEW n \in Nat, \A y \in S : y <= n
    PROVE  Max(S) \in S /\ \A y \in S : y <= Max(S)
<1> DEFINE gaps == {n - y : y \in S}
<1>0. \A y \in S : n - y \in Nat
  OBVIOUS
<1>1. gaps \in SUBSET Nat /\ gaps # {}
  BY <1>0, Zenon
<1>2. PICK g \in gaps : \A f \in gaps : g <= f
  <2> HIDE DEF gaps
  <2> QED
    BY <1>1, LowestHeight, Zenon
<1>3. PICK x \in S : g = n - x
  OBVIOUS
<1>4. ASSUME NEW y \in S PROVE x >= y
  <2>1. n - y \in gaps
    OBVIOUS
  <2>2. n - x <= n - y
    BY <1>2, <1>3, <2>1
  <2> QED
    BY <2>2
<1> QED
  BY <1>4, Zenon DEF Max

\* The ends of a chain without gaps.
LEMMA Ends ==
    ASSUME NEW a \in Nat, NEW b \in Nat, a <= b, NEW s, DOMAIN s = a .. b
    PROVE  Floor(s) = a /\ Top(s) = b /\ s # NoChain
<1>1. a .. b \in SUBSET Nat /\ a \in a .. b /\ b \in a .. b
  OBVIOUS
<1>2. Min(a .. b) = a
  <2>1. Min(a .. b) \in a .. b /\ \A y \in a .. b : Min(a .. b) <= y
    BY <1>1, LowestHeight, Zenon
  <2> QED
    BY <1>1, <2>1
<1>3. Max(a .. b) = b
  <2>0. \A y \in a .. b : y <= b
    OBVIOUS
  <2>1. Max(a .. b) \in a .. b /\ \A y \in a .. b : y <= Max(a .. b)
    BY <1>1, <2>0, HighestHeight, Zenon
  <2> QED
    BY <1>1, <2>1
<1> QED
  BY <1>1, <1>2, <1>3 DEF Floor, Top, NoChain

\* The lower and the higher of two numbers.
LEMMA OfTwo ==
    ASSUME NEW a \in Int, NEW b \in Int
    PROVE  /\ Min({a, b}) = IF a <= b THEN a ELSE b
           /\ Max({a, b}) = IF a >= b THEN a ELSE b
BY DEF Min, Max

\* Snapping a height goes down to a retarget boundary.
LEMMA SnapsToBoundary ==
    ASSUME NEW h \in Nat
    PROVE  Snap(h) \in Nat /\ Snap(h) <= h /\ Snap(h) % Interval = 0
<1> DEFINE q == h \div Interval
<1>0. Interval \in Nat \ {0}
  BY ChainsAssumption
<1>1. q \in Nat /\ h = Interval * q + (h % Interval) /\ h % Interval \in Nat
  BY <1>0
<1> HIDE DEF q
<1>2. Interval * q \in Nat
  BY <1>0, <1>1
<1>3. Snap(h) = Interval * q
  BY <1>1, <1>2 DEF Snap
<1>4. (Interval * q) % Interval = 0
  BY <1>0, <1>1
<1> QED
  BY <1>1, <1>2, <1>3, <1>4

\* The floor a sync wants is a height.
LEMMA SyncFloorType ==
    ASSUME checkpoint \in Checkpoints, NEW tip \in Nat
    PROVE  SyncFloor(tip) \in Nat
<1>1. CASE checkpoint = {}
  <2>1. Snap(tip) \in Nat /\ Interval \in Nat
    BY SnapsToBoundary, ChainsAssumption, Zenon
  <2> QED
    BY <1>1, <2>1 DEF SyncFloor, BackfillFloor
<1>2. CASE checkpoint # {}
  BY <1>2, BoundsAssumption DEF SyncFloor
<1> QED
  BY <1>1, <1>2

-----------------------------------------------------------------------------
(* Maps from heights to headers.                                             *)

HeaderOrNone == Header \cup {"none"}

HeaderMap == UNION {[S -> HeaderOrNone] : S \in SUBSET Nat}

\* A map is one when it is a function from heights to headers.
LEMMA MapIntro ==
    ASSUME NEW S \in SUBSET Nat, NEW f \in [S -> HeaderOrNone]
    PROVE  f \in HeaderMap
BY DEF HeaderMap

\* What being a map gives.
LEMMA MapElim ==
    ASSUME NEW f \in HeaderMap
    PROVE  DOMAIN f \in SUBSET Nat /\ f \in [DOMAIN f -> HeaderOrNone]
BY Zenon DEF HeaderMap

\* The empty store is a map.
LEMMA NoChainIsMap == NoChain \in HeaderMap /\ DOMAIN NoChain = {}
<1>1. NoChain \in [{} -> HeaderOrNone] /\ DOMAIN NoChain = {}
  BY DEF NoChain
<1> QED
  BY <1>1, MapIntro, Zenon

\* A map without heights is the empty store.
LEMMA EmptyMap ==
    ASSUME NEW f \in HeaderMap, DOMAIN f = {}
    PROVE  f = NoChain
BY MapElim DEF NoChain

\* What Over gives at each height.
LEMMA OverValues ==
    ASSUME NEW f, NEW g
    PROVE  /\ DOMAIN Over(f, g) = DOMAIN f \cup DOMAIN g
           /\ \A h \in DOMAIN f : Over(f, g)[h] = f[h]
           /\ \A h \in DOMAIN g \ DOMAIN f : Over(f, g)[h] = g[h]
BY DEF Over

\* One map over another is a map.
LEMMA OverType ==
    ASSUME NEW f \in HeaderMap, NEW g \in HeaderMap
    PROVE  Over(f, g) \in HeaderMap
<1>1. DOMAIN f \cup DOMAIN g \in SUBSET Nat
  BY MapElim
<1>2. Over(f, g) \in [DOMAIN f \cup DOMAIN g -> HeaderOrNone]
  BY MapElim DEF Over
<1> QED
  BY <1>1, <1>2, MapIntro, Zenon

\* What Part gives at each height.
LEMMA PartValues ==
    ASSUME NEW f, NEW S
    PROVE  /\ DOMAIN Part(f, S) = DOMAIN f \cap S
           /\ \A h \in DOMAIN f \cap S : Part(f, S)[h] = f[h]
BY DEF Part, Restrict

\* A part of a map is a map.
LEMMA PartType ==
    ASSUME NEW f \in HeaderMap, NEW S
    PROVE  Part(f, S) \in HeaderMap
<1>1. DOMAIN f \cap S \in SUBSET Nat
  BY MapElim
<1>2. Part(f, S) \in [DOMAIN f \cap S -> HeaderOrNone]
  BY MapElim DEF Part, Restrict
<1> QED
  BY <1>1, <1>2, MapIntro, Zenon

\* A single header is a map.
LEMMA SingleType ==
    ASSUME NEW h \in Nat, NEW b \in HeaderOrNone
    PROVE  Single(h, b) \in HeaderMap /\ DOMAIN Single(h, b) = {h} /\ Single(h, b)[h] = b
<1>1. {h} \in SUBSET Nat /\ Single(h, b) \in [{h} -> HeaderOrNone]
  BY DEF Single
<1> QED
  BY <1>1, MapIntro DEF Single

-----------------------------------------------------------------------------
(* What the mutations leave.                                                 *)

\* s is one run of linked headers from a to b that a start with checkpoint cp
\* accepts.
ChainFrom(cp, s, a, b) ==
    /\ a \in Nat /\ b \in Nat /\ a <= b
    /\ s \in [a .. b -> HeaderOrNone]
    /\ a % Interval = 0
    /\ a = 0 => s[0] = Genesis
    /\ \A h \in a .. b : HoldsCheckpoint(cp, h, s[h])
    /\ \A h \in a + 1 .. b : Prev[s[h]] = s[h - 1]

\* ... or is empty.
ChainOrEmpty(cp, s) == s = NoChain \/ \E a, b \in Nat : ChainFrom(cp, s, a, b)

\* A run of headers as a file may hold it: some heights, with a highest one.
FileMap(s) ==
    /\ s \in HeaderMap
    /\ s # NoChain => \E top \in DOMAIN s : \A h \in DOMAIN s : h <= top

\* A chain from a to b has its ends there, and is what a file may hold.
LEMMA ChainShape ==
    ASSUME NEW cp, NEW s, NEW a, NEW b, ChainFrom(cp, s, a, b)
    PROVE  /\ a \in Nat /\ b \in Nat /\ a <= b
           /\ DOMAIN s = a .. b /\ Floor(s) = a /\ Top(s) = b /\ s # NoChain
           /\ s \in HeaderMap /\ FileMap(s)
<1>1. a \in Nat /\ b \in Nat /\ a <= b /\ s \in [a .. b -> HeaderOrNone]
  BY DEF ChainFrom
<1>2. DOMAIN s = a .. b /\ a .. b \in SUBSET Nat /\ b \in a .. b
  BY <1>1
<1>3. Floor(s) = a /\ Top(s) = b /\ s # NoChain
  BY <1>1, <1>2, Ends
<1>4. s \in HeaderMap
  BY <1>1, <1>2, MapIntro, Zenon
<1>5. \A h \in a .. b : h <= b
  BY <1>1
<1> QED
  BY <1>1, <1>2, <1>3, <1>4, <1>5 DEF FileMap

\* A chain of the proofs is a chain of the invariant.
LEMMA ChainIsChain ==
    ASSUME NEW s, ChainOrEmpty(checkpoint, s)
    PROVE  IsChain(s)
<1>1. CASE s = NoChain
  BY <1>1, NoChainIsMap DEF IsChain, SanityCheck
<1>2. ASSUME NEW a \in Nat, NEW b \in Nat, ChainFrom(checkpoint, s, a, b)
      PROVE  IsChain(s)
  <2>1. DOMAIN s = a .. b /\ Floor(s) = a /\ Top(s) = b
    BY <1>2, ChainShape
  <2>2. SanityCheck(checkpoint, s)
    BY <1>2, <2>1 DEF SanityCheck, ChainFrom
  <2>3. \A h \in DOMAIN s : h > Floor(s) => Prev[s[h]] = s[h - 1]
    BY <1>2, <2>1 DEF ChainFrom
  <2> QED
    BY <2>2, <2>3 DEF IsChain
<1> QED
  BY <1>1, <1>2 DEF ChainOrEmpty

\* A loaded chain that is sane and replays is linked.
LEMMA ReplayedIsChain ==
    ASSUME NEW cp, NEW s, FileMap(s), SanityCheck(cp, s), ReplayValidate(s)
    PROVE  ChainOrEmpty(cp, s)
<1> SUFFICES ASSUME s # NoChain PROVE \E a, b \in Nat : ChainFrom(cp, s, a, b)
  BY DEF ChainOrEmpty
<1>1. DOMAIN s \in SUBSET Nat /\ s \in [DOMAIN s -> HeaderOrNone] /\ DOMAIN s # {}
  BY MapElim, EmptyMap DEF FileMap
<1>2. Floor(s) \in DOMAIN s /\ \A h \in DOMAIN s : Floor(s) <= h
  BY <1>1, LowestHeight DEF Floor
<1>3. Top(s) \in DOMAIN s /\ \A h \in DOMAIN s : h <= Top(s)
  <2>1. PICK top \in DOMAIN s : \A h \in DOMAIN s : h <= top
    BY DEF FileMap
  <2> QED
    BY <1>1, <2>1, HighestHeight DEF Top
<1>4. PICK a, b \in Nat : a = Floor(s) /\ b = Top(s) /\ a <= b
  BY <1>1, <1>2, <1>3
<1>5. DOMAIN s = a .. b /\ a % Interval = 0 /\ (0 \in DOMAIN s => s[0] = Genesis)
      /\ \A h \in DOMAIN s : HoldsCheckpoint(cp, h, s[h])
  BY <1>4 DEF SanityCheck
<1>6. ASSUME NEW h \in a + 1 .. b PROVE Prev[s[h]] = s[h - 1]
  <2>1. h \in DOMAIN s /\ h > Floor(s) /\ h # 0
    BY <1>4, <1>5
  <2> QED
    BY <2>1 DEF ReplayValidate, ValidateAppend
<1>7. ChainFrom(cp, s, a, b)
  BY <1>1, <1>4, <1>5, <1>6 DEF ChainFrom
<1> QED
  BY <1>7

\* t is the chain s from a to b, and on to e headers that link and hold the
\* checkpoint.
GrowsTo(cp, s, a, b, t, e) ==
    /\ ChainFrom(cp, s, a, b)
    /\ e \in Nat /\ b <= e /\ t \in [a .. e -> HeaderOrNone]
    /\ \A h \in a .. b : t[h] = s[h]
    /\ \A h \in b + 1 .. e : Prev[t[h]] = t[h - 1] /\ HoldsCheckpoint(cp, h, t[h])

\* A chain that grows so is a chain.
LEMMA ChainGrows ==
    ASSUME NEW cp, NEW s, NEW a, NEW b, NEW t, NEW e, GrowsTo(cp, s, a, b, t, e)
    PROVE  ChainFrom(cp, t, a, e)
<1> USE DEF GrowsTo
<1>1. a \in Nat /\ b \in Nat /\ a <= b
  BY DEF ChainFrom
<1>2. a % Interval = 0 /\ (a = 0 => t[0] = Genesis)
  BY <1>1 DEF ChainFrom
<1>3. \A h \in a .. e : HoldsCheckpoint(cp, h, t[h])
  BY <1>1 DEF ChainFrom
<1>4. ASSUME NEW h \in a + 1 .. e PROVE Prev[t[h]] = t[h - 1]
  <2>1. CASE h <= b
    BY <1>1, <2>1 DEF ChainFrom
  <2>2. CASE b < h
    BY <1>1, <2>2
  <2> QED
    BY <1>1, <2>1, <2>2
<1> QED
  BY <1>1, <1>2, <1>3, <1>4 DEF ChainFrom

\* The part of a chain up to one of its heights is a chain.
LEMMA ChainCut ==
    ASSUME NEW cp, NEW s, NEW a, NEW b, ChainFrom(cp, s, a, b), NEW fork \in a .. b
    PROVE  ChainFrom(cp, Part(s, 0 .. fork), a, fork)
<1>1. a \in Nat /\ b \in Nat /\ a <= b /\ s \in [a .. b -> HeaderOrNone]
  BY DEF ChainFrom
<1>2. DOMAIN s \cap (0 .. fork) = a .. fork
  BY <1>1
<1>3. \A h \in a .. fork : Part(s, 0 .. fork)[h] = s[h]
  BY <1>2, PartValues, Zenon
<1>4. Part(s, 0 .. fork) \in [a .. fork -> HeaderOrNone]
  BY <1>1, <1>2 DEF Part, Restrict
<1>5. PICK t \in [a .. fork -> HeaderOrNone] :
          t = Part(s, 0 .. fork) /\ \A h \in a .. fork : t[h] = s[h]
  BY <1>3, <1>4
<1>6. fork \in Nat /\ a <= fork /\ a % Interval = 0 /\ (a = 0 => t[0] = Genesis)
  BY <1>1, <1>5 DEF ChainFrom
<1>7. \A h \in a .. fork : HoldsCheckpoint(cp, h, t[h])
  BY <1>1, <1>5 DEF ChainFrom
<1>8. \A h \in a + 1 .. fork : Prev[t[h]] = t[h - 1]
  BY <1>1, <1>5 DEF ChainFrom
<1>9. ChainFrom(cp, t, a, fork)
  BY <1>1, <1>6, <1>7, <1>8 DEF ChainFrom
<1> QED
  BY <1>5, <1>9

\* A header with an ancestor in the store lies on one.
LEMMA AncestorBelow ==
    ASSUME NEW s, NEW h \in Nat, h > 0, Ancestors(s, h) > 0
    PROVE  h - 1 \in DOMAIN s
<1> DEFINE n == Min({h, Interval})
           S == {m \in 0 .. n : \A i \in 1 .. m : h - i \in DOMAIN s}
<1>1. n \in Nat
  BY OfTwo, ChainsAssumption
<1> HIDE DEF n
<1>2. S \in SUBSET Nat /\ 0 \in S /\ \A m \in S : m <= n
  BY <1>1
<1>3. Max(S) \in S
  <2> HIDE DEF S
  <2> QED
    BY <1>1, <1>2, HighestHeight
<1>4. Ancestors(s, h) = Max(S)
  BY DEF Ancestors, n
<1>5. Max(S) \in Nat /\ Max(S) > 0 /\ 1 \in 1 .. Max(S)
  BY <1>1, <1>3, <1>4
<1> QED
  BY <1>3, <1>5

\* The four results a mutation can have, as the fields they set.
LEMMA ResultFields ==
    ASSUME NEW s, NEW v, NEW res
    PROVE  /\ Result(s, v, res).store = s /\ Result(s, v, res).disk = s
           /\ Result(s, v, res).res = res
           /\ Untouched(res).store = store /\ Untouched(res).disk = disk
           /\ Untouched(res).res = res
           /\ [Untouched(res) EXCEPT !.store = s].store = s
           /\ [Untouched(res) EXCEPT !.store = s].disk = disk
           /\ [Untouched(res) EXCEPT !.store = s].res = res
BY DEF Result, Untouched

\* A mutation leaves a chain, in the file too, and takes no work from the store.
Chained(m) ==
    ChainOrEmpty(checkpoint, m.store) /\ m.disk = m.store /\ Gains(store, m.store)

\* One that flushes a chain with all of the store, or one of more work, does.
LEMMA ChainedResult ==
    ASSUME NEW s, ChainOrEmpty(checkpoint, s), Gains(store, s), NEW v, NEW res
    PROVE  Chained(Result(s, v, res))
BY ResultFields DEF Chained

\* Keeping every header, or none, takes no work.
LEMMA GainsByKeeping ==
    ASSUME NEW s, NEW t, Keeps(s, t) \/ t = NoChain \/ s = NoChain
    PROVE  Gains(s, t)
BY Zenon DEF Gains

\* A mutation that wipes, or that touches nothing, leaves chains.
LEMMA PlainResults ==
    ASSUME ChainOrEmpty(checkpoint, store), disk = store, NEW res
    PROVE  Chained(Untouched(res)) /\ Chained(Wipe) /\ Chained(Refused)
<1>1. Gains(store, store) /\ Gains(store, NoChain)
  BY GainsByKeeping, Zenon DEF Keeps
<1> QED
  BY <1>1, ResultFields DEF Chained, Wipe, Refused, ChainOrEmpty

\* append leaves a chain when the header comes right above the top, or is the
\* genesis of an empty store.
LEMMA Append1Keeps ==
    ASSUME ChainOrEmpty(checkpoint, store), disk = store,
           NEW h \in Nat, NEW b \in HeaderOrNone,
           store # NoChain => h = Top(store) + 1 /\ Prev[b] = store[Top(store)]
    PROVE  Chained(Append1(h, b)) /\ Append1(h, b).res \in {"ok", "error", "checkpoint"}
<1>1. CASE ~ValidateAppend(store, h, b)
  BY <1>1, PlainResults, ResultFields DEF Append1
<1>2. CASE ValidateAppend(store, h, b) /\ ~HoldsCheckpoint(checkpoint, h, b)
  <2>1. Append1(h, b) = Refused
    BY <1>2, Zenon DEF Append1
  <2> QED
    BY <2>1, PlainResults, ResultFields DEF Refused
<1>3. CASE ValidateAppend(store, h, b) /\ HoldsCheckpoint(checkpoint, h, b)
  <2> DEFINE t == Over(Single(h, b), store)
  <2>1. Append1(h, b).store = t /\ Append1(h, b).disk = t /\ Append1(h, b).res = "ok"
    BY <1>3, ResultFields DEF Append1
  <2>2. DOMAIN Single(h, b) = {h} /\ Single(h, b)[h] = b
    BY SingleType, Zenon
  <2>3. CASE store = NoChain
    <3>1. h = 0 /\ b = Genesis
      <4>1. DOMAIN store = {}
        BY <2>3, NoChainIsMap
      <4> QED
        BY <1>3, <4>1, AncestorBelow DEF ValidateAppend
    <3>2. DOMAIN t = 0 .. 0 /\ t[0] = b
      <4>1. {0} \cup {} = 0 .. 0
        OBVIOUS
      <4> QED
        BY <2>2, <2>3, <3>1, <4>1, NoChainIsMap DEF Over
    <3>3. t \in [0 .. 0 -> HeaderOrNone]
      BY <2>2, <2>3, <3>1, <3>2, NoChainIsMap DEF Over
    <3> HIDE DEF t
    <3>4. 0 % Interval = 0
      BY ChainsAssumption
    <3>5. ChainFrom(checkpoint, t, 0, 0)
      BY <1>3, <3>1, <3>2, <3>3, <3>4 DEF ChainFrom
    <3>6. Gains(store, t)
      BY <2>3, GainsByKeeping, Zenon
    <3> QED
      BY <2>1, <3>5, <3>6 DEF Chained, ChainOrEmpty
  <2>4. ASSUME NEW a \in Nat, NEW top \in Nat, ChainFrom(checkpoint, store, a, top)
        PROVE  Chained(Append1(h, b))
    <3>1. DOMAIN store = a .. top /\ Top(store) = top /\ a <= top /\ store # NoChain
          /\ store \in [a .. top -> HeaderOrNone]
      BY <2>4, ChainShape, Zenon DEF ChainFrom
    <3>2. h = top + 1 /\ Prev[b] = store[top]
      BY <3>1
    <3>3. DOMAIN t = a .. h /\ t[h] = b /\ \A g \in a .. top : t[g] = store[g]
      <4>1. {h} \cup (a .. top) = a .. h /\ \A g \in a .. top : g \notin {h}
        BY <3>1, <3>2
      <4> QED
        BY <2>2, <3>1, <4>1 DEF Over
    <3>4. t \in [a .. h -> HeaderOrNone]
      BY <2>2, <3>1, <3>3 DEF Over
    <3> HIDE DEF t
    <3>5. GrowsTo(checkpoint, store, a, top, t, h)
      BY <1>3, <2>4, <3>1, <3>2, <3>3, <3>4 DEF GrowsTo
    <3>6. ChainFrom(checkpoint, t, a, h)
      BY <3>5, ChainGrows
    <3>7. Gains(store, t)
      <4>1. Keeps(store, t)
        BY <3>1, <3>2, <3>3 DEF Keeps
      <4> QED
        BY <4>1, GainsByKeeping, Zenon
    <3> QED
      BY <2>1, <3>6, <3>7 DEF Chained, ChainOrEmpty
  <2> QED
    BY <2>1, <2>3, <2>4 DEF ChainOrEmpty
<1> QED
  BY <1>1, <1>2, <1>3

\* A batch of headers is a piece of one chain.
Linked(raws) == \A h \in DOMAIN raws : h - 1 \in DOMAIN raws => Prev[raws[h]] = raws[h - 1]

\* append_batch, for a batch right above the top or of an empty store: what it
\* keeps of the batch, all of it or what precedes the first header that fails,
\* leaves a chain.
LEMMA BatchPrefix ==
    ASSUME ChainOrEmpty(checkpoint, store), NEW batch \in HeaderMap,
           NEW start \in Nat, NEW e \in Nat, start <= e, DOMAIN batch = start .. e,
           store = NoChain \/ start = Top(store) + 1,
           NEW f \in Nat, start <= f, f <= e + 1,
           \A h \in start .. f - 1 :
             /\ IF store = NoChain /\ h = start /\ h > 0 THEN h % Interval = 0
                ELSE ValidateAppend(Over(Part(batch, start .. h - 1), store), h, batch[h])
             /\ HoldsCheckpoint(checkpoint, h, batch[h])
    PROVE  ChainOrEmpty(checkpoint, Over(Part(batch, start .. f - 1), store))
<1> DEFINE t == Over(Part(batch, start .. f - 1), store)
<1>0. batch \in [start .. e -> HeaderOrNone]
  BY MapElim
<1>1. DOMAIN Part(batch, start .. f - 1) = start .. f - 1
      /\ \A h \in start .. f - 1 : Part(batch, start .. f - 1)[h] = batch[h]
  <2>1. (start .. e) \cap (start .. f - 1) = start .. f - 1
    OBVIOUS
  <2> QED
    BY <2>1, PartValues, Zenon
<1>2. DOMAIN t = (start .. f - 1) \cup DOMAIN store
      /\ (\A h \in start .. f - 1 : t[h] = batch[h])
      /\ \A h \in DOMAIN store \ (start .. f - 1) : t[h] = store[h]
  BY <1>1, Zenon DEF Over
<1>3. ASSUME NEW h \in start + 1 .. f - 1
      PROVE  Prev[batch[h]] = batch[h - 1]
  <2>1. h \in start .. f - 1 /\ h # 0 /\ ~(h = start)
        /\ h - 1 \in (start .. e) \cap (start .. h - 1)
    OBVIOUS
  <2>2. ValidateAppend(Over(Part(batch, start .. h - 1), store), h, batch[h])
    BY <2>1
  <2>3. Prev[batch[h]] = Over(Part(batch, start .. h - 1), store)[h - 1]
    BY <2>1, <2>2 DEF ValidateAppend
  <2>4. h - 1 \in DOMAIN Part(batch, start .. h - 1)
        /\ Part(batch, start .. h - 1)[h - 1] = batch[h - 1]
    BY <2>1, PartValues, Zenon
  <2> QED
    BY <2>3, <2>4 DEF Over
<1>4. CASE f = start
  <2>1. start .. f - 1 = {}
    BY <1>4
  <2>2. CASE store = NoChain
    <3>1. t \in HeaderMap /\ DOMAIN t = {}
      BY <1>2, <2>1, <2>2, NoChainIsMap, PartType, OverType, Zenon
    <3> QED
      BY <3>1, EmptyMap DEF ChainOrEmpty
  <2>3. ASSUME NEW a \in Nat, NEW b \in Nat, ChainFrom(checkpoint, store, a, b)
        PROVE  ChainOrEmpty(checkpoint, t)
    <3>1. store \in [a .. b -> HeaderOrNone]
      BY <2>3 DEF ChainFrom
    <3>2. t = store
      BY <1>1, <2>1, <3>1 DEF Over
    <3> QED
      BY <3>2
  <2> QED
    BY <2>2, <2>3 DEF ChainOrEmpty
<1>5. CASE start < f /\ store = NoChain
  <2>1. DOMAIN t = start .. f - 1 /\ f - 1 \in Nat /\ start <= f - 1
    BY <1>2, <1>5, NoChainIsMap
  <2>2. t \in [start .. f - 1 -> HeaderOrNone]
    <3>1. \A h \in start .. f - 1 : t[h] \in HeaderOrNone
      BY <1>0, <1>2
    <3> QED
      BY <2>1, <3>1, Zenon DEF Over
  <2>3. start % Interval = 0 /\ (start = 0 => batch[0] = Genesis)
    <3>1. start \in start .. f - 1
      BY <1>5
    <3>2. CASE start > 0
      BY <1>5, <3>1, <3>2
    <3>3. CASE start = 0
      <4>1. 0 % Interval = 0
        BY ChainsAssumption
      <4>2. ValidateAppend(Over(Part(batch, 0 .. 0 - 1), store), 0, batch[0])
        BY <3>1, <3>3
      <4> QED
        BY <3>3, <4>1, <4>2, Zenon DEF ValidateAppend
    <3> QED
      BY <3>2, <3>3
  <2> HIDE DEF t
  <2>4. ASSUME NEW h \in start + 1 .. f - 1 PROVE Prev[t[h]] = t[h - 1]
    <3>1. h \in start .. f - 1 /\ h - 1 \in start .. f - 1
      OBVIOUS
    <3> QED
      BY <1>2, <1>3, <3>1
  <2>5. \A h \in start .. f - 1 : HoldsCheckpoint(checkpoint, h, t[h])
    BY <1>2, Zenon
  <2>6. start = 0 => t[0] = Genesis
    BY <1>2, <1>5, <2>3
  <2>7. ChainFrom(checkpoint, t, start, f - 1)
    BY <2>1, <2>2, <2>3, <2>4, <2>5, <2>6, Zenon DEF ChainFrom
  <2> QED
    BY <2>1, <2>7 DEF ChainOrEmpty, t
<1>6. ASSUME start < f, NEW a \in Nat, NEW b \in Nat, ChainFrom(checkpoint, store, a, b)
      PROVE  ChainOrEmpty(checkpoint, t)
  <2>1. DOMAIN store = a .. b /\ a <= b /\ store \in [a .. b -> HeaderOrNone]
        /\ Top(store) = b /\ store # NoChain
    BY <1>6, ChainShape, Zenon DEF ChainFrom
  <2>2. start = b + 1
    BY <2>1
  <2>3. (start .. f - 1) \cup (a .. b) = a .. f - 1 /\ f - 1 \in Nat /\ b <= f - 1
        /\ \A h \in a .. b : h \notin start .. f - 1
    BY <1>6, <2>1, <2>2
  <2>4. DOMAIN t = a .. f - 1 /\ \A h \in a .. b : t[h] = store[h]
    BY <1>2, <2>1, <2>3, Zenon
  <2>5. t \in [a .. f - 1 -> HeaderOrNone]
    <3>1. \A h \in a .. f - 1 : t[h] \in HeaderOrNone
      BY <1>0, <1>2, <2>1, <2>3, <2>4, SMTT(30)
    <3> QED
      BY <2>4, <3>1, Zenon DEF Over
  <2>6. Prev[batch[start]] = store[b]
    <3>1. start \in start .. f - 1 /\ start # 0 /\ start - 1 = b
          /\ start .. start - 1 = {}
      BY <1>6, <2>2
    <3>2. ValidateAppend(Over(Part(batch, start .. start - 1), store), start, batch[start])
      BY <2>1, <3>1, Zenon
    <3>3. Prev[batch[start]] = Over(Part(batch, start .. start - 1), store)[b]
      BY <3>1, <3>2 DEF ValidateAppend
    <3>4. DOMAIN Part(batch, start .. start - 1) = {}
      <4>1. DOMAIN Part(batch, start .. start - 1) = DOMAIN batch \cap (start .. start - 1)
        BY PartValues, Zenon
      <4> QED
        BY <3>1, <4>1, Zenon
    <3> QED
      BY <2>1, <3>3, <3>4 DEF Over
  <2> HIDE DEF t
  <2>7. ASSUME NEW h \in b + 1 .. f - 1
        PROVE  Prev[t[h]] = t[h - 1] /\ HoldsCheckpoint(checkpoint, h, t[h])
    <3>1. h \in start .. f - 1
      BY <2>2
    <3>2. CASE h = start
      BY <1>2, <2>1, <2>2, <2>4, <2>6, <3>1, <3>2, SMTT(30)
    <3>3. CASE h # start
      <4>1. h \in start + 1 .. f - 1 /\ h - 1 \in start .. f - 1
        BY <3>1, <3>3
      <4> QED
        BY <1>2, <1>3, <3>1, <4>1
    <3> QED
      BY <3>2, <3>3
  <2>8. ChainFrom(checkpoint, t, a, f - 1)
    <3>1. GrowsTo(checkpoint, store, a, b, t, f - 1)
      BY <1>6, <2>3, <2>4, <2>5, <2>7, Zenon DEF GrowsTo
    <3> QED
      BY <3>1, ChainGrows
  <2> QED
    BY <2>3, <2>8 DEF ChainOrEmpty, t
<1> QED
  BY <1>4, <1>5, <1>6 DEF ChainOrEmpty

\* A height above a run of headers that starts on a boundary has an ancestor in
\* it, and a whole window of them if it is a boundary itself.
LEMMA FullWindow ==
    ASSUME NEW s, NEW a \in Nat, NEW h \in Nat, a < h, a % Interval = 0,
           a .. h - 1 \subseteq DOMAIN s
    PROVE  Ancestors(s, h) > 0 /\ (h % Interval = 0 => Ancestors(s, h) = Interval)
<1> DEFINE n == Min({h, Interval})
           S == {m \in 0 .. n : \A i \in 1 .. m : h - i \in DOMAIN s}
<1>0. Interval \in Nat \ {0}
  BY ChainsAssumption
<1>1. n \in Nat /\ n <= Interval /\ 1 <= n /\ (h >= Interval => n = Interval)
  BY <1>0, OfTwo
<1> HIDE DEF n
<1>2. S \in SUBSET Nat /\ 0 \in S /\ \A m \in S : m <= n
  BY <1>1
<1>3. Max(S) \in S /\ \A m \in S : m <= Max(S)
  <2> HIDE DEF S
  <2> QED
    BY <1>1, <1>2, HighestHeight
<1>4. Ancestors(s, h) = Max(S)
  BY DEF Ancestors, n
<1>5. \A m \in 0 .. n : m <= h - a => m \in S
  BY <1>1
<1>6. 1 \in S
  BY <1>1, <1>5
<1>7. h % Interval = 0 => n = Interval /\ Interval <= h - a
  <2> SUFFICES ASSUME h % Interval = 0 PROVE Interval <= h - a
    BY <1>0, <1>1
  <2>0. \A c \in Nat : c % Interval = 0 => \E p \in Nat : c = Interval * p
    <3> SUFFICES ASSUME NEW c \in Nat, c % Interval = 0 PROVE \E p \in Nat : c = Interval * p
      OBVIOUS
    <3>1. c \div Interval \in Nat /\ c = Interval * (c \div Interval) + (c % Interval)
          /\ Interval * (c \div Interval) \in Nat
      BY <1>0
    <3> QED
      BY <3>1
  <2>1. PICK p \in Nat : a = Interval * p
    BY <2>0, Zenon
  <2>2. PICK q \in Nat : h = Interval * q
    BY <2>0, Zenon
  <2>3. p < q
    <3> SUFFICES ASSUME q <= p PROVE FALSE
      OBVIOUS
    <3>1. Interval * q <= Interval * p
      BY <1>0
    <3> QED
      BY <2>1, <2>2, <3>1
  <2>4. Interval * (p + 1) <= Interval * q
    BY <1>0, <2>3
  <2>5. Interval * (p + 1) = Interval * p + Interval
    BY <1>0
  <2> QED
    BY <1>0, <2>1, <2>2, <2>4, <2>5
<1> HIDE DEF S
<1>8. h % Interval = 0 => Interval \in S
  BY <1>0, <1>1, <1>5, <1>7
<1>9. PICK w \in Nat : w = Max(S) /\ 1 <= w /\ w <= n
  BY <1>2, <1>3, <1>6
<1>10. h % Interval = 0 => Interval <= w /\ n = Interval
  BY <1>3, <1>7, <1>8, <1>9, Zenon
<1>11. h % Interval = 0 => w = Interval
  BY <1>0, <1>9, <1>10
<1> QED
  BY <1>4, <1>9, <1>11

\* append_batch checks every header of a batch of one chain that follows a first
\* one it accepts: what precedes it is a run that starts on a boundary.
LEMMA BatchLinks ==
    ASSUME ChainOrEmpty(checkpoint, store), NEW batch \in HeaderMap, Linked(batch),
           NEW start \in Nat, NEW e \in Nat, start <= e, DOMAIN batch = start .. e,
           store = NoChain \/ start = Top(store) + 1,
           NEW f \in Nat, start < f, f <= e,
           ChainOrEmpty(checkpoint, Over(Part(batch, start .. f - 1), store))
    PROVE  ValidateAppend(Over(Part(batch, start .. f - 1), store), f, batch[f])
<1>1. PICK t : t = Over(Part(batch, start .. f - 1), store)
  BY Zenon
<1>2. DOMAIN Part(batch, start .. f - 1) = start .. f - 1
      /\ Part(batch, start .. f - 1)[f - 1] = batch[f - 1]
  <2>1. DOMAIN batch \cap (start .. f - 1) = start .. f - 1 /\ f - 1 \in start .. f - 1
    OBVIOUS
  <2> QED
    BY <2>1, PartValues, Zenon
<1>3. DOMAIN t = (start .. f - 1) \cup DOMAIN store /\ t[f - 1] = batch[f - 1]
  <2>1. f - 1 \in start .. f - 1
    OBVIOUS
  <2>2. PICK part : part = Part(batch, start .. f - 1)
    BY Zenon
  <2>3. DOMAIN part = start .. f - 1 /\ part[f - 1] = batch[f - 1] /\ t = Over(part, store)
    BY <1>1, <1>2, <2>2
  <2>4. DOMAIN t = DOMAIN part \cup DOMAIN store /\ \A h \in DOMAIN part : t[h] = part[h]
    BY <2>3, OverValues, Zenon
  <2> QED
    BY <2>1, <2>3, <2>4
<1>4. f - 1 \in DOMAIN t /\ f \notin DOMAIN store
  <2>1. CASE store = NoChain
    BY <1>3, <2>1, NoChainIsMap
  <2>2. ASSUME NEW a \in Nat, NEW b \in Nat, ChainFrom(checkpoint, store, a, b)
        PROVE  f - 1 \in DOMAIN t /\ f \notin DOMAIN store
    <3>1. DOMAIN store = a .. b /\ Top(store) = b /\ store # NoChain
      BY <2>2, ChainShape, Zenon
    <3> QED
      BY <1>3, <3>1
  <2> QED
    BY <2>1, <2>2 DEF ChainOrEmpty
<1>5. PICK a, b \in Nat : ChainFrom(checkpoint, t, a, b)
  <2>1. t # NoChain
    BY <1>4, NoChainIsMap
  <2> QED
    BY <1>1, <2>1 DEF ChainOrEmpty
<1>6. DOMAIN t = a .. b /\ a % Interval = 0
  BY <1>5, ChainShape, Zenon DEF ChainFrom
<1>7. a < f /\ a .. f - 1 \subseteq DOMAIN t
  BY <1>4, <1>6
<1>8. Ancestors(t, f) > 0 /\ (f % Interval = 0 => Ancestors(t, f) = Interval)
  BY <1>6, <1>7, FullWindow
<1>9. Prev[batch[f]] = t[f - 1]
  <2>1. f \in DOMAIN batch /\ f - 1 \in DOMAIN batch
    OBVIOUS
  <2> QED
    BY <1>3, <2>1, Zenon DEF Linked
<1> QED
  BY <1>1, <1>8, <1>9 DEF ValidateAppend

\* append_batch leaves a chain, flushed: a batch of one chain is refused at its
\* first header or not at all.
LEMMA AppendBatchKeeps ==
    ASSUME ChainOrEmpty(checkpoint, store), disk = store,
           NEW batch \in HeaderMap, Linked(batch),
           NEW start \in Nat, NEW e \in Nat, start <= e, DOMAIN batch = start .. e,
           store = NoChain \/ start = Top(store) + 1
    PROVE  Chained(AppendBatch(batch))
<1> DEFINE Before(h) == Over(Part(batch, start .. h - 1), store)
           Checks(h) == IF store = NoChain /\ h = start /\ h > 0 THEN h % Interval = 0
                        ELSE ValidateAppend(Before(h), h, batch[h])
           failing == {h \in DOMAIN batch :
                           ~Checks(h) \/ ~HoldsCheckpoint(checkpoint, h, batch[h])}
<1>1. Floor(batch) = start
  BY Ends
<1>2. AppendBatch(batch) =
        CASE failing = {} -> Result(Over(batch, store), "valid", "ok")
          [] failing # {} /\ ~Checks(Min(failing)) ->
                [Untouched("error") EXCEPT !.store = Before(Min(failing))]
          [] OTHER -> Refused
  BY <1>1, Zenon DEF AppendBatch
<1>3. CASE failing = {}
  <2>1. AppendBatch(batch) = Result(Over(batch, store), "valid", "ok")
    BY <1>2, <1>3, Zenon
  <2>2. \A h \in start .. (e + 1) - 1 : Checks(h) /\ HoldsCheckpoint(checkpoint, h, batch[h])
    BY <1>3
  <2>6. e + 1 \in Nat /\ start <= e + 1 /\ e + 1 <= e + 1
    OBVIOUS
  <2>3. ChainOrEmpty(checkpoint, Over(Part(batch, start .. (e + 1) - 1), store))
    BY <2>2, <2>6, BatchPrefix, Zenon
  <2>4. Part(batch, start .. (e + 1) - 1) = batch
    BY MapElim DEF Part, Restrict
  <2>5. Gains(store, Over(batch, store))
    <3>1. CASE store = NoChain
      BY <3>1, GainsByKeeping, Zenon
    <3>2. ASSUME NEW a \in Nat, NEW b \in Nat, ChainFrom(checkpoint, store, a, b)
          PROVE  Gains(store, Over(batch, store))
      <4>1. DOMAIN store = a .. b /\ Top(store) = b /\ store # NoChain
        BY <3>2, ChainShape, Zenon
      <4>2. DOMAIN store \subseteq DOMAIN store \ DOMAIN batch
        BY <4>1
      <4>3. \A h \in DOMAIN store : h \in DOMAIN Over(batch, store) /\ Over(batch, store)[h] = store[h]
        BY <4>2 DEF Over
      <4>4. Keeps(store, Over(batch, store))
        BY <4>3, Zenon DEF Keeps
      <4> QED
        BY <4>4, GainsByKeeping, Zenon
    <3> QED
      BY <3>1, <3>2 DEF ChainOrEmpty
  <2> QED
    BY <2>1, <2>3, <2>4, <2>5, ChainedResult, Zenon
<1>4. CASE failing # {} /\ ~Checks(Min(failing))
  <2>1. AppendBatch(batch) = [Untouched("error") EXCEPT !.store = Before(Min(failing))]
    BY <1>2, <1>4, Zenon
  <2>2. failing \in SUBSET Nat /\ failing \subseteq start .. e
    OBVIOUS
  <2>3. PICK f \in failing : f = Min(failing) /\ \A g \in failing : f <= g
    <3> HIDE DEF failing
    <3> QED
      BY <1>4, <2>2, LowestHeight, Zenon
  <2>4. f \in Nat /\ start <= f /\ f <= e + 1
    BY <2>2, <2>3
  <2>5. \A h \in start .. f - 1 : Checks(h) /\ HoldsCheckpoint(checkpoint, h, batch[h])
    <3> SUFFICES ASSUME NEW h \in start .. f - 1 PROVE h \in DOMAIN batch /\ h \notin failing
      BY Zenon
    <3>1. h \in start .. e /\ ~(f <= h)
      BY <2>4, <2>2, <2>3
    <3> QED
      BY <2>3, <3>1, Zenon
  <2>6. ChainOrEmpty(checkpoint, Over(Part(batch, start .. f - 1), store))
    BY <2>4, <2>5, BatchPrefix
  <2>7. f = start
    <3>0. ~Checks(f)
      BY <1>4, <2>3
    <3> SUFFICES ASSUME start < f PROVE Checks(f)
      <4> HIDE DEF Checks
      <4> QED
        BY <2>4, <3>0
    <3>1. f <= e
      BY <2>2, <2>3
    <3>2. ValidateAppend(Before(f), f, batch[f])
      BY <2>4, <2>6, <3>1, BatchLinks
    <3> QED
      BY <2>4, <3>2, SMTT(30)
  <2>8. Before(f) = store
    <3>1. DOMAIN Part(batch, start .. f - 1) = {}
      <4>1. start .. f - 1 = {}
        BY <2>7
      <4>2. DOMAIN batch \cap (start .. f - 1) = {}
        BY <4>1
      <4> QED
        BY <4>2, PartValues, Zenon
    <3>2. store = [h \in DOMAIN store |-> store[h]]
      BY NoChainIsMap, ChainShape, MapElim DEF ChainOrEmpty
    <3> QED
      BY <3>1, <3>2 DEF Over
  <2>9. AppendBatch(batch).store = store /\ AppendBatch(batch).disk = disk
    <3>1. AppendBatch(batch) = [Untouched("error") EXCEPT !.store = store]
      BY <2>1, <2>3, <2>8
    <3>2. [Untouched("error") EXCEPT !.store = store].store = store
          /\ [Untouched("error") EXCEPT !.store = store].disk = disk
      BY ResultFields, Zenon
    <3> QED
      BY <3>1, <3>2
  <2>10. Gains(store, store)
    BY GainsByKeeping, Zenon DEF Keeps
  <2> QED
    BY <2>9, <2>10 DEF Chained
<1>5. CASE failing # {} /\ Checks(Min(failing))
  <2>1. AppendBatch(batch) = Refused
    BY <1>2, <1>5, Zenon
  <2> QED
    BY <2>1, PlainResults
<1> QED
  BY <1>3, <1>4, <1>5, Zenon

\* What a branch on its way to replace_branch is: it leaves the store at a height
\* of it, and its headers link down to the store's header there.
Branching(r, s) ==
    /\ DOMAIN r.buf = r.fork + 1 .. r.inc.h
    /\ \A h \in r.fork + 1 .. r.inc.h :
          Prev[r.buf[h]] = IF h = r.fork + 1 THEN s[r.fork] ELSE r.buf[h - 1]

\* replace_branch leaves a chain.
LEMMA ReplaceKeeps ==
    ASSUME ChainOrEmpty(checkpoint, store), disk = store,
           NEW r, r.buf \in HeaderMap, r.inc.h \in Nat, r.fork \in DOMAIN store,
           Branching(r, store), HasMoreWork(store, r.fork, r.buf)
    PROVE  Chained(ReplaceBranch(r.fork, r.buf))
<1>1. CASE \E h \in DOMAIN r.buf : ~HoldsCheckpoint(checkpoint, h, r.buf[h])
  <2>1. ReplaceBranch(r.fork, r.buf) = Refused
    BY <1>1, Zenon DEF ReplaceBranch
  <2> QED
    BY <2>1, PlainResults
<1>2. CASE \A h \in DOMAIN r.buf : HoldsCheckpoint(checkpoint, h, r.buf[h])
  <2> DEFINE cut == Part(store, 0 .. r.fork)
             t == Over(r.buf, cut)
  <2>1. ReplaceBranch(r.fork, r.buf) = Result(t, "valid", "ok")
    BY <1>2, Zenon DEF ReplaceBranch
  <2>2. PICK a, b \in Nat : ChainFrom(checkpoint, store, a, b)
    BY NoChainIsMap DEF ChainOrEmpty
  <2>3. DOMAIN store = a .. b
    BY <2>2, ChainShape, Zenon
  <2>4. ChainFrom(checkpoint, cut, a, r.fork)
    BY <2>2, <2>3, ChainCut, Zenon
  <2>5. r.fork \in Nat /\ a <= r.fork /\ DOMAIN cut = a .. r.fork
        /\ cut \in [a .. r.fork -> HeaderOrNone]
    BY <2>4, ChainShape, Zenon DEF ChainFrom
  <2>6. \A h \in a .. r.fork : cut[h] = store[h]
    BY <2>3, <2>5, PartValues, Zenon
  <2>7. DOMAIN r.buf = r.fork + 1 .. r.inc.h /\ r.buf \in [DOMAIN r.buf -> HeaderOrNone]
    BY MapElim, Zenon DEF Branching
  <2> HIDE DEF cut
  <2>8. PICK e \in Nat : e = IF r.inc.h < r.fork THEN r.fork ELSE r.inc.h
    BY <2>5
  <2>9. (r.fork + 1 .. r.inc.h) \cup (a .. r.fork) = a .. e /\ r.fork <= e
        /\ r.fork + 1 .. e = r.fork + 1 .. r.inc.h
    BY <2>5, <2>8, SMTT(30)
  <2>10. DOMAIN t = a .. e
    BY <2>5, <2>7, <2>9, Zenon DEF Over
  <2>11. (\A h \in r.fork + 1 .. e : t[h] = r.buf[h]) /\ \A h \in a .. r.fork : t[h] = cut[h]
    BY <2>5, <2>7, <2>9 DEF Over
  <2>12. t \in [a .. e -> HeaderOrNone]
    <3>1. \A h \in a .. e : t[h] \in HeaderOrNone
      BY <2>5, <2>7, <2>8, <2>9, <2>11, Zenon
    <3> QED
      BY <2>10, <3>1, Zenon DEF Over
  <2> HIDE DEF t
  <2>13. ASSUME NEW h \in r.fork + 1 .. e
         PROVE  Prev[t[h]] = t[h - 1] /\ HoldsCheckpoint(checkpoint, h, t[h])
    <3>1. t[h] = r.buf[h] /\ h \in DOMAIN r.buf /\ HoldsCheckpoint(checkpoint, h, t[h])
      BY <1>2, <2>7, <2>9, <2>11, Zenon
    <3>2. CASE h = r.fork + 1
      <4>1. h - 1 = r.fork /\ r.fork \in a .. r.fork
        BY <2>5, <3>2
      <4> QED
        BY <2>6, <2>9, <2>11, <3>1, <3>2, <4>1, SMTT(30) DEF Branching
    <3>3. CASE h # r.fork + 1
      <4>1. h - 1 \in r.fork + 1 .. e
        BY <2>5, <3>3
      <4> QED
        BY <2>9, <2>11, <3>1, <3>3, <4>1, Zenon DEF Branching
    <3> QED
      BY <3>1, <3>2, <3>3
  <2>14. ChainFrom(checkpoint, t, a, e)
    <3>1. (\A h \in a .. r.fork : t[h] = cut[h]) /\ r.fork <= e
      BY <2>9, <2>11, Zenon
    <3>2. \A h \in r.fork + 1 .. e : Prev[t[h]] = t[h - 1] /\ HoldsCheckpoint(checkpoint, h, t[h])
      BY <2>13
    <3>3. GrowsTo(checkpoint, cut, a, r.fork, t, e)
      BY <2>4, <2>12, <3>1, <3>2, Zenon DEF GrowsTo
    <3> QED
      BY <3>3, ChainGrows, Zenon
  <2>15. Outweighs(store, t, r.fork)
    <3>2. DOMAIN store \cap (0 .. r.fork) = a .. r.fork /\ (a .. e) \cap (0 .. r.fork) = a .. r.fork
          /\ (a .. e) \ (0 .. r.fork) = r.fork + 1 .. r.inc.h
      BY <2>2, <2>3, <2>5, <2>9, ChainShape
    <3>3. Part(t, 0 .. r.fork) = cut
      <4>1. Part(t, 0 .. r.fork) = [h \in a .. r.fork |-> t[h]]
        BY <2>10, <3>2, Zenon DEF Part, Restrict
      <4>2. cut = [h \in a .. r.fork |-> cut[h]]
        BY <2>5
      <4> QED
        BY <2>11, <4>1, <4>2, Zenon
    <3>4. Above(t, r.fork) = r.buf
      <4>1. DOMAIN t \cap (DOMAIN t \ (0 .. r.fork)) = r.fork + 1 .. r.inc.h
        BY <2>10, <3>2, Zenon
      <4>2. Above(t, r.fork) = [h \in r.fork + 1 .. r.inc.h |-> t[h]]
        BY <4>1, Zenon DEF Above, Part, Restrict
      <4>3. r.buf = [h \in r.fork + 1 .. r.inc.h |-> r.buf[h]]
        BY <2>7
      <4> QED
        BY <2>9, <2>11, <4>2, <4>3, Zenon
    <3> QED
      BY <3>3, <3>4, Zenon DEF Outweighs, HasMoreWork, cut
  <2> QED
    <3>1. ChainOrEmpty(checkpoint, t) /\ Gains(store, t)
      BY <2>2, <2>14, <2>15, Zenon DEF ChainOrEmpty, Gains
    <3>2. Chained(Result(t, "valid", "ok"))
      BY <3>1, ChainedResult, Zenon
    <3> QED
      BY <2>1, <3>2
<1> QED
  BY <1>1, <1>2, Zenon

\* prepend leaves a chain: the range that comes below the floor replays up to it.
LEMMA PrependKeeps ==
    ASSUME ChainOrEmpty(checkpoint, store), disk = store, store # NoChain,
           NEW range \in HeaderMap, NEW lo \in Nat, lo % Interval = 0,
           NEW floor, floor = Floor(store), lo < floor, DOMAIN range = lo .. floor - 1
    PROVE  Chained(Prepend(range, floor))
<1> DEFINE full == Over(range, Single(floor, store[floor]))
           replays == floor \in DOMAIN store /\ ReplayValidate(full)
           holds == \A h \in DOMAIN range : HoldsCheckpoint(checkpoint, h, range[h])
           t == Over(range, store)
<1>1. PICK a, b \in Nat : ChainFrom(checkpoint, store, a, b)
  BY DEF ChainOrEmpty
<1>2. DOMAIN store = a .. b /\ floor = a /\ a <= b /\ store \in [a .. b -> HeaderOrNone]
  BY <1>1, ChainShape, Zenon DEF ChainFrom
<1>3. range \in [lo .. a - 1 -> HeaderOrNone]
  BY <1>2, MapElim
<1>4. CASE ~replays
  BY <1>4, PlainResults, Zenon DEF Prepend
<1>5. CASE replays /\ ~holds
  <2>1. Prepend(range, floor) = Refused
    BY <1>5, Zenon DEF Prepend
  <2> QED
    BY <2>1, PlainResults
<1>6. CASE replays /\ holds
  <2>1. Prepend(range, floor) = Result(t, valid, "ok")
    BY <1>6, Zenon DEF Prepend
  <2>2. DOMAIN full = lo .. a /\ (\A h \in lo .. a - 1 : full[h] = range[h]) /\ full[a] = store[a]
    BY <1>2, <1>3 DEF Over, Single
  <2>3. Floor(full) = lo
    BY <1>2, <2>2, Ends
  <2>4. DOMAIN t = lo .. b
    BY <1>2, <1>3 DEF Over
  <2>5. (\A h \in lo .. a - 1 : t[h] = range[h]) /\ (\A h \in a .. b : t[h] = store[h])
    BY <1>2, <1>3 DEF Over
  <2>6. t \in [lo .. b -> HeaderOrNone]
    <3>1. \A h \in lo .. b : t[h] \in HeaderOrNone
      BY <1>2, <1>3, <2>5
    <3> QED
      BY <2>4, <3>1, Zenon DEF Over
  <2> HIDE DEF t
  <2>7. \A h \in lo .. a : t[h] = full[h]
    BY <1>2, <2>2, <2>5
  <2>8. \A h \in lo .. a : h = 0 \/ h > lo => ValidateAppend(full, h, full[h])
    BY <1>6, <2>2, <2>3, Zenon DEF ReplayValidate
  <2> HIDE DEF full
  <2>9. ASSUME NEW h \in lo + 1 .. a PROVE Prev[t[h]] = t[h - 1]
    <3>1. h \in lo .. a /\ h - 1 \in lo .. a /\ h > lo /\ h # 0
      BY <1>2
    <3> QED
      BY <2>7, <2>8, <3>1 DEF ValidateAppend
  <2>10. lo = 0 => t[0] = Genesis
    <3> SUFFICES ASSUME lo = 0 PROVE t[0] = Genesis
      OBVIOUS
    <3>1. 0 \in lo .. a
      BY <1>2
    <3> QED
      BY <2>7, <2>8, <3>1 DEF ValidateAppend
  <2>11. ASSUME NEW h \in lo + 1 .. b PROVE Prev[t[h]] = t[h - 1]
    <3>1. CASE h <= a
      BY <2>9, <3>1
    <3>2. CASE h > a
      <4>1. h \in a + 1 .. b /\ h \in a .. b /\ h - 1 \in a .. b
        BY <1>2, <3>2
      <4> QED
        BY <1>1, <2>5, <4>1 DEF ChainFrom
    <3> QED
      BY <1>2, <3>1, <3>2
  <2>12. ASSUME NEW h \in lo .. b PROVE HoldsCheckpoint(checkpoint, h, t[h])
    <3>1. CASE h \in lo .. a - 1
      BY <1>3, <1>6, <2>5, <3>1, Zenon
    <3>2. CASE h \in a .. b
      BY <1>1, <2>5, <3>2, Zenon DEF ChainFrom
    <3> QED
      BY <1>2, <3>1, <3>2
  <2>13. ChainFrom(checkpoint, t, lo, b)
    BY <1>2, <2>6, <2>10, <2>11, <2>12, SMTT(30) DEF ChainFrom
  <2>14. ChainOrEmpty(checkpoint, t) /\ Gains(store, t)
    <3>1. Keeps(store, t)
      BY <1>2, <2>4, <2>5 DEF Keeps
    <3> QED
      BY <2>13, <3>1, GainsByKeeping, SMTT(30) DEF ChainOrEmpty
  <2>15. Chained(Result(t, valid, "ok"))
    BY <2>14, ChainedResult, Zenon
  <2> QED
    BY <2>1, <2>15
<1> QED
  BY <1>4, <1>5, <1>6, Zenon

-----------------------------------------------------------------------------
(* Workers: what a record holds, and how it fits the store it works on.      *)

HeaderRec == [h : Nat, b : HeaderOrNone]
Asks == [start : Nat, count : Int]
WorkerRec == [pc : Steps, inc : HeaderRec, first : BOOLEAN, ask : Asks, floor : Nat,
              fork : Nat, buf : HeaderMap, todo : Seq(HeaderRec), deferred : Seq(HeaderRec)]

\* Where a worker holds headers it fetched.
Holding == {"extend", "walk", "branch", "weigh", "switch"}

\* An extension under way: what it holds starts on a boundary and reaches up to
\* what it asked for, which ends at or below the floor of the store.
Extending(r, s) ==
    /\ s # NoChain /\ r.floor = Floor(s) /\ r.ask.start < r.floor
    /\ 0 < r.ask.count /\ r.ask.count <= r.floor - r.ask.start
    /\ \E lo \in Nat : lo % Interval = 0 /\ lo <= r.ask.start
                       /\ DOMAIN r.buf = lo .. r.ask.start - 1

\* The worker of the current token is at a place the store is ready for.
Fits(r, s) ==
    /\ r \in WorkerRec
    /\ r.pc \notin Holding => r.buf = NoChain
    /\ r.pc = "genesis" => s = NoChain /\ r.ask.start = 0
    /\ r.pc = "fill" => s = NoChain \/ r.ask.start = Top(s) + 1
    /\ r.pc = "extend" => Extending(r, s)
    /\ r.pc \in {"branch", "weigh", "switch"} => r.fork \in DOMAIN s
    /\ r.pc = "switch" => Branching(r, s) /\ HasMoreWork(s, r.fork, r.buf)

\* Where it does not matter what the store holds.
Anywhere == {"none", "replay", "tip", "sync", "anchor", "apply", "top", "recv", "dead"}

\* The steps of a worker, one by one.
LEMMA StepNames == Anywhere \subseteq Steps /\ Waiting \subseteq Steps
                   /\ Anywhere \cap Holding = {} /\ {"weigh", "switch"} \subseteq Steps
BY DEF Anywhere, Steps, Waiting, Holding

\* A worker at such a place fits any store.
LEMMA FitsAnywhere ==
    ASSUME NEW r \in WorkerRec, r.pc \in Anywhere, r.buf = NoChain, NEW s
    PROVE  Fits(r, s)
BY DEF Fits, Anywhere

\* The records every worker starts and ends with.
LEMMA PlainRecords ==
    /\ NoWorker \in WorkerRec /\ Spawned \in WorkerRec /\ Dead \in WorkerRec
    /\ \A s : Fits(NoWorker, s) /\ Fits(Spawned, s) /\ Fits(Dead, s)
<1>1. NoHeader \in HeaderRec /\ NoAsk \in Asks /\ Subscribe \in Asks
  BY DEF NoHeader, NoAsk, Subscribe, HeaderRec, HeaderOrNone, Asks
<1>2. NoChain \in HeaderMap
  BY NoChainIsMap, Zenon
<1>3. NoWorker \in WorkerRec
  BY <1>1, <1>2 DEF NoWorker, WorkerRec, Steps
<1>4. NoWorker.pc = "none" /\ NoWorker.buf = NoChain
  BY DEF NoWorker
<1>5. "replay" \in Steps /\ "dead" \in Steps
  BY DEF Steps
<1>6. Spawned \in WorkerRec /\ Spawned.pc = "replay" /\ Spawned.buf = NoChain
  BY <1>3, <1>4, <1>5, Zenon DEF Spawned, WorkerRec
<1>7. Dead \in WorkerRec /\ Dead.pc = "dead" /\ Dead.buf = NoChain
  BY <1>3, <1>4, <1>5 DEF Dead, WorkerRec
<1> QED
  BY <1>3, <1>4, <1>6, <1>7, FitsAnywhere DEF Anywhere

\* apply_one returns to a place that fits any store.
LEMMA AppliedFits ==
    ASSUME NEW r \in WorkerRec, NEW s
    PROVE  Fits(Applied(r), s) /\ Applied(r).pc \notin Waiting
<1> DEFINE clean == [NoWorker EXCEPT !.deferred = r.deferred]
<1>0. r.deferred \in Seq(HeaderRec) /\ r.todo \in Seq(HeaderRec)
  BY DEF WorkerRec
<1>1. clean \in WorkerRec /\ clean.buf = NoChain
  BY <1>0, PlainRecords, Zenon DEF WorkerRec, NoWorker
<1> HIDE DEF clean
<1>2. CASE r.todo = << >>
  <2>1. Applied(r) = [clean EXCEPT !.pc = "top"]
    BY <1>2 DEF Applied, clean
  <2>2. Applied(r) \in WorkerRec /\ Applied(r).pc = "top" /\ Applied(r).buf = NoChain
    BY <1>1, <2>1, StepNames, Zenon DEF WorkerRec, Anywhere
  <2> QED
    BY <2>2, FitsAnywhere DEF Anywhere, Waiting
<1>3. CASE r.todo # << >>
  <2>1. Applied(r) = [clean EXCEPT !.pc = "apply", !.inc = Head(r.todo),
                                   !.todo = Tail(r.todo)]
    BY <1>3 DEF Applied, clean
  <2>2. Head(r.todo) \in HeaderRec /\ Tail(r.todo) \in Seq(HeaderRec)
    BY <1>0, <1>3
  <2>3. Applied(r) \in WorkerRec /\ Applied(r).pc = "apply" /\ Applied(r).buf = NoChain
    BY <1>1, <2>1, <2>2, StepNames, Zenon DEF WorkerRec, Anywhere
  <2> QED
    BY <2>3, FitsAnywhere DEF Anywhere, Waiting
<1> QED
  BY <1>2, <1>3

\* A worker that moves without what it held fits any store.
LEMMA AtFits ==
    ASSUME NEW r \in WorkerRec, NEW pc \in Anywhere, NEW s
    PROVE  /\ r.buf = NoChain => Fits(At(r, pc), s)
           /\ At(r, pc) \in WorkerRec /\ At(r, pc).pc = pc /\ At(r, pc).buf = r.buf
           /\ Fits([At(r, pc) EXCEPT !.buf = NoChain, !.floor = 0], s)
           /\ r.buf = NoChain => Fits([At(r, pc) EXCEPT !.first = FALSE], s)
<1>1. NoAsk \in Asks /\ pc \in Steps /\ NoChain \in HeaderMap
  BY StepNames, NoChainIsMap DEF NoAsk, Asks
<1>2. At(r, pc) \in WorkerRec /\ At(r, pc).pc = pc /\ At(r, pc).buf = r.buf
  BY <1>1, Zenon DEF At, WorkerRec
<1>3. PICK q \in WorkerRec : q = At(r, pc) /\ q.pc = pc /\ q.buf = r.buf
  BY <1>2
<1>4. [q EXCEPT !.buf = NoChain, !.floor = 0] \in WorkerRec
      /\ [q EXCEPT !.buf = NoChain, !.floor = 0].pc = pc
      /\ [q EXCEPT !.buf = NoChain, !.floor = 0].buf = NoChain
  BY <1>1, <1>3, Zenon DEF WorkerRec
<1>5. [q EXCEPT !.first = FALSE] \in WorkerRec /\ [q EXCEPT !.first = FALSE].pc = pc
      /\ [q EXCEPT !.first = FALSE].buf = r.buf
  BY <1>3, Zenon DEF WorkerRec
<1> QED
  BY <1>2, <1>3, <1>4, <1>5, FitsAnywhere, Zenon

\* So does one whose extension, or whose sync, returns.
LEMMA ReturnFits ==
    ASSUME NEW r \in WorkerRec, NEW s
    PROVE  /\ Fits(Extended(r), s) /\ Fits(SyncFailed(r), s) /\ Fits(Resync(r), s)
           /\ Extended(r).pc \notin Waiting /\ SyncFailed(r).pc \notin Waiting
           /\ Resync(r).pc \notin Waiting
<1>1. Fits([At(r, "anchor") EXCEPT !.buf = NoChain, !.floor = 0], s)
      /\ Fits(Resync(r), s)
  BY AtFits, Zenon DEF Resync, Anywhere
<1>2. [At(r, "anchor") EXCEPT !.buf = NoChain, !.floor = 0].pc = "anchor"
      /\ Resync(r).pc = "sync"
  BY DEF At, Resync, WorkerRec
<1>3. Dead.pc = "dead" /\ Fits(Dead, s)
  BY PlainRecords, Zenon DEF Dead, NoWorker
<1> QED
  BY <1>1, <1>2, <1>3, AppliedFits DEF Extended, SyncFailed, Waiting

\* What a worker that asks holds.
LEMMA AskFields ==
    ASSUME NEW r \in WorkerRec, NEW pc \in Waiting, NEW start \in Nat, NEW count \in Int
    PROVE  LET q == Ask(r, pc, start, count)
           IN  /\ q \in WorkerRec /\ q.pc = pc /\ q.ask.start = start /\ q.ask.count = count
               /\ q.buf = r.buf /\ q.floor = r.floor /\ q.fork = r.fork /\ q.inc = r.inc
<1>1. [start |-> start, count |-> count] \in Asks /\ pc \in Steps
  BY StepNames DEF Asks
<1> QED
  BY <1>1, Zenon DEF Ask, WorkerRec

\* The backfill asks for what lies right above the store.
LEMMA FillFits ==
    ASSUME NEW r \in WorkerRec, r.buf = NoChain, checkpoint \in Checkpoints,
           NEW s, ChainOrEmpty(checkpoint, s)
    PROVE  Fits(Fill(r, s), s)
<1> DEFINE start == IF s = NoChain THEN SyncFloor(r.inc.h) ELSE Top(s) + 1
           count == Min({r.inc.h - start, Interval})
<1>0. r.inc.h \in Nat
  BY DEF WorkerRec, HeaderRec
<1>1. start \in Nat /\ (s = NoChain \/ start = Top(s) + 1)
  <2>1. CASE s = NoChain
    BY <1>0, <2>1, SyncFloorType, Zenon
  <2>2. ASSUME NEW a \in Nat, NEW b \in Nat, ChainFrom(checkpoint, s, a, b)
        PROVE  Top(s) \in Nat /\ s # NoChain
    BY <2>2, ChainShape, SMTT(30)
  <2> QED
    BY <2>1, <2>2 DEF ChainOrEmpty
<1> HIDE DEF start
<1>2. count \in Int
  BY <1>0, <1>1, OfTwo, ChainsAssumption
<1> HIDE DEF count
<1>3. CASE start < r.inc.h
  <2>0. ~(start > r.inc.h)
    BY <1>0, <1>1, <1>3
  <2>1. Fill(r, s) = Ask(r, "fill", start, count)
    BY <1>3, <2>0, Zenon DEF Fill, start, count
  <2>2. "fill" \in Waiting /\ "fill" \notin Holding
    BY Zenon DEF Waiting, Holding
  <2>3. PICK q \in WorkerRec : q = Ask(r, "fill", start, count) /\ q.pc = "fill"
                               /\ q.ask.start = start /\ q.buf = NoChain
    BY <1>1, <1>2, <2>2, AskFields, SMTT(30)
  <2>4. Fits(q, s)
    BY <1>1, <2>3 DEF Fits
  <2> QED
    BY <2>1, <2>3, <2>4
<1>4. CASE ~(start < r.inc.h)
  <2>1. Fill(r, s) = Applied(r) \/ Fill(r, s) = [At(r, "apply") EXCEPT !.first = FALSE]
    BY <1>4 DEF Fill, start
  <2>2. Fits([At(r, "apply") EXCEPT !.first = FALSE], s)
    BY AtFits, Zenon DEF Anywhere
  <2> QED
    BY <2>1, <2>2, AppliedFits, Zenon
<1> QED
  BY <1>3, <1>4

\* An extension starts below the floor, on a boundary.
LEMMA ExtendFits ==
    ASSUME NEW r \in WorkerRec, r.buf = NoChain, ChainOrEmpty(checkpoint, store),
           NEW height \in Nat
    PROVE  Fits(ExtendFrom(r, height), store)
<1>1. CASE store = NoChain
  BY <1>1, ReturnFits DEF ExtendFrom
<1>2. ASSUME NEW a \in Nat, NEW b \in Nat, ChainFrom(checkpoint, store, a, b)
      PROVE  Fits(ExtendFrom(r, height), store)
  <2>1. Floor(store) = a /\ store # NoChain
    BY <1>2, ChainShape
  <2>2. CASE height >= a
    BY <2>1, <2>2, ReturnFits DEF ExtendFrom
  <2>3. CASE height < a
    <3> DEFINE start == Snap(height)
               count == Min({a - start, Interval})
               rf == [r EXCEPT !.floor = a]
    <3>1. start \in Nat /\ start <= height /\ start % Interval = 0
      BY SnapsToBoundary
    <3>2. ExtendFrom(r, height) = Ask(rf, "extend", start, count)
      BY <2>1, <2>3 DEF ExtendFrom
    <3> HIDE DEF start
    <3>3. count \in Int /\ 0 < count /\ count <= a - start
      BY <2>3, <3>1, OfTwo, ChainsAssumption
    <3> HIDE DEF count
    <3>4. rf \in WorkerRec /\ rf.floor = a /\ rf.buf = NoChain
      BY SMTT(30) DEF WorkerRec
    <3> HIDE DEF rf
    <3>5. "extend" \in Waiting
      BY DEF Waiting
    <3>6. PICK q : q = Ask(rf, "extend", start, count)
      OBVIOUS
    <3>10. q \in WorkerRec /\ q.pc = "extend" /\ q.floor = rf.floor
           /\ q.ask.start = start /\ q.ask.count = count /\ q.buf = rf.buf
      <4>1. start \in Nat /\ count \in Int /\ rf \in WorkerRec
        BY <3>1, <3>3, <3>4, Zenon
      <4> QED
        BY <3>5, <3>6, <4>1, AskFields, SMTT(30)
    <3>7. DOMAIN q.buf = start .. start - 1
      BY <3>1, <3>4, <3>10, NoChainIsMap, SMTT(30)
    <3>8. Extending(q, store)
      BY <2>1, <2>3, <3>1, <3>3, <3>4, <3>7, <3>10, SMTT(30) DEF Extending
    <3>9. Fits(q, store)
      BY <3>8, <3>10 DEF Fits, Holding
    <3> QED
      BY <3>2, <3>6, <3>9
  <2> QED
    BY <2>2, <2>3, SMTT(30)
<1> QED
  BY <1>1, <1>2 DEF ChainOrEmpty

\* A walk asks for heights, and fits any store.
LEMMA WalkFits ==
    ASSUME NEW r \in WorkerRec, NEW top \in Nat, NEW s
    PROVE  Fits(Walk(r, top), s)
<1> DEFINE low == IF top < WalkChunk THEN 0 ELSE top - (WalkChunk - 1)
           start == Max({low, r.floor})
           count == top - start + 1
<1>1. low \in Nat /\ r.floor \in Nat
  BY BoundsAssumption DEF WorkerRec
<1> HIDE DEF low
<1>2. start \in Nat
  <2>1. PICK f \in Nat : f = r.floor
    BY <1>1
  <2>2. low \in Int /\ f \in Int
    BY <1>1
  <2>3. Max({low, f}) = IF low >= f THEN low ELSE f
    BY <2>2, OfTwo, Zenon
  <2> QED
    BY <1>1, <2>1, <2>3
<1>3. Walk(r, top) = Ask(r, "walk", start, count)
  BY DEF Walk, low
<1> HIDE DEF start
<1>4. count \in Int
  BY <1>2
<1> HIDE DEF count
<1>5. "walk" \in Waiting /\ "walk" \in Holding
  BY DEF Waiting, Holding
<1>6. PICK q : q = Ask(r, "walk", start, count)
  BY Zenon
<1>7. q \in WorkerRec /\ q.pc = "walk"
  BY <1>2, <1>4, <1>5, <1>6, AskFields
<1>8. Fits(q, s)
  BY <1>5, <1>7, Zenon DEF Fits
<1> QED
  BY <1>3, <1>6, <1>8

\* A branch is fetched from a height of the store.
LEMMA BranchFits ==
    ASSUME NEW r \in WorkerRec, NEW s, r.fork \in DOMAIN s
    PROVE  Fits(Branch(r), s)
<1> DEFINE missing == (r.fork + 1 .. r.inc.h) \ DOMAIN r.buf
           start == Min(missing)
           count == Min({r.inc.h - start + 1, Interval})
<1>0. r.inc.h \in Nat /\ r.fork \in Nat
  BY DEF WorkerRec, HeaderRec
<1>1. CASE missing = {}
  <2>1. Branch(r) = At(r, "weigh")
    BY <1>1 DEF Branch
  <2>2. NoAsk \in Asks /\ "weigh" \in Steps
    BY StepNames DEF NoAsk, Asks
  <2>3. PICK q : q = At(r, "weigh")
    OBVIOUS
  <2>5. q \in WorkerRec /\ q.pc = "weigh" /\ q.fork = r.fork
    BY <2>2, <2>3, Zenon DEF At, WorkerRec
  <2>4. Fits(q, s)
    BY <2>5 DEF Fits, Holding
  <2> QED
    BY <2>1, <2>3, <2>4, Zenon
<1>2. CASE missing # {}
  <2>1. Branch(r) = Ask(r, "branch", start, count)
    BY <1>2 DEF Branch
  <2>2. missing \in SUBSET Nat
    BY <1>0
  <2>3. start \in Nat
    <3> HIDE DEF missing
    <3> QED
      BY <1>2, <2>2, LowestHeight, Zenon
  <2> HIDE DEF start
  <2>4. count \in Int
    <3>1. PICK n \in Int : n = r.inc.h - start + 1
      BY <1>0, <2>3
    <3>2. Interval \in Int
      BY ChainsAssumption
    <3> QED
      BY <3>1, <3>2, OfTwo
  <2> HIDE DEF count
  <2>5. [start |-> start, count |-> count] \in Asks /\ "branch" \in Steps
    BY <2>3, <2>4, StepNames, Zenon DEF Asks, Waiting
  <2>6. PICK q : q = Ask(r, "branch", start, count)
    BY Zenon
  <2>7. q \in WorkerRec /\ q.pc = "branch" /\ q.fork = r.fork
    BY <2>5, <2>6, Zenon DEF Ask, WorkerRec
  <2>8. Fits(q, s)
    BY <2>7 DEF Fits, Holding
  <2> QED
    BY <2>1, <2>6, <2>8, Zenon
<1> QED
  BY <1>1, <1>2

\* A reorg starts with a walk, or is not one.
LEMMA ResolveFits ==
    ASSUME NEW r \in WorkerRec, NEW s, ChainOrEmpty(checkpoint, s)
    PROVE  Fits(ResolveReorg(r, s), s)
<1>1. CASE s = NoChain
  BY <1>1, AppliedFits DEF ResolveReorg
<1>2. ASSUME NEW a \in Nat, NEW b \in Nat, ChainFrom(checkpoint, s, a, b)
      PROVE  Fits(ResolveReorg(r, s), s)
  <2>1. Floor(s) = a /\ s # NoChain
    BY <1>2, ChainShape
  <2>2. r.inc.h \in Nat /\ r.inc.b \in HeaderOrNone
    BY DEF WorkerRec, HeaderRec
  <2>3. CASE r.inc.h <= a
    BY <2>1, <2>3, AppliedFits, Zenon DEF ResolveReorg
  <2>4. CASE r.inc.h > a
    <3> DEFINE q == [r EXCEPT !.floor = a, !.buf = Single(r.inc.h, r.inc.b)]
    <3>1. Single(r.inc.h, r.inc.b) \in HeaderMap
      BY <2>2, SingleType, Zenon
    <3>2. q \in WorkerRec
      BY <3>1, Zenon DEF WorkerRec
    <3>3. ResolveReorg(r, s) = Walk(q, r.inc.h - 1)
      BY <2>1, <2>2, <2>4 DEF ResolveReorg
    <3> HIDE DEF q
    <3>4. r.inc.h - 1 \in Nat
      BY <2>2, <2>4
    <3> QED
      BY <3>2, <3>3, <3>4, WalkFits
  <2> QED
    BY <2>2, <2>3, <2>4
<1> QED
  BY <1>1, <1>2 DEF ChainOrEmpty
=============================================================================
