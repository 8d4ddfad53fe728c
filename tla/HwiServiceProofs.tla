-------------------------- MODULE HwiServiceProofs --------------------------
(***************************************************************************)
(* The hardware-wallet service: a locked device is always being unlocked,  *)
(* and every change of the device map is followed by an Update, for any    *)
(* devices, listeners, threads per device and number of events.            *)
(***************************************************************************)
EXTENDS HwiService, FiniteSetTheorems, WellFoundedInduction, TLAPS

Pcs == {"connect", "identify", "announce", "unlock", "notify"}
Steps == {"open", "find", "remove", "poll"}
States == {"locked", "unlocking", "supported", "unsupported"}

\* A probe and a listener, of the devices of the bench.
ProbeRecs == [id : Present, n : Nat, owner : Nat, good : BOOLEAN, pc : Pcs, chan : Callers]
ListenerRecs == [at : Nat, step : Steps, hid : SUBSET Present,
                 doomed : SUBSET Present, todo : SUBSET Present, chan : Callers]

BenchTyped == bench \in Benches /\ plugged \subseteq Present
ListenersTyped ==
    DOMAIN listeners \subseteq Nat /\ listeners \in [DOMAIN listeners -> ListenerRecs]
ProbesTyped == probes \subseteq ProbeRecs /\ IsFiniteSet(probes)
DevicesTyped ==
    /\ DOMAIN devices \subseteq Present
    /\ devices \in [DOMAIN devices -> [st : States, by : Nat]]

\* The threads of one device have different numbers.
ProbesDiffer == \A p, q \in probes : p.id = q.id /\ p.n = q.n => p = q

ServiceInv == BenchTyped /\ ListenersTyped /\ ProbesTyped /\ ProbesDiffer /\ DevicesTyped

\* The threads that changed the map and have not sent the Update yet.
Owing == {p \in probes : p.pc \in {"announce", "notify"}}

\* A thread is still there, at the same place, after the step.
Survives(p) == \E q \in probes' : q.id = p.id /\ q.n = p.n /\ q.pc = p.pc

\* A step changes no more of the threads than their owner or their session.
Relabelled ==
    /\ ProbesTyped' /\ ProbesDiffer'
    /\ Cardinality(Owing') = Cardinality(Owing)
    /\ \A p \in probes : Survives(p)

-----------------------------------------------------------------------------
\* The least member of a set of numbers is one of them.
LEMMA MinIsMember ==
    ASSUME NEW S \in SUBSET Nat, S # {}
    PROVE  Min(S) \in S
<1> DEFINE R == {ss \in Nat \X Nat : ss[1] < ss[2]}
<1>0. IsWellFoundedOn(R, Nat)
  BY NatLessThanWellFounded DEF OpToRel
<1>1. PICK x \in S : \A y \in S : ~ (<<y, x>> \in R)
  <2> HIDE DEF R
  <2> QED
    BY <1>0, WFMin, Zenon
<1>2. \A y \in S : x <= y
  <2> SUFFICES ASSUME NEW y \in S, ~(x <= y) PROVE FALSE
    OBVIOUS
  <2>1. x \in Nat /\ y \in Nat
    OBVIOUS
  <2>2. y < x
    BY <2>1
  <2>3. <<y, x>> \in R
    BY <2>1, <2>2
  <2> QED
    BY <1>1, <2>3
<1> QED
  BY <1>2, Zenon DEF Min

\* A listener goes to its next handler, or to the ids it polls.
LEMMA NextHandlerTyped ==
    ASSUME NEW rec \in ListenerRecs
    PROVE  NextHandler(rec) \in ListenerRecs
<1> DEFINE a == IF rec.at = Len(Cycle) THEN 0 ELSE rec.at + 1
<1>1. a \in Nat
  BY DEF ListenerRecs
<1>2. NextHandler(rec) = [rec EXCEPT !.at = a, !.step = "find", !.doomed = {}, !.todo = {}]
  BY DEF NextHandler
<1> HIDE DEF a
<1> QED
  BY <1>1, <1>2, Zenon DEF ListenerRecs, Steps

\* A listener that starts a round is a listener.
LEMMA PollingTyped ==
    ASSUME NEW rec \in ListenerRecs, NEW ids \in SUBSET Present
    PROVE  Polling(rec, ids) \in ListenerRecs
<1>1. [rec EXCEPT !.step = "poll", !.doomed = {}, !.todo = ids] \in ListenerRecs
  BY Zenon DEF ListenerRecs, Steps
<1> QED
  BY <1>1, NextHandlerTyped DEF Polling

\* Moving one listener keeps their types.
LEMMA MovedTyped ==
    ASSUME ListenersTyped, NEW l \in DOMAIN listeners, NEW rec \in ListenerRecs,
           Moved(l, rec), UNCHANGED bench
    PROVE  ListenersTyped'
<1>1. ListenerRecs' = ListenerRecs
  BY DEF ListenerRecs, Present, Kind
<1>2. DOMAIN listeners' = DOMAIN listeners /\ listeners' \in [DOMAIN listeners -> ListenerRecs]
  BY DEF ListenersTyped, Moved
<1> QED
  BY <1>1, <1>2 DEF ListenersTyped

-----------------------------------------------------------------------------
\* The probes change in what is neither their device, number nor place.
LEMMA ProbesRelabelled ==
    ASSUME ProbesTyped, ProbesDiffer, UNCHANGED bench,
           NEW g \in [probes -> ProbeRecs], probes' = {g[p] : p \in probes},
           \A p \in probes : g[p].id = p.id /\ g[p].n = p.n /\ g[p].pc = p.pc
    PROVE  Relabelled
<1>1. g \in Surjection(probes, probes')
  BY DEF Surjection
<1>2. IsFiniteSet(probes')
  BY <1>1, FS_Surjection DEF ProbesTyped
<1>3. ProbesTyped'
  BY <1>2 DEF ProbesTyped, ProbeRecs, Present, Kind
<1>4. ProbesDiffer'
  BY DEF ProbesDiffer
<1>5. IsFiniteSet(Owing)
  BY FS_Subset DEF ProbesTyped, Owing
<1> DEFINE h == [p \in Owing |-> g[p]]
<1>6. h \in Bijection(Owing, Owing')
  <2>1. h \in Injection(Owing, Owing')
    <3>1. h \in [Owing -> Owing']
      BY DEF Owing
    <3>2. \A p, q \in Owing : h[p] = h[q] => p = q
      BY DEF Owing, ProbesDiffer
    <3> QED
      BY <3>1, <3>2 DEF Injection, IsInjective
  <2>2. h \in Surjection(Owing, Owing')
    <3>1. h \in [Owing -> Owing']
      BY DEF Owing
    <3>2. \A t \in Owing' : \E p \in Owing : h[p] = t
      BY DEF Owing
    <3> QED
      BY <3>1, <3>2 DEF Surjection
  <2> QED
    BY <2>1, <2>2 DEF Bijection
<1>7. ExistsBijection(Owing, Owing')
  BY <1>6 DEF ExistsBijection
<1>8. \A p \in probes : Survives(p)
  BY DEF Survives
<1> QED
  BY <1>3, <1>4, <1>5, <1>7, <1>8, FS_Bijection DEF Relabelled

\* A thread is spawned with a number no thread of its device has.
LEMMA ProbeSpawned ==
    ASSUME ServiceInv, NEW l \in DOMAIN listeners, NEW i \in Present, SpawnProbe(l, i),
           UNCHANGED bench
    PROVE  ProbesTyped' /\ ProbesDiffer' /\ Owing' = Owing /\ probes \subseteq probes'
<1> DEFINE free == 1..MaxProbes \ {p.n : p \in {q \in probes : q.id = i}}
           new == [id |-> i, n |-> Min(free), owner |-> l, good |-> i \in plugged,
                   pc |-> IF i \in Simulators THEN "connect" ELSE "identify",
                   chan |-> listeners[l].chan]
<1>1. free # {} /\ probes' = probes \cup {new}
  BY DEF SpawnProbe
<1>2. free \in SUBSET Nat
  BY BoundsAssumption
<1>3. Min(free) \in free
  <2> HIDE DEF free
  <2> QED
    BY <1>1, <1>2, MinIsMember
<1>4. Min(free) \in Nat /\ \A p \in probes : p.id = i => p.n # Min(free)
  BY <1>2, <1>3
<1> HIDE DEF free
<1>5. listeners[l].chan \in Callers /\ l \in Nat
  BY DEF ServiceInv, ListenersTyped, ListenerRecs
<1>6. new \in ProbeRecs /\ new.id = i /\ new.n = Min(free) /\ new.pc \in {"connect", "identify"}
  BY <1>4, <1>5 DEF ProbeRecs, Pcs
<1> HIDE DEF new
<1>7. ProbesTyped'
  <2>1. ProbeRecs' = ProbeRecs
    BY DEF ProbeRecs, Present, Kind
  <2> QED
    BY <1>1, <1>6, <2>1, FS_AddElement DEF ServiceInv, ProbesTyped
<1>8. ProbesDiffer'
  BY <1>1, <1>4, <1>6 DEF ServiceInv, ProbesDiffer
<1>9. Owing' = Owing
  BY <1>1, <1>6 DEF Owing
<1> QED
  BY <1>1, <1>7, <1>8, <1>9

\* A thread goes on, or ends.
LEMMA ProbeBecomes ==
    ASSUME ServiceInv, NEW p \in probes, NEW q \in ProbeRecs, q.id = p.id, q.n = p.n,
           Becomes(p, q), UNCHANGED bench
    PROVE  /\ ProbesTyped' /\ ProbesDiffer'
           /\ Owing' = (Owing \ {p}) \cup (IF q.pc \in {"announce", "notify"} THEN {q} ELSE {})
           /\ q \in Owing => q = p
<1>1. ProbesTyped'
  <2>1. ProbeRecs' = ProbeRecs
    BY DEF ProbeRecs, Present, Kind
  <2>2. IsFiniteSet(probes \ {p})
    BY FS_RemoveElement DEF ServiceInv, ProbesTyped
  <2> QED
    BY <2>1, <2>2, FS_AddElement DEF ServiceInv, ProbesTyped, Becomes
<1>2. ProbesDiffer'
  BY DEF ServiceInv, ProbesDiffer, Becomes
<1>3. Owing' = (Owing \ {p}) \cup (IF q.pc \in {"announce", "notify"} THEN {q} ELSE {})
  BY DEF Owing, Becomes
<1>4. q \in Owing => q = p
  BY DEF ServiceInv, ProbesDiffer, Owing
<1> QED
  BY <1>1, <1>2, <1>3, <1>4

\* A probe that ends owes no snapshot any more.
LEMMA ProbeEnds ==
    ASSUME ServiceInv, NEW p \in probes, Ends(p), UNCHANGED bench
    PROVE  ProbesTyped' /\ ProbesDiffer' /\ Owing' = Owing \ {p}
<1>1. ProbesTyped'
  <2>1. ProbeRecs' = ProbeRecs
    BY DEF ProbeRecs, Present, Kind
  <2> QED
    BY <2>1, FS_RemoveElement DEF ServiceInv, ProbesTyped, Ends
<1>2. ProbesDiffer'
  BY DEF ServiceInv, ProbesDiffer, Ends
<1>3. Owing' = Owing \ {p}
  BY DEF Owing, Ends
<1> QED
  BY <1>1, <1>2, <1>3

\* Entries enter and leave the map.
LEMMA InsertsTyped ==
    ASSUME ServiceInv, NEW p \in probes, NEW st \in States, Inserts(p, st), UNCHANGED bench
    PROVE  /\ DevicesTyped'
           /\ DOMAIN devices' = DOMAIN devices \cup {p.id}
           /\ devices'[p.id] = [st |-> st, by |-> p.n]
           /\ \A i \in DOMAIN devices \ {p.id} : devices'[i] = devices[i]
<1>0. p.id \in Present /\ p.n \in Nat
  BY DEF ServiceInv, ProbesTyped, ProbeRecs
<1> DEFINE d == [i \in DOMAIN devices \cup {p.id} |->
                    IF i = p.id THEN [st |-> st, by |-> p.n] ELSE devices[i]]
<1>1. devices' = d
  BY DEF Inserts, Put
<1>2. \A i \in DOMAIN devices : devices[i] \in [st : States, by : Nat]
  BY DEF ServiceInv, DevicesTyped
<1>3. d \in [DOMAIN devices \cup {p.id} -> [st : States, by : Nat]]
  BY <1>0, <1>2
<1>4. DOMAIN devices \cup {p.id} \subseteq Present'
  BY <1>0 DEF ServiceInv, DevicesTyped, Present, Kind
<1> QED
  BY <1>1, <1>3, <1>4 DEF DevicesTyped

\* Removing devices keeps the others.
LEMMA RestrictTyped ==
    ASSUME ServiceInv, NEW S, devices' = Restrict(devices, DOMAIN devices \ S),
           UNCHANGED bench
    PROVE  /\ DevicesTyped'
           /\ DOMAIN devices' = DOMAIN devices \ S
           /\ \A i \in DOMAIN devices' : devices'[i] = devices[i]
BY DEF ServiceInv, DevicesTyped, Restrict, Present, Kind

-----------------------------------------------------------------------------
\* What a step leaves alone keeps its type.
LEMMA Framed ==
    ASSUME ServiceInv, UNCHANGED bench
    PROVE  /\ UNCHANGED plugged => BenchTyped'
           /\ UNCHANGED listeners => ListenersTyped'
           /\ UNCHANGED probes => Relabelled
           /\ UNCHANGED devices => DevicesTyped'
<1>1. Present' = Present /\ ProbeRecs' = ProbeRecs /\ ListenerRecs' = ListenerRecs
  BY DEF ProbeRecs, ListenerRecs, Present, Kind
<1>2. UNCHANGED plugged => BenchTyped'
  BY <1>1 DEF ServiceInv, BenchTyped
<1>3. UNCHANGED listeners => ListenersTyped'
  BY <1>1 DEF ServiceInv, ListenersTyped
<1>4. UNCHANGED probes => Relabelled
  BY <1>1 DEF ServiceInv, ProbesTyped, ProbesDiffer, Relabelled, Owing, Survives
<1>5. UNCHANGED devices => DevicesTyped'
  BY <1>1 DEF ServiceInv, DevicesTyped
<1> QED
  BY <1>2, <1>3, <1>4, <1>5

\* The three steps that only relabel threads.
LEMMA UnplugRelabels ==
    ASSUME ServiceInv, UNCHANGED bench, NEW i,
           probes' = {IF p.id = i THEN [p EXCEPT !.good = FALSE] ELSE p : p \in probes}
    PROVE  Relabelled
<1> DEFINE g == [p \in probes |-> IF p.id = i THEN [p EXCEPT !.good = FALSE] ELSE p]
<1>1. ASSUME NEW p \in probes
      PROVE  g[p] \in ProbeRecs /\ g[p].id = p.id /\ g[p].n = p.n /\ g[p].pc = p.pc
  BY Zenon DEF ServiceInv, ProbesTyped, ProbeRecs
<1>2. probes' = {g[p] : p \in probes}
  OBVIOUS
<1>3. g \in [probes -> ProbeRecs]
  BY <1>1
<1> HIDE DEF g
<1> QED
  BY <1>1, <1>2, <1>3, ProbesRelabelled, Zenon DEF ServiceInv

\* A listener that returns leaves its probes running.
LEMMA ReturnRelabels ==
    ASSUME ServiceInv, UNCHANGED bench, NEW l,
           probes' = {IF p.owner = l THEN [p EXCEPT !.owner = 0] ELSE p : p \in probes}
    PROVE  Relabelled
<1> DEFINE g == [p \in probes |-> IF p.owner = l THEN [p EXCEPT !.owner = 0] ELSE p]
<1>1. ASSUME NEW p \in probes
      PROVE  g[p] \in ProbeRecs /\ g[p].id = p.id /\ g[p].n = p.n /\ g[p].pc = p.pc
  BY DEF ServiceInv, ProbesTyped, ProbeRecs
<1>2. probes' = {g[p] : p \in probes}
  OBVIOUS
<1>3. g \in [probes -> ProbeRecs]
  BY <1>1
<1> HIDE DEF g
<1> QED
  BY <1>1, <1>2, <1>3, ProbesRelabelled, Zenon DEF ServiceInv

\* Removing unplugged devices touches no other part of a probe.
LEMMA RemoveRelabels ==
    ASSUME ServiceInv, NEW l, RemoveDisconnected(l)
    PROVE  Relabelled
<1> DEFINE S == listeners[l].doomed \ Simulators
           g == [p \in probes |-> IF p.owner = l /\ p.id \in S
                                  THEN [p EXCEPT !.owner = 0] ELSE p]
<1>1. ASSUME NEW p \in probes
      PROVE  g[p] \in ProbeRecs /\ g[p].id = p.id /\ g[p].n = p.n /\ g[p].pc = p.pc
  <2> HIDE DEF S
  <2> QED
    BY DEF ServiceInv, ProbesTyped, ProbeRecs
<1>2. probes' = {g[p] : p \in probes} /\ UNCHANGED bench
  BY DEF RemoveDisconnected
<1>3. g \in [probes -> ProbeRecs]
  BY <1>1
<1> HIDE DEF g
<1> QED
  BY <1>1, <1>2, <1>3, ProbesRelabelled DEF ServiceInv

\* A listener thread ends.
LEMMA ReturnTyped ==
    ASSUME ServiceInv, NEW l \in DOMAIN listeners, ListenerReturns(l)
    PROVE  ListenersTyped' /\ Relabelled
<1>1. ListenersTyped'
  BY DEF ListenerReturns, ServiceInv, ListenersTyped, Restrict, ListenerRecs, Present, Kind
<1>2. Relabelled
  BY ReturnRelabels, Zenon DEF ListenerReturns
<1> QED
  BY <1>1, <1>2

\* A listener goes through a handler, spawning a thread at most.
Spawned ==
    ProbesTyped' /\ ProbesDiffer' /\ Owing' = Owing /\ probes \subseteq probes'

\* A round starts at most one probe for a device.
LEMMA PollSpawns ==
    ASSUME ServiceInv, NEW l \in DOMAIN listeners, NEW i \in Present, UNCHANGED bench,
           IF ShouldPoll(l, i) THEN SpawnProbe(l, i) ELSE UNCHANGED probes
    PROVE  Spawned
<1>1. CASE SpawnProbe(l, i)
  BY <1>1, ProbeSpawned DEF Spawned
<1>2. CASE UNCHANGED probes
  <2>1. ProbesTyped' /\ ProbesDiffer'
    BY <1>2, Framed DEF Relabelled
  <2> QED
    BY <1>2, <2>1 DEF Spawned, Owing
<1> QED
  BY <1>1, <1>2

\* The fields of a listener.
LEMMA RecOf ==
    ASSUME ServiceInv, NEW l \in DOMAIN listeners
    PROVE  /\ listeners[l] \in ListenerRecs
           /\ listeners[l].todo \subseteq Present /\ listeners[l].chan \in Callers
BY DEF ServiceInv, ListenersTyped, ListenerRecs

\* What a device can be told to be.
LEMMA VerdictsAre ==
    ASSUME ServiceInv, NEW i \in Present
    PROVE  /\ Verdicts(i) \subseteq States \ {"unlocking"}
           /\ Unlocked(i) \subseteq States \ {"unlocking"}
           /\ Kind[i] = "bitbox" => Unlocked(i) = {"supported"}
<1>1. Kind[i] \in {"specter", "jade", "bitbox", "coldcard", "ledger"}
  BY BenchAssumption DEF ServiceInv, BenchTyped, Present, Kind
<1>2. Verdicts(i) \subseteq States \ {"unlocking"}
  BY <1>1 DEF Verdicts, SpecterVerdicts, JadeVerdicts, BitboxVerdicts, ColdcardVerdicts,
              LedgerVerdicts, States
<1> QED
  BY <1>2 DEF Unlocked, States

-----------------------------------------------------------------------------
\* The steps of a listener keep the invariant.
LEMMA ListenerKeepsInv ==
    ASSUME ServiceInv, NEW l \in DOMAIN listeners,
           ListenerStep(l) \/ PollFails(l) \/ OpenHidFails(l)
    PROVE  ServiceInv'
<1>0. listeners[l] \in ListenerRecs
  BY RecOf
<1>1. CASE OpenHid(l)
  <2>1. [listeners[l] EXCEPT !.step = "find"] \in ListenerRecs
    BY <1>0 DEF ListenerRecs, Steps
  <2> QED
    BY <1>1, <2>1, MovedTyped, Framed DEF OpenHid, ServiceInv, Relabelled
<1>2. CASE SeesShutdown(l) \/ OpenHidFails(l)
  <2>1. ListenerReturns(l)
    BY <1>2 DEF SeesShutdown, OpenHidFails
  <2> QED
    BY <2>1, ReturnTyped, Framed DEF ListenerReturns, ServiceInv, Relabelled
<1>3. CASE Refresh(l)
  <2>1. {i \in plugged : Kind[i] \notin NoHid} \in SUBSET Present
    BY DEF ServiceInv, BenchTyped
  <2>2. ASSUME NEW S \in SUBSET Present
        PROVE  [listeners[l] EXCEPT !.at = 1, !.hid = S] \in ListenerRecs
    BY <1>0, Zenon DEF ListenerRecs
  <2> QED
    BY <1>3, <2>1, <2>2, MovedTyped, Framed, Zenon DEF Refresh, ServiceInv, Relabelled
<1>4. CASE PollSimulator(l)
  <2>1. PICK i \in OfHandler(Handler(l)) :
            IF ShouldPoll(l, i) THEN SpawnProbe(l, i) ELSE UNCHANGED probes
    BY <1>4 DEF PollSimulator
  <2>2. i \in Present /\ UNCHANGED bench
    BY <1>4 DEF PollSimulator, OfHandler
  <2>3. Spawned
    BY <2>1, <2>2, PollSpawns
  <2>4. ListenersTyped'
    BY <1>0, <1>4, NextHandlerTyped, MovedTyped DEF PollSimulator, ServiceInv
  <2> QED
    BY <1>4, <2>3, <2>4, Framed DEF PollSimulator, ServiceInv, Spawned
<1>5. CASE FindDisconnected(l)
  <2> DEFINE ids == Connected(l)
             gone == (WithPrefix(Handler(l)[2]) \cap DOMAIN devices) \ ids
  <2>1. ids \in SUBSET Present /\ gone \in SUBSET Present
    BY DEF Connected, OfHandler, WithPrefix
  <2>2. Polling(listeners[l], ids) \in ListenerRecs
    BY <1>0, <2>1, PollingTyped
  <2>3. [listeners[l] EXCEPT !.step = "remove", !.doomed = gone, !.todo = ids] \in ListenerRecs
    <3> HIDE DEF ids, gone
    <3> QED
      BY <1>0, <2>1, Zenon DEF ListenerRecs, Steps
  <2>4. ListenersTyped'
    <3>1. \/ Moved(l, Polling(listeners[l], ids))
          \/ Moved(l, [listeners[l] EXCEPT !.step = "remove", !.doomed = gone, !.todo = ids])
      BY <1>5 DEF FindDisconnected
    <3> HIDE DEF ids, gone
    <3> QED
      BY <1>5, <2>2, <2>3, <3>1, MovedTyped DEF FindDisconnected, ServiceInv
  <2> QED
    BY <1>5, <2>4, Framed DEF FindDisconnected, ServiceInv, Relabelled
<1>6. CASE RemoveDisconnected(l)
  <2>1. ListenersTyped'
    BY <1>0, <1>6, RecOf, PollingTyped, MovedTyped DEF RemoveDisconnected, ServiceInv
  <2>2. DevicesTyped'
    BY <1>6, RestrictTyped DEF RemoveDisconnected
  <2>3. Relabelled
    BY <1>6, RemoveRelabels
  <2> QED
    BY <1>6, <2>1, <2>2, <2>3, Framed DEF RemoveDisconnected, ServiceInv, Relabelled
<1>7. CASE PollDevice(l)
  <2>1. PICK i \in listeners[l].todo :
            /\ IF ShouldPoll(l, i) THEN SpawnProbe(l, i) ELSE UNCHANGED probes
            /\ Moved(l, Polling(listeners[l], listeners[l].todo \ {i}))
    BY <1>7 DEF PollDevice
  <2>2. i \in Present /\ UNCHANGED bench /\ listeners[l].todo \ {i} \in SUBSET Present
    BY <1>7, RecOf DEF PollDevice
  <2>3. Spawned
    BY <2>1, <2>2, PollSpawns
  <2>4. ListenersTyped'
    BY <1>0, <2>1, <2>2, PollingTyped, MovedTyped DEF ServiceInv
  <2> QED
    BY <1>7, <2>3, <2>4, Framed DEF PollDevice, ServiceInv, Spawned
<1>8. CASE PollFails(l)
  <2>1. UNCHANGED bench
    BY <1>8 DEF PollFails
  <2>2. ListenersTyped'
    <3>1. ASSUME NEW i, Moved(l, Polling(listeners[l], listeners[l].todo \ {i}))
          PROVE  ListenersTyped'
      <4>1. listeners[l].todo \ {i} \in SUBSET Present
        BY RecOf
      <4> QED
        BY <1>0, <2>1, <3>1, <4>1, PollingTyped, MovedTyped DEF ServiceInv
    <3>2. CASE Moved(l, NextHandler(listeners[l]))
      BY <1>0, <2>1, <3>2, NextHandlerTyped, MovedTyped DEF ServiceInv
    <3> QED
      BY <1>8, <3>1, <3>2, Zenon DEF PollFails
  <2> QED
    BY <1>8, <2>2, Framed DEF PollFails, ServiceInv, Relabelled
<1> QED
  BY <1>1, <1>2, <1>3, <1>4, <1>5, <1>6, <1>7, <1>8 DEF ListenerStep

\* The record of a probe at another place.
LEMMA ProbeAt ==
    ASSUME ServiceInv, NEW p \in probes, NEW pc \in Pcs
    PROVE  LET q == [p EXCEPT !.pc = pc]
           IN  q \in ProbeRecs /\ q.id = p.id /\ q.n = p.n /\ q.pc = pc /\ q.chan = p.chan
BY DEF ServiceInv, ProbesTyped, ProbeRecs

\* A probe that connected goes on to identify the device.
LEMMA ProbeConnected ==
    ASSUME ServiceInv, NEW p \in probes
    PROVE  LET q == [p EXCEPT !.pc = "identify", !.good = TRUE]
           IN  q \in ProbeRecs /\ q.id = p.id /\ q.n = p.n /\ q.pc = "identify"
BY Zenon DEF ServiceInv, ProbesTyped, ProbeRecs, Pcs

\* The fields of a probe.
LEMMA ProbeIs ==
    ASSUME ServiceInv, NEW p \in probes
    PROVE  p \in ProbeRecs /\ p.id \in Present /\ p.n \in Nat /\ p.chan \in Callers
BY DEF ServiceInv, ProbesTyped, ProbeRecs

\* A probe that moves to a place, or ends, keeps the invariant of the threads.
LEMMA MovesProbe ==
    ASSUME ServiceInv, NEW p \in probes, UNCHANGED bench, NEW pc \in Pcs,
           Becomes(p, [p EXCEPT !.pc = pc])
    PROVE  ProbesTyped' /\ ProbesDiffer'
BY ProbeAt, ProbeBecomes, Zenon

\* The steps of a probe keep the invariant.
LEMMA ProbeKeepsInv ==
    ASSUME ServiceInv, NEW p \in probes, ProbeStep(p)
    PROVE  ServiceInv'
<1>0. p.id \in Present /\ p.n \in Nat
  BY ProbeIs
<1>p. \A pc \in {"connect", "identify", "announce", "unlock", "notify"} : pc \in Pcs
  BY DEF Pcs
<1>r. ASSUME Removes(p), UNCHANGED bench PROVE DevicesTyped'
  BY <1>r, RestrictTyped, Zenon DEF Removes
<1>1. CASE Connect(p)
  BY <1>1, ProbeConnected, ProbeBecomes, Framed, Zenon DEF Connect, ServiceInv
<1>2. CASE ConnectFails(p)
  <2>1. ProbesTyped' /\ ProbesDiffer'
    BY <1>2, <1>p, MovesProbe, ProbeEnds DEF ConnectFails
  <2>2. DevicesTyped'
    BY <1>2, <1>r, Framed DEF ConnectFails
  <2> QED
    BY <1>2, <2>1, <2>2, Framed DEF ConnectFails, ServiceInv
<1>3. CASE Identify(p)
  <2>1. PICK st \in Verdicts(p.id) :
            /\ Inserts(p, st)
            /\ Becomes(p, [p EXCEPT !.pc = IF st = "locked" THEN "announce" ELSE "notify"])
    BY <1>3 DEF Identify
  <2>2. st \in States
    BY <1>0, VerdictsAre
  <2>3. ProbesTyped' /\ ProbesDiffer'
    BY <1>3, <1>p, <2>1, MovesProbe DEF Identify
  <2>4. DevicesTyped'
    BY <1>3, <2>1, <2>2, InsertsTyped, Zenon DEF Identify
  <2> QED
    BY <1>3, <2>3, <2>4, Framed DEF Identify, ServiceInv
<1>4. CASE IdentifyFails(p)
  <2>1. ProbesTyped' /\ ProbesDiffer'
    BY <1>4, <1>p, MovesProbe, ProbeEnds DEF IdentifyFails
  <2>2. DevicesTyped'
    <3>1. "unsupported" \in States
      BY DEF States
    <3> QED
      BY <1>4, <3>1, InsertsTyped, Framed, Zenon DEF IdentifyFails
  <2> QED
    BY <1>4, <2>1, <2>2, Framed DEF IdentifyFails, ServiceInv
<1>5. CASE Notify(p)
  BY <1>5, ProbeEnds, Framed DEF Notify, ServiceInv
<1>6. CASE AnnounceLocked(p)
  <2>1. ProbesTyped' /\ ProbesDiffer'
    BY <1>6, <1>p, MovesProbe DEF AnnounceLocked
  <2>2. DevicesTyped'
    <3>1. CASE UNCHANGED devices
      BY <1>6, <3>1, Framed DEF AnnounceLocked
    <3>2. CASE p.id \in DOMAIN devices /\ devices' = [devices EXCEPT ![p.id].st = "unlocking"]
      <4>1. DOMAIN devices' = DOMAIN devices
        BY <3>2
      <4>2. devices' \in [DOMAIN devices -> [st : States, by : Nat]]
        BY <3>2 DEF ServiceInv, DevicesTyped, States
      <4>3. Present' = Present
        BY <1>6 DEF AnnounceLocked, Present, Kind
      <4> QED
        BY <4>1, <4>2, <4>3 DEF ServiceInv, DevicesTyped
    <3> QED
      BY <1>6, <3>1, <3>2, Zenon DEF AnnounceLocked
  <2> QED
    BY <1>6, <2>1, <2>2, Framed DEF AnnounceLocked, ServiceInv
<1>7. CASE Unlock(p)
  <2>1. ProbesTyped' /\ ProbesDiffer'
    BY <1>7, <1>p, MovesProbe DEF Unlock
  <2>2. DevicesTyped'
    <3>1. PICK st \in Unlocked(p.id) : Inserts(p, st)
      BY <1>7 DEF Unlock
    <3>2. st \in States
      BY <1>0, VerdictsAre
    <3> QED
      BY <1>7, <3>1, <3>2, InsertsTyped, Zenon DEF Unlock
  <2> QED
    BY <1>7, <2>1, <2>2, Framed DEF Unlock, ServiceInv
<1>8. CASE UnlockFails(p)
  <2>1. ProbesTyped' /\ ProbesDiffer'
    BY <1>8, <1>p, MovesProbe, ProbeEnds DEF UnlockFails
  <2>2. DevicesTyped'
    BY <1>8, <1>r, Framed DEF UnlockFails
  <2> QED
    BY <1>8, <2>1, <2>2, Framed DEF UnlockFails, ServiceInv
<1> QED
  BY <1>1, <1>2, <1>3, <1>4, <1>5, <1>6, <1>7, <1>8 DEF ProbeStep

\* A new listener.
LEMMA StartTyped ==
    ASSUME ServiceInv, NEW c \in Callers, StartSpawn(c)
    PROVE  ListenersTyped'
<1> DEFINE free == 1..MaxListeners \ DOMAIN listeners
<1>1. free # {} /\ listeners' = Put(listeners, Min(free), NewListener(c)) /\ UNCHANGED bench
  BY DEF StartSpawn
<1>2. Min(free) \in Nat
  <2>1. free \in SUBSET Nat
    BY BoundsAssumption
  <2> HIDE DEF free
  <2> QED
    BY <1>1, <2>1, MinIsMember, Zenon
<1> HIDE DEF free
<1>3. NewListener(c) \in ListenerRecs
  BY DEF NewListener, ListenerRecs, Steps
<1>4. ListenerRecs' = ListenerRecs
  BY <1>1 DEF ListenerRecs, Present, Kind
<1>5. \A l \in DOMAIN listeners : listeners[l] \in ListenerRecs
  BY DEF ServiceInv, ListenersTyped
<1> QED
  BY <1>1, <1>2, <1>3, <1>4, <1>5 DEF ServiceInv, ListenersTyped, Put

\* Every step keeps the invariant.
LEMMA ServiceInvNext == ServiceInv /\ [Next]_vars => ServiceInv'
<1> SUFFICES ASSUME ServiceInv, [Next]_vars PROVE ServiceInv'
  OBVIOUS
<1>1. CASE UNCHANGED vars
  BY <1>1, Framed DEF vars, ServiceInv, Relabelled
<1>2. ASSUME NEW c \in Callers, StartCount(c) \/ StopCount(c) \/ StopFlag(c) \/ List(c)
      PROVE  ServiceInv'
  BY <1>2, Framed DEF StartCount, StopCount, StopFlag, List, ServiceInv, Relabelled
<1>3. ASSUME NEW c \in Callers, StartSpawn(c) PROVE ServiceInv'
  BY <1>3, StartTyped, Framed, Zenon DEF StartSpawn, ServiceInv, Relabelled
<1>4. ASSUME NEW i \in Present, Plug(i) PROVE ServiceInv'
  <2>1. BenchTyped'
    BY <1>4 DEF Plug, ServiceInv, BenchTyped, Present, Kind
  <2> QED
    BY <1>4, <2>1, Framed DEF Plug, ServiceInv, Relabelled
<1>5. ASSUME NEW i \in Present, Unplug(i) PROVE ServiceInv'
  <2>1. BenchTyped'
    BY <1>5 DEF Unplug, ServiceInv, BenchTyped, Present, Kind
  <2>2. Relabelled
    BY <1>5, UnplugRelabels DEF Unplug
  <2> QED
    BY <1>5, <2>1, <2>2, Framed DEF Unplug, ServiceInv, Relabelled
<1> QED
  BY <1>1, <1>2, <1>3, <1>4, <1>5, ListenerKeepsInv, ProbeKeepsInv DEF Next

\* ServiceInv holds initially.
LEMMA ServiceInvInit == Init => ServiceInv
<1> SUFFICES ASSUME Init PROVE ServiceInv
  OBVIOUS
<1>1. BenchTyped /\ ListenersTyped /\ ProbesDiffer /\ DevicesTyped
  BY DEF Init, BenchTyped, ListenersTyped, ProbesDiffer, DevicesTyped
<1>2. ProbesTyped
  BY FS_EmptySet DEF Init, ProbesTyped
<1> QED
  BY <1>1, <1>2 DEF ServiceInv

-----------------------------------------------------------------------------
\* A locked entry keeps its thread while every thread that unlocks survives.
LEMMA LockedFramed ==
    ASSUME ServiceInv, LockedIsBeingUnlocked, UNCHANGED bench,
           \A i \in DOMAIN devices' : i \in DOMAIN devices /\ devices'[i] = devices[i],
           \A p \in probes : p.pc \in {"announce", "unlock"} => Survives(p)
    PROVE  LockedIsBeingUnlocked'
BY DEF LockedIsBeingUnlocked, UnlockingBy, Survives, Kind

\* The thread that put a locked entry into the map, or changed it, is the one
\* that unlocks it; every other one goes on.
LEMMA LockedByProbe ==
    ASSUME ServiceInv, LockedIsBeingUnlocked, NEW p \in probes, ProbeStep(p)
    PROVE  LockedIsBeingUnlocked'
<1>0. p.id \in Present /\ p \in ProbeRecs
  BY ProbeIs
<1>p. \A pc \in {"connect", "identify", "announce", "unlock", "notify"} : pc \in Pcs
  BY DEF Pcs
<1>b. ASSUME NEW q, Becomes(p, q) PROVE \A r \in probes \ {p} : Survives(r)
  BY <1>b DEF Becomes, Survives
<1>e. ASSUME Ends(p) PROVE \A r \in probes \ {p} : Survives(r)
  BY <1>e DEF Ends, Survives
<1>i. ASSUME NEW st \in States, Inserts(p, st), UNCHANGED bench,
             \A r \in probes \ {p} : Survives(r),
             Kind[p.id] = "bitbox" /\ st \in {"locked", "unlocking"} =>
                \E q \in probes' : /\ q.id = p.id /\ q.n = p.n
                                   /\ q.pc \in {"announce", "unlock"}
      PROVE  LockedIsBeingUnlocked'
  <2> SUFFICES ASSUME NEW i \in DOMAIN devices', Kind'[i] = "bitbox",
                      devices'[i].st \in {"locked", "unlocking"}
               PROVE  UnlockingBy(i)'
    BY DEF LockedIsBeingUnlocked
  <2>1. /\ DOMAIN devices' = DOMAIN devices \cup {p.id}
        /\ devices'[p.id] = [st |-> st, by |-> p.n]
        /\ \A j \in DOMAIN devices \ {p.id} : devices'[j] = devices[j]
    BY <1>i, InsertsTyped
  <2>2. CASE i = p.id
    BY <1>i, <2>1, <2>2 DEF UnlockingBy, Kind
  <2>3. CASE i # p.id
    <3>1. PICK r \in probes : r.id = i /\ r.n = devices[i].by /\ r.pc \in {"announce", "unlock"}
      BY <1>i, <2>1, <2>3 DEF LockedIsBeingUnlocked, UnlockingBy, Kind
    <3>2. Survives(r)
      BY <1>i, <2>3, <3>1
    <3> QED
      BY <2>1, <2>3, <3>1, <3>2 DEF UnlockingBy, Survives
  <2> QED
    BY <2>2, <2>3
<1>x. ASSUME Removes(p), UNCHANGED bench, \A r \in probes \ {p} : Survives(r)
      PROVE  LockedIsBeingUnlocked'
  <2> SUFFICES ASSUME NEW i \in DOMAIN devices', Kind'[i] = "bitbox",
                      devices'[i].st \in {"locked", "unlocking"}
               PROVE  UnlockingBy(i)'
    BY DEF LockedIsBeingUnlocked
  <2>1. i \in DOMAIN devices \ {p.id} /\ devices'[i] = devices[i]
    BY <1>x, RestrictTyped, Zenon DEF Removes
  <2>2. PICK r \in probes : r.id = i /\ r.n = devices[i].by /\ r.pc \in {"announce", "unlock"}
    BY <1>x, <2>1 DEF LockedIsBeingUnlocked, UnlockingBy, Kind
  <2>3. Survives(r)
    BY <1>x, <2>1, <2>2
  <2> QED
    BY <2>1, <2>2, <2>3 DEF UnlockingBy, Survives
<1>1. CASE Connect(p)
  BY <1>1, <1>b, LockedFramed DEF Connect
<1>2. CASE ConnectFails(p)
  BY <1>2, <1>b, <1>e, <1>x, LockedFramed DEF ConnectFails
<1>3. CASE Identify(p)
  <2>1. PICK st \in Verdicts(p.id) :
            /\ Inserts(p, st)
            /\ Becomes(p, [p EXCEPT !.pc = IF st = "locked" THEN "announce" ELSE "notify"])
    BY <1>3 DEF Identify
  <2>2. st \in States \ {"unlocking"} /\ p.pc = "identify" /\ UNCHANGED bench
    BY <1>0, <1>3, VerdictsAre DEF Identify
  <2>3. st = "locked" => \E q \in probes' : q.id = p.id /\ q.n = p.n /\ q.pc = "announce"
    <3> DEFINE q == [p EXCEPT !.pc = "announce"]
    <3>1. st = "locked" => q \in probes'
      BY <2>1 DEF Becomes
    <3>2. q.id = p.id /\ q.n = p.n /\ q.pc = "announce"
      BY <1>p, ProbeAt
    <3> HIDE DEF q
    <3> QED
      BY <3>1, <3>2
  <2> QED
    BY <1>b, <1>i, <2>1, <2>2, <2>3
<1>4. CASE IdentifyFails(p)
  <2>1. p.pc = "identify" /\ UNCHANGED bench /\ "unsupported" \in States
    BY <1>4 DEF IdentifyFails, States
  <2>2. CASE Ends(p) /\ UNCHANGED devices
    BY <1>e, <2>1, <2>2, LockedFramed
  <2>3. CASE Inserts(p, "unsupported") /\ Becomes(p, [p EXCEPT !.pc = "notify"])
    BY <1>b, <1>i, <2>1, <2>3
  <2> QED
    BY <1>4, <2>2, <2>3 DEF IdentifyFails
<1>5. CASE Notify(p)
  BY <1>5, <1>e, LockedFramed DEF Notify
<1>6. CASE AnnounceLocked(p)
  <2> SUFFICES ASSUME NEW i \in DOMAIN devices', Kind'[i] = "bitbox",
                      devices'[i].st \in {"locked", "unlocking"}
               PROVE  UnlockingBy(i)'
    BY DEF LockedIsBeingUnlocked
  <2>1. /\ i \in DOMAIN devices /\ devices'[i].by = devices[i].by
        /\ devices[i].st \in {"locked", "unlocking"}
    BY <1>6 DEF AnnounceLocked, ServiceInv, DevicesTyped
  <2>2. PICK r \in probes : r.id = i /\ r.n = devices[i].by /\ r.pc \in {"announce", "unlock"}
    BY <1>6, <2>1 DEF AnnounceLocked, LockedIsBeingUnlocked, UnlockingBy, Kind
  <2>3. CASE r # p
    BY <1>6, <1>b, <2>1, <2>2, <2>3 DEF AnnounceLocked, UnlockingBy, Survives
  <2>4. CASE r = p
    <3>1. \E q \in probes' : q.id = p.id /\ q.n = p.n /\ q.pc = "unlock"
      <4> DEFINE q == [p EXCEPT !.pc = "unlock"]
      <4>1. q \in probes'
        BY <1>6 DEF AnnounceLocked, Becomes
      <4>2. q.id = p.id /\ q.n = p.n /\ q.pc = "unlock"
        BY <1>p, ProbeAt
      <4> HIDE DEF q
      <4> QED
        BY <4>1, <4>2
    <3> QED
      BY <2>1, <2>2, <2>4, <3>1 DEF UnlockingBy
  <2> QED
    BY <2>3, <2>4
<1>7. CASE Unlock(p)
  <2>1. PICK st \in Unlocked(p.id) : Inserts(p, st)
    BY <1>7 DEF Unlock
  <2>2. st \in States /\ UNCHANGED bench /\ Becomes(p, [p EXCEPT !.pc = "notify"])
    BY <1>0, <1>7, VerdictsAre DEF Unlock
  <2>3. Kind[p.id] = "bitbox" => st = "supported"
    BY <1>0, VerdictsAre
  <2> QED
    BY <1>b, <1>i, <2>1, <2>2, <2>3
<1>8. CASE UnlockFails(p)
  <2>1. CASE Removes(p) /\ Becomes(p, [p EXCEPT !.pc = "notify"])
    BY <1>8, <1>b, <1>x, <2>1 DEF UnlockFails
  <2>2. CASE Kind[p.id] = "jade" /\ Ends(p) /\ UNCHANGED devices
    <3> SUFFICES ASSUME NEW i \in DOMAIN devices', Kind'[i] = "bitbox",
                        devices'[i].st \in {"locked", "unlocking"}
                 PROVE  UnlockingBy(i)'
      BY DEF LockedIsBeingUnlocked
    <3>1. UNCHANGED bench
      BY <1>8 DEF UnlockFails
    <3>2. PICK r \in probes : r.id = i /\ r.n = devices[i].by /\ r.pc \in {"announce", "unlock"}
      BY <2>2, <3>1 DEF LockedIsBeingUnlocked, UnlockingBy, Kind
    <3>3. r # p
      BY <2>2, <3>1, <3>2 DEF Kind
    <3>4. Survives(r)
      BY <1>e, <2>2, <3>3
    <3> QED
      BY <2>2, <3>2, <3>4 DEF UnlockingBy, Survives
  <2> QED
    BY <1>8, <2>1, <2>2 DEF UnlockFails
<1> QED
  BY <1>1, <1>2, <1>3, <1>4, <1>5, <1>6, <1>7, <1>8 DEF ProbeStep

\* Every step keeps LockedIsBeingUnlocked, given ServiceInv.
LEMMA LockedNext ==
    ServiceInv /\ LockedIsBeingUnlocked /\ [Next]_vars => LockedIsBeingUnlocked'
<1> SUFFICES ASSUME ServiceInv, LockedIsBeingUnlocked, [Next]_vars
             PROVE  LockedIsBeingUnlocked'
  OBVIOUS
<1>s. Spawned => \A p \in probes : Survives(p)
  BY DEF Spawned, Survives
<1>u. UNCHANGED <<bench, probes, devices>> => LockedIsBeingUnlocked'
  BY DEF LockedIsBeingUnlocked, UnlockingBy, Kind
<1>1. CASE UNCHANGED vars
  BY <1>1, <1>u DEF vars
<1>2. ASSUME NEW c \in Callers, \/ StartCount(c) \/ StartSpawn(c) \/ StopCount(c)
                                \/ StopFlag(c) \/ List(c)
      PROVE  LockedIsBeingUnlocked'
  BY <1>2, <1>u DEF StartCount, StartSpawn, StopCount, StopFlag, List
<1>3. ASSUME NEW i \in Present, Plug(i) \/ Unplug(i) PROVE LockedIsBeingUnlocked'
  <2>1. CASE Plug(i)
    BY <1>u, <2>1 DEF Plug
  <2>2. CASE Unplug(i)
    <3>1. Relabelled /\ UNCHANGED <<bench, devices>>
      BY <2>2, UnplugRelabels DEF Unplug
    <3> QED
      BY <3>1, LockedFramed DEF Relabelled
  <2> QED
    BY <1>3, <2>1, <2>2
<1>4. ASSUME NEW l \in DOMAIN listeners,
             OpenHid(l) \/ Refresh(l) \/ FindDisconnected(l) \/ PollFails(l)
      PROVE  LockedIsBeingUnlocked'
  BY <1>4, <1>u DEF OpenHid, Refresh, FindDisconnected, PollFails
<1>5. ASSUME NEW l \in DOMAIN listeners, SeesShutdown(l) \/ OpenHidFails(l)
      PROVE  LockedIsBeingUnlocked'
  <2>1. ListenerReturns(l)
    BY <1>5 DEF SeesShutdown, OpenHidFails
  <2>2. Relabelled /\ UNCHANGED <<bench, devices>>
    BY <2>1, ReturnTyped DEF ListenerReturns
  <2> QED
    BY <2>2, LockedFramed DEF Relabelled
<1>6. ASSUME NEW l \in DOMAIN listeners, RemoveDisconnected(l) PROVE LockedIsBeingUnlocked'
  <2>1. UNCHANGED bench /\ \E S : devices' = Restrict(devices, DOMAIN devices \ S)
    BY <1>6, Zenon DEF RemoveDisconnected
  <2>2. \A i \in DOMAIN devices' : i \in DOMAIN devices /\ devices'[i] = devices[i]
    BY <2>1, RestrictTyped, Zenon
  <2> QED
    BY <1>6, <2>1, <2>2, RemoveRelabels, LockedFramed DEF Relabelled
<1>7. ASSUME NEW l \in DOMAIN listeners, PollSimulator(l) \/ PollDevice(l)
      PROVE  LockedIsBeingUnlocked'
  <2>1. UNCHANGED <<bench, devices>>
    BY <1>7 DEF PollSimulator, PollDevice
  <2>2. PICK i \in Present : IF ShouldPoll(l, i) THEN SpawnProbe(l, i) ELSE UNCHANGED probes
    BY <1>7, RecOf, Zenon DEF PollSimulator, PollDevice, OfHandler
  <2>3. Spawned
    BY <2>1, <2>2, PollSpawns
  <2> QED
    BY <1>s, <2>1, <2>3, LockedFramed
<1> QED
  BY <1>1, <1>2, <1>3, <1>4, <1>5, <1>6, <1>7, LockedByProbe DEF Next, ListenerStep

\* A BitBox02 shown as locked has the thread that is unlocking it, for any
\* devices, listeners, threads and events: handle_locked_bitbox leaves no
\* locked entry behind that nothing will ever change.
THEOREM LockedHasItsThread == Spec => []LockedIsBeingUnlocked
<1>1. Init => LockedIsBeingUnlocked
  BY DEF Init, LockedIsBeingUnlocked
<1> QED
  BY <1>1, ServiceInvInit, ServiceInvNext, LockedNext, PTL DEF Spec

-----------------------------------------------------------------------------
\* The refinement of the device registry.  The list of every caller exists.
ViewsExist == view \in [Callers -> Registry!Maps]

\* Finitely many probes owe a snapshot.
LEMMA OwingFinite ==
    ASSUME ServiceInv
    PROVE  IsFiniteSet(Owing) /\ Cardinality(Owing) \in Nat
BY FS_Subset, FS_CardinalityType DEF ServiceInv, ProbesTyped, Owing

\* What the consumer is shown is a device map of the registry.
LEMMA ShownIsMap ==
    ASSUME NEW d, DOMAIN d \in SUBSET Ids, d \in [DOMAIN d -> [st : States, by : Nat]]
    PROVE  Shown(d) \in Registry!Maps
<1>1. Shown(d) \in [DOMAIN d -> {"locked", "supported", "unsupported"}]
  BY DEF Shown, States
<1> QED
  BY <1>1 DEF Registry!Maps

\* What the registry shows is a map of devices.
LEMMA ShownNext ==
    ASSUME ServiceInv'
    PROVE  Shown(devices') \in Registry!Maps
<1>1. DOMAIN devices' \in SUBSET Ids
  BY BenchAssumption DEF ServiceInv, BenchTyped, DevicesTyped, Present, Kind
<1>2. devices' \in [DOMAIN devices' -> [st : States, by : Nat]]
  BY DEF ServiceInv, DevicesTyped
<1> QED
  BY <1>1, <1>2, ShownIsMap

\* The registry's steps in terms of the service's state.
LEMMA RegistryStutters ==
    ASSUME Cardinality(Owing') = Cardinality(Owing), Shown(devices)' = Shown(devices),
           UNCHANGED <<queued, view>>
    PROVE  UNCHANGED Registry!rvars
BY DEF Registry!rvars, Owing

\* A probe that begins to owe a snapshot is a change of the registry.
LEMMA RegistryChanges ==
    ASSUME ServiceInv', Cardinality(Owing') = Cardinality(Owing) + 1,
           UNCHANGED <<queued, view>>
    PROVE  Registry!Change
<1>1. Shown(devices') \in Registry!Maps
  BY ShownNext
<1> QED
  BY <1>1 DEF Registry!Change, Registry!Maps, Owing

\* A probe that sends its snapshot is a send of the registry.
LEMMA RegistrySends ==
    ASSUME Cardinality(Owing) > 0, Cardinality(Owing') = Cardinality(Owing) - 1,
           Shown(devices)' = Shown(devices), Consumer \in queued', UNCHANGED view
    PROVE  Registry!Send
BY DEF Registry!Send, Owing

\* A probe that starts to owe an Update, sends it, or does neither.
LEMMA OwingGrows ==
    ASSUME ServiceInv, NEW p \in probes, p.pc \notin {"announce", "notify"},
           UNCHANGED bench, NEW pc \in {"announce", "notify"},
           Becomes(p, [p EXCEPT !.pc = pc])
    PROVE  Cardinality(Owing') = Cardinality(Owing) + 1
<1> DEFINE q == [p EXCEPT !.pc = pc]
<1>1. q \in ProbeRecs /\ q.id = p.id /\ q.n = p.n /\ q.pc = pc
  <2>1. pc \in Pcs
    BY DEF Pcs
  <2> QED
    BY <2>1, ProbeAt
<1> HIDE DEF q
<1>2. Becomes(p, q)
  BY DEF q
<1>3. /\ Owing' = (Owing \ {p}) \cup {q}
      /\ q \in Owing => q = p
  BY <1>1, <1>2, ProbeBecomes
<1>4. p \notin Owing
  BY DEF Owing
<1>5. Owing' = Owing \cup {q} /\ q \notin Owing
  BY <1>3, <1>4
<1> QED
  BY <1>5, OwingFinite, FS_AddElement

\* One snapshot fewer is owed when a probe sends it.
LEMMA OwingShrinks ==
    ASSUME ServiceInv, NEW p \in probes, p.pc \in {"announce", "notify"},
           Owing' = Owing \ {p}
    PROVE  Cardinality(Owing) > 0 /\ Cardinality(Owing') = Cardinality(Owing) - 1
<1>1. p \in Owing
  BY DEF Owing
<1>2. Cardinality(Owing) # 0
  BY <1>1, OwingFinite, FS_EmptySet
<1> QED
  BY <1>1, <1>2, OwingFinite, FS_RemoveElement

\* The steps of a probe are steps of the registry.
LEMMA ProbeImplements ==
    ASSUME NEW c, Callers = {c}, ServiceInv, NEW p \in probes, ProbeStep(p)
    PROVE  Registry!RegistryNext \/ UNCHANGED Registry!rvars
<1>0. ServiceInv' /\ p.id \in Present /\ p.chan = Consumer
  BY ProbeKeepsInv, ProbeIs DEF Consumer
<1>e. ASSUME Ends(p), p.pc \notin {"announce", "notify"}, UNCHANGED bench
      PROVE  Cardinality(Owing') = Cardinality(Owing)
  <2>1. Owing' = Owing
    BY <1>e, ProbeEnds DEF Owing
  <2> QED
    BY <2>1
<1>1. CASE Connect(p)
  <2>1. Owing' = Owing
    <3> DEFINE q == [p EXCEPT !.pc = "identify", !.good = TRUE]
    <3>1. q \in ProbeRecs /\ q.id = p.id /\ q.n = p.n /\ q.pc = "identify"
      BY ProbeConnected, Zenon
    <3>2. Becomes(p, q) /\ UNCHANGED bench /\ p \notin Owing
      BY <1>1 DEF Connect, Owing
    <3> HIDE DEF q
    <3>3. Owing' = Owing \ {p}
      BY <3>1, <3>2, ProbeBecomes
    <3> QED
      BY <3>2, <3>3
  <2> QED
    BY <1>1, <2>1, RegistryStutters DEF Connect, Shown
<1>2. CASE ConnectFails(p)
  <2>1. CASE UNCHANGED devices /\ Ends(p)
    BY <1>2, <1>e, <2>1, RegistryStutters DEF ConnectFails, Shown
  <2>2. CASE Becomes(p, [p EXCEPT !.pc = "notify"])
    BY <1>0, <1>2, <2>2, OwingGrows, RegistryChanges, Zenon DEF ConnectFails, Registry!RegistryNext
  <2> QED
    BY <1>2, <2>1, <2>2 DEF ConnectFails
<1>3. CASE Identify(p)
  <2>1. \E pc \in {"announce", "notify"} : Becomes(p, [p EXCEPT !.pc = pc])
    BY <1>3 DEF Identify
  <2>2. Cardinality(Owing') = Cardinality(Owing) + 1
    BY <1>3, <2>1, OwingGrows, Zenon DEF Identify
  <2> QED
    BY <1>0, <1>3, <2>2, RegistryChanges DEF Identify, Registry!RegistryNext
<1>4. CASE IdentifyFails(p)
  <2>1. CASE UNCHANGED devices /\ Ends(p)
    BY <1>4, <1>e, <2>1, RegistryStutters DEF IdentifyFails, Shown
  <2>2. CASE Becomes(p, [p EXCEPT !.pc = "notify"])
    BY <1>0, <1>4, <2>2, OwingGrows, RegistryChanges, Zenon DEF IdentifyFails, Registry!RegistryNext
  <2> QED
    BY <1>4, <2>1, <2>2 DEF IdentifyFails
<1>5. CASE Notify(p)
  <2>1. Owing' = Owing \ {p} /\ p.pc \in {"announce", "notify"}
    BY <1>5, ProbeEnds DEF Notify
  <2>2. Shown(devices)' = Shown(devices) /\ Consumer \in queued' /\ UNCHANGED view
    BY <1>0, <1>5 DEF Notify, Shown
  <2> QED
    BY <2>1, <2>2, OwingShrinks, RegistrySends DEF Registry!RegistryNext
<1>6. CASE AnnounceLocked(p)
  <2>1. Owing' = Owing \ {p} /\ p.pc \in {"announce", "notify"}
    <3> DEFINE q == [p EXCEPT !.pc = "unlock"]
    <3>1. q \in ProbeRecs /\ q.id = p.id /\ q.n = p.n /\ q.pc = "unlock"
      BY ProbeAt, Zenon DEF Pcs
    <3>2. Becomes(p, q) /\ UNCHANGED bench /\ p.pc = "announce"
      BY <1>6 DEF AnnounceLocked
    <3> HIDE DEF q
    <3> QED
      BY <3>1, <3>2, ProbeBecomes
  <2>2. Shown(devices)' = Shown(devices)
    <3>1. CASE UNCHANGED devices
      BY <3>1 DEF Shown
    <3>2. CASE /\ p.id \in DOMAIN devices /\ devices[p.id].st = "locked"
               /\ devices' = [devices EXCEPT ![p.id].st = "unlocking"]
      BY <3>2 DEF Shown, ServiceInv, DevicesTyped
    <3>3. devices[p.id] = [st |-> "locked", by |-> p.n] => devices[p.id].st = "locked"
      OBVIOUS
    <3> QED
      BY <1>6, <3>1, <3>2, <3>3, Zenon DEF AnnounceLocked
  <2>3. Consumer \in queued' /\ UNCHANGED view
    BY <1>0, <1>6 DEF AnnounceLocked
  <2> QED
    BY <2>1, <2>2, <2>3, OwingShrinks, RegistrySends DEF Registry!RegistryNext
<1>7. CASE Unlock(p)
  BY <1>0, <1>7, OwingGrows, RegistryChanges, Zenon DEF Unlock, Registry!RegistryNext
<1>8. CASE UnlockFails(p)
  <2>1. CASE UNCHANGED devices /\ Ends(p)
    BY <1>8, <1>e, <2>1, RegistryStutters DEF UnlockFails, Shown
  <2>2. CASE Becomes(p, [p EXCEPT !.pc = "notify"])
    BY <1>0, <1>8, <2>2, OwingGrows, RegistryChanges, Zenon DEF UnlockFails, Registry!RegistryNext
  <2> QED
    BY <1>8, <2>1, <2>2 DEF UnlockFails
<1> QED
  BY <1>1, <1>2, <1>3, <1>4, <1>5, <1>6, <1>7, <1>8 DEF ProbeStep

\* So is every other step.
LEMMA NextImplements ==
    ASSUME NEW c, Callers = {c}, ServiceInv, ViewsExist, [Next]_vars
    PROVE  Registry!RegistryNext \/ UNCHANGED Registry!rvars
<1>0. ServiceInv' /\ Consumer = c /\ c \in Callers
  BY ServiceInvNext DEF Consumer
<1>u. UNCHANGED <<probes, devices, queued, view>> => UNCHANGED Registry!rvars
  BY RegistryStutters DEF Owing, Shown
<1>r. Relabelled /\ UNCHANGED <<devices, queued, view>> => UNCHANGED Registry!rvars
  BY RegistryStutters DEF Relabelled, Shown
<1>1. CASE UNCHANGED vars
  BY <1>1, <1>u DEF vars
<1>2. ASSUME NEW d \in Callers, \/ StartCount(d) \/ StartSpawn(d) \/ StopCount(d)
                                \/ StopFlag(d)
      PROVE  UNCHANGED Registry!rvars
  BY <1>2, <1>u DEF StartCount, StartSpawn, StopCount, StopFlag
<1>3. ASSUME NEW d \in Callers, List(d) PROVE Registry!RegistryNext
  <2>1. d = Consumer
    BY <1>0
  <2>2. view'[Consumer] = Shown(devices)
    BY <1>3, <2>1 DEF List, ViewsExist
  <2>3. Registry!List
    BY <1>3, <2>1, <2>2 DEF List, Registry!List, Shown
  <2> QED
    BY <2>3 DEF Registry!RegistryNext
<1>4. ASSUME NEW i \in Present, Plug(i) \/ Unplug(i) PROVE UNCHANGED Registry!rvars
  <2>1. CASE Plug(i)
    BY <1>u, <2>1 DEF Plug
  <2>2. CASE Unplug(i)
    <3>1. Relabelled
      BY <2>2, UnplugRelabels, Zenon DEF Unplug
    <3> QED
      BY <1>r, <2>2, <3>1 DEF Unplug
  <2> QED
    BY <1>4, <2>1, <2>2
<1>5. ASSUME NEW l \in DOMAIN listeners,
             OpenHid(l) \/ Refresh(l) \/ FindDisconnected(l) \/ PollFails(l)
      PROVE  UNCHANGED Registry!rvars
  BY <1>5, <1>u DEF OpenHid, Refresh, FindDisconnected, PollFails
<1>6. ASSUME NEW l \in DOMAIN listeners, SeesShutdown(l) \/ OpenHidFails(l)
      PROVE  UNCHANGED Registry!rvars
  <2>1. ListenerReturns(l)
    BY <1>6 DEF SeesShutdown, OpenHidFails
  <2> QED
    BY <1>r, <2>1, ReturnTyped DEF ListenerReturns
<1>7. ASSUME NEW l \in DOMAIN listeners, RemoveDisconnected(l) PROVE Registry!RegistryNext
  <2>1. Cardinality(Owing') = Cardinality(Owing)
    BY <1>7, RemoveRelabels DEF Relabelled
  <2>2. listeners[l].chan = Consumer
    BY <1>0, RecOf
  <2>3. Consumer \in queued' /\ UNCHANGED view
    BY <1>7, <2>2 DEF RemoveDisconnected
  <2>4. Shown(devices') \in Registry!Maps
    BY <1>0, ShownNext
  <2>5. Registry!ChangeAndSend
    BY <2>1, <2>3, <2>4 DEF Registry!ChangeAndSend, Registry!Maps, Owing
  <2> QED
    BY <2>5 DEF Registry!RegistryNext
<1>8. ASSUME NEW l \in DOMAIN listeners, PollSimulator(l) \/ PollDevice(l)
      PROVE  UNCHANGED Registry!rvars
  <2>1. UNCHANGED <<bench, devices, queued, view>>
    BY <1>8 DEF PollSimulator, PollDevice
  <2>2. PICK i \in Present : IF ShouldPoll(l, i) THEN SpawnProbe(l, i) ELSE UNCHANGED probes
    BY <1>8, RecOf, Zenon DEF PollSimulator, PollDevice, OfHandler
  <2>3. Owing' = Owing
    BY <2>1, <2>2, PollSpawns DEF Spawned
  <2> QED
    BY <2>1, <2>3, RegistryStutters DEF Shown
<1> QED
  BY <1>1, <1>2, <1>3, <1>4, <1>5, <1>6, <1>7, <1>8, ProbeImplements DEF Next, ListenerStep

\* Initially every view existed.
LEMMA ViewsInit == Init => ViewsExist
<1>1. << >> \in Registry!Maps
  <2>1. << >> \in [{} -> {"locked", "supported", "unsupported"}]
    OBVIOUS
  <2> QED
    BY <2>1 DEF Registry!Maps
<1> QED
  BY <1>1 DEF Init, ViewsExist

\* Every step keeps ViewsExist, given ServiceInv.
LEMMA ViewsNext == ServiceInv /\ ViewsExist /\ [Next]_vars => ViewsExist'
<1> SUFFICES ASSUME ServiceInv, ViewsExist, [Next]_vars PROVE ViewsExist'
  OBVIOUS
<1>1. CASE UNCHANGED view
  BY <1>1 DEF ViewsExist, Registry!Maps
<1>2. ASSUME NEW c \in Callers, List(c) PROVE ViewsExist'
  <2>1. UNCHANGED devices /\ ServiceInv'
    BY <1>2, ServiceInvNext DEF List
  <2>2. Shown(devices) \in Registry!Maps
    BY <2>1, ShownNext
  <2> QED
    BY <1>2, <2>2 DEF List, ViewsExist, Registry!Maps
<1> QED
  BY <1>1, <1>2, Zenon
  DEF Next, vars, StartCount, StartSpawn, StopCount, StopFlag, ListenerStep, OpenHid,
      SeesShutdown, Refresh, PollSimulator, FindDisconnected, RemoveDisconnected, PollDevice,
      PollFails, OpenHidFails, ListenerReturns, ProbeStep, Connect, ConnectFails, Identify,
      IdentifyFails, Notify, AnnounceLocked, Unlock, UnlockFails, Plug, Unplug

\* The service is a device registry for its only consumer: whichever thread
\* changes the device map, an Update is in the consumer's channel or owed to
\* it until the consumer takes the list, whatever the number of devices,
\* listeners and threads.
THEOREM ServiceImplementsRegistry ==
    ASSUME NEW c, Callers = {c}
    PROVE  Spec => ImplementsRegistry
<1>1. Init => Registry!RegistryInit
  <2> SUFFICES ASSUME Init PROVE Registry!RegistryInit
    OBVIOUS
  <2>1. Shown(devices) = << >>
    BY DEF Init, Shown
  <2>2. Cardinality({p \in probes : p.pc \in {"announce", "notify"}}) = 0
    <3>1. {p \in probes : p.pc \in {"announce", "notify"}} = {}
      BY DEF Init
    <3> QED
      BY <3>1, FS_EmptySet
  <2>3. Consumer \notin queued /\ view[Consumer] = << >>
    BY DEF Init, Consumer
  <2> QED
    BY <2>1, <2>2, <2>3 DEF Registry!RegistryInit
<1>2. ServiceInv /\ ViewsExist /\ [Next]_vars
        => [Registry!RegistryNext]_(Registry!rvars)
  BY NextImplements
<1> QED
  BY <1>1, <1>2, ServiceInvInit, ServiceInvNext, ViewsInit, ViewsNext, PTL
  DEF Spec, ImplementsRegistry, Registry!RegistrySpec
=============================================================================
