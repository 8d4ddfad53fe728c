----------------------------- MODULE HwiService -----------------------------
(***************************************************************************)
(* The hardware-wallet service (hwi/src/service.rs): consumers that start  *)
(* and stop it by reference count, the listener thread that polls the      *)
(* ports, the thread it spawns per device to identify and unlock it, and   *)
(* the shared device map.                                                  *)
(*                                                                         *)
(* Grain: one atomic operation, one hold of the devices mutex, one answer  *)
(* of a device.  A probe (a per-device thread) carries `owner`, the        *)
(* listener that still holds its JoinHandle; a handle is finished exactly  *)
(* when its probe is gone.  A probe's session is good while the device     *)
(* has not been unplugged since the probe opened it.                       *)
(***************************************************************************)
EXTENDS Integers, Sequences, FiniteSets, FiniteSetsExt, Functions

CONSTANTS
    Ids,            \* device identifiers
    Simulators,     \* ids of simulators
    Benches,        \* [make, kinds]: devices and kinds of event together
    Callers,        \* consumers
    MaxListeners,   \* bound: listener threads alive at once
    MaxProbes,      \* bound: threads alive at once for one id
    MaxEvents       \* bound: events of a behaviour

ASSUME BoundsAssumption == MaxListeners \in Nat /\ MaxProbes \in Nat

\* A bench gives each of its devices one of the makes the service knows.
ASSUME BenchAssumption ==
    \A b \in Benches :
        /\ DOMAIN b.make \subseteq Ids
        /\ \A i \in DOMAIN b.make :
             b.make[i] \in {"specter", "jade", "bitbox", "coldcard", "ledger"}

VARIABLES
    bench,      \* the member of Benches this behaviour is about
    plugged,    \* the ids connected now
    ref,        \* ref_count
    shutdown,   \* the shutdown flag
    caller,     \* caller -> "idle", "starting", "on" or "stopping"
    listeners,  \* listener -> [at, step, hid, doomed, todo, chan]
    probes,     \* set of [id, n, owner, pc, good, chan]
    devices,    \* the device map: id -> [st, by]
    queued,     \* callers with an Update in their channel
    view,       \* caller -> the list it took at its last Update
    events

vars == <<bench, plugged, ref, shutdown, caller, listeners, probes, devices,
          queued, view, events>>

Kind == bench.make                      \* also the prefix of the id
Present == DOMAIN Kind
NoHid == {"specter", "jade"}            \* found by serial port, not by HID

(***************************************************************************)
(* The handlers of one poll cycle, in the order listen calls them.  A      *)
(* handler whose kind is not on the bench finds nothing and does nothing.  *)
(***************************************************************************)
Handlers == << <<"sim", "specter">>, <<"dev", "specter">>, <<"dev", "jade">>,
               <<"sim", "ledger">>, <<"dev", "bitbox">>,
               <<"dev", "coldcard">>, <<"dev", "ledger">> >>

OfHandler(h) ==
    {i \in Present : Kind[i] = h[2] /\ (i \in Simulators <=> h[1] = "sim")}

\* starts_with(prefix): a simulator's id has the prefix of its make
WithPrefix(kind) == {i \in Present : Kind[i] = kind}

Cycle ==
    SelectSeq(Handlers, LAMBDA h :
        (IF h[1] = "sim" THEN OfHandler(h) ELSE WithPrefix(h[2])) # {})

Event(kind) ==
    kind \in bench.kinds /\ events < MaxEvents /\ events' = events + 1

Init ==
    /\ bench \in Benches
    /\ plugged \in SUBSET Present
    /\ ref = 0
    /\ shutdown = FALSE
    /\ caller = [c \in Callers |-> "idle"]
    /\ listeners = << >>
    /\ probes = {}
    /\ devices = << >>
    /\ queued = {}
    /\ view = [c \in Callers |-> << >>]
    /\ events = 0

\* BTreeMap::insert: a new entry, or the new value of an old one.
Put(map, k, v) ==
    [x \in DOMAIN map \cup {k} |-> IF x = k THEN v ELSE map[x]]

(***************************************************************************)
(* Plugging and unplugging.  An open session does not survive it.          *)
(***************************************************************************)
Plug(i) ==
    /\ Event("plug")
    /\ i \in Present \ plugged
    /\ plugged' = plugged \cup {i}
    /\ UNCHANGED <<bench, ref, shutdown, caller, listeners, probes, devices,
                   queued, view>>

Unplug(i) ==
    /\ Event("plug")
    /\ i \in plugged
    /\ plugged' = plugged \ {i}
    /\ probes' = {IF p.id = i THEN [p EXCEPT !.good = FALSE] ELSE p
                    : p \in probes}
    /\ UNCHANGED <<bench, ref, shutdown, caller, listeners, devices, queued,
                   view>>

(***************************************************************************)
(* start and stop.  The count is changed first; only the caller that moved *)
(* it from or to zero goes on to the flag and the thread.                  *)
(***************************************************************************)
StartCount(c) ==
    /\ caller[c] = "idle"
    /\ ref' = ref + 1
    /\ caller' = [caller EXCEPT ![c] = IF ref = 0 THEN "starting" ELSE "on"]
    /\ UNCHANGED <<bench, plugged, shutdown, listeners, probes, devices,
                   queued, view, events>>

NewListener(c) ==
    [at |-> 0, step |-> "open", hid |-> {}, doomed |-> {}, todo |-> {},
     chan |-> c]

StartSpawn(c) ==
    /\ caller[c] = "starting"
    /\ LET free == 1..MaxListeners \ DOMAIN listeners
       IN  /\ free # {}
           /\ listeners' = Put(listeners, Min(free), NewListener(c))
    /\ shutdown' = FALSE
    /\ caller' = [caller EXCEPT ![c] = "on"]
    /\ UNCHANGED <<bench, plugged, ref, probes, devices, queued, view, events>>

StopCount(c) ==
    /\ Event("stop")
    /\ caller[c] = "on"
    /\ ref > 0
    /\ ref' = ref - 1
    /\ caller' = [caller EXCEPT ![c] = IF ref = 1 THEN "stopping" ELSE "idle"]
    /\ UNCHANGED <<bench, plugged, shutdown, listeners, probes, devices,
                   queued, view>>

\* The handle is taken and dropped: the thread is not joined.
StopFlag(c) ==
    /\ caller[c] = "stopping"
    /\ shutdown' = TRUE
    /\ caller' = [caller EXCEPT ![c] = "idle"]
    /\ UNCHANGED <<bench, plugged, ref, listeners, probes, devices, queued,
                   view, events>>

(***************************************************************************)
(* The listener.  `at` is 0 at the top of the loop and k in handler k of   *)
(* the cycle; `step` separates the holds of the mutex inside a handler.    *)
(***************************************************************************)
Handler(l) == Cycle[listeners[l].at]

InHandler(l, sort, step) ==
    /\ l \in DOMAIN listeners
    /\ listeners[l].at > 0
    /\ Handler(l)[1] = sort
    /\ listeners[l].step = step

NextHandler(rec) ==
    [rec EXCEPT !.at = IF @ = Len(Cycle) THEN 0 ELSE @ + 1,
                !.step = "find", !.doomed = {}, !.todo = {}]

Polling(rec, ids) ==
    IF ids = {} THEN NextHandler(rec)
    ELSE [rec EXCEPT !.step = "poll", !.doomed = {}, !.todo = ids]

Moved(l, rec) == listeners' = [listeners EXCEPT ![l] = rec]

\* The handles of a listener that returns are dropped: its probes run on.
ListenerReturns(l) ==
    /\ listeners' = Restrict(listeners, DOMAIN listeners \ {l})
    /\ probes' = {IF p.owner = l THEN [p EXCEPT !.owner = 0] ELSE p
                    : p \in probes}
    /\ UNCHANGED <<bench, plugged, ref, shutdown, caller, devices, queued,
                   view>>

\* HidApi::new
OpenHid(l) ==
    /\ l \in DOMAIN listeners
    /\ listeners[l].step = "open"
    /\ Moved(l, [listeners[l] EXCEPT !.step = "find"])
    /\ UNCHANGED <<bench, plugged, ref, shutdown, caller, probes, devices,
                   queued, view, events>>

OpenHidFails(l) ==
    /\ Event("fault")
    /\ listeners[l].step = "open"
    /\ ListenerReturns(l)

AtTop(l) ==
    l \in DOMAIN listeners /\ listeners[l].at = 0 /\ listeners[l].step = "find"

SeesShutdown(l) ==
    /\ AtTop(l)
    /\ shutdown
    /\ ListenerReturns(l)
    /\ UNCHANGED events

\* A refresh that fails goes back to the top of the loop: no step.
Refresh(l) ==
    /\ AtTop(l)
    /\ ~shutdown
    /\ Moved(l, [listeners[l] EXCEPT !.at = 1,
                     !.hid = {i \in plugged : Kind[i] \notin NoHid}])
    /\ UNCHANGED <<bench, plugged, ref, shutdown, caller, probes, devices,
                   queued, view, events>>

HasHandle(l, i) == \E p \in probes : p.owner = l /\ p.id = i

\* should_poll, and the same test inside the two simulator handlers
ShouldPoll(l, i) == i \notin DOMAIN devices /\ ~HasHandle(l, i)

SpawnProbe(l, i) ==
    LET free == 1..MaxProbes \ {p.n : p \in {q \in probes : q.id = i}}
    IN  /\ free # {}
        /\ probes' = probes \cup
            {[id |-> i, n |-> Min(free), owner |-> l, good |-> i \in plugged,
              pc |-> IF i \in Simulators THEN "connect" ELSE "identify",
              chan |-> listeners[l].chan]}

(***************************************************************************)
(* handle_specter_simulator and handle_ledger_simulator.                   *)
(***************************************************************************)
PollSimulator(l) ==
    /\ InHandler(l, "sim", "find")
    /\ \E i \in OfHandler(Handler(l)) :
         IF ShouldPoll(l, i) THEN SpawnProbe(l, i) ELSE UNCHANGED probes
    /\ Moved(l, NextHandler(listeners[l]))
    /\ UNCHANGED <<bench, plugged, ref, shutdown, caller, devices, queued,
                   view, events>>

(***************************************************************************)
(* handle_specter, handle_jade, handle_bitbox02, handle_coldcard and       *)
(* handle_ledger: list the ids, clean up the disconnected ones in two      *)
(* holds of the mutex, then poll each id found.                            *)
(***************************************************************************)
ConnectedByHid(l) == OfHandler(Handler(l)) \cap listeners[l].hid

Connected(l) ==
    OfHandler(Handler(l)) \cap
        (IF Handler(l)[2] \in NoHid THEN plugged ELSE listeners[l].hid)

FindDisconnected(l) ==
    /\ InHandler(l, "dev", "find")
    /\ LET ids == Connected(l)
           gone == (WithPrefix(Handler(l)[2]) \cap DOMAIN devices) \ ids
       IN  Moved(l, IF gone = {} THEN Polling(listeners[l], ids)
                    ELSE [listeners[l] EXCEPT !.step = "remove",
                              !.doomed = gone, !.todo = ids])
    /\ UNCHANGED <<bench, plugged, ref, shutdown, caller, probes, devices,
                   queued, view, events>>

\* The simulators' handles are kept apart from the maps of handles.
RemoveQuietly(l) ==
    /\ InHandler(l, "dev", "remove")
    /\ devices' = Restrict(devices, DOMAIN devices \ listeners[l].doomed)
    /\ Moved(l, Polling(listeners[l], listeners[l].todo))
    /\ UNCHANGED <<bench, plugged, ref, shutdown, caller, probes, queued,
                   view, events>>

RemoveDisconnected(l) ==
    /\ InHandler(l, "dev", "remove")
    /\ LET gone == listeners[l].doomed
       IN  /\ devices' = Restrict(devices, DOMAIN devices \ gone)
           /\ probes' = {IF p.owner = l /\ p.id \in gone \ Simulators
                         THEN [p EXCEPT !.owner = 0] ELSE p : p \in probes}
    /\ queued' = queued \cup {listeners[l].chan}
    /\ Moved(l, Polling(listeners[l], listeners[l].todo))
    /\ UNCHANGED <<bench, plugged, ref, shutdown, caller, view, events>>

PollDevice(l) ==
    /\ InHandler(l, "dev", "poll")
    /\ \E i \in listeners[l].todo :
         /\ IF ShouldPoll(l, i) THEN SpawnProbe(l, i) ELSE UNCHANGED probes
         /\ Moved(l, Polling(listeners[l], listeners[l].todo \ {i}))
    /\ UNCHANGED <<bench, plugged, ref, shutdown, caller, devices, queued,
                   view, events>>

\* The device does not open, or its ports cannot be listed.
PollFails(l) ==
    /\ Event("fault")
    /\ \/ /\ InHandler(l, "dev", "poll")
          /\ \E i \in listeners[l].todo :
               /\ ShouldPoll(l, i)
               /\ Moved(l, Polling(listeners[l], listeners[l].todo \ {i}))
       \/ /\ InHandler(l, "dev", "find")
          /\ Handler(l)[2] \in NoHid
          /\ Moved(l, NextHandler(listeners[l]))
    /\ UNCHANGED <<bench, plugged, ref, shutdown, caller, probes, devices,
                   queued, view>>

(***************************************************************************)
(* The probes.  `p` becomes `q` (or ends), after changing the map.         *)
(***************************************************************************)
Becomes(p, q) == probes' = (probes \ {p}) \cup {q}

Ends(p) == probes' = probes \ {p}

Inserts(p, st) == devices' = Put(devices, p.id, [st |-> st, by |-> p.n])

Removes(p) == devices' = Restrict(devices, DOMAIN devices \ {p.id})

\* What each make's handler can tell of a device whose session is good.
SpecterVerdicts == {"supported"}
JadeVerdicts == {"supported", "unsupported", "locked"}
BitboxVerdicts == {"locked"}
ColdcardVerdicts == {"supported", "unsupported"}
LedgerVerdicts == {"supported", "unsupported"}

Verdicts(i) ==
    CASE Kind[i] = "specter" -> SpecterVerdicts
      [] Kind[i] = "jade" -> JadeVerdicts
      [] Kind[i] = "bitbox" -> BitboxVerdicts
      [] Kind[i] = "coldcard" -> ColdcardVerdicts
      [] Kind[i] = "ledger" -> LedgerVerdicts

Identify(p) ==
    /\ p.pc = "identify"
    /\ p.good
    /\ \E st \in Verdicts(p.id) :
         /\ Inserts(p, st)
         /\ Becomes(p, [p EXCEPT !.pc =
                IF st = "locked" THEN "announce" ELSE "notify"])
    /\ UNCHANGED <<bench, plugged, ref, shutdown, caller, listeners, queued,
                   view, events>>

\* A session that broke, or a fault, makes the device fail to answer.
Broken(p) == IF p.good THEN Event("fault") ELSE UNCHANGED events

(***************************************************************************)
(* try_connect of the simulators, inside the thread.  A simulator that is  *)
(* not there is taken out of the map; any other error changes nothing.     *)
(***************************************************************************)
Connect(p) ==
    /\ p.pc = "connect"
    /\ p.id \in plugged
    /\ Becomes(p, [p EXCEPT !.pc = "identify", !.good = TRUE])
    /\ UNCHANGED <<bench, plugged, ref, shutdown, caller, listeners, devices,
                   queued, view, events>>

ConnectFails(p) ==
    /\ p.pc = "connect"
    /\ IF p.id \in plugged THEN Event("fault") ELSE UNCHANGED events
    /\ \/ /\ p.id \in DOMAIN devices
          /\ Removes(p)
          /\ Becomes(p, [p EXCEPT !.pc = "notify"])
       \/ UNCHANGED devices /\ Ends(p)
    /\ UNCHANGED <<bench, plugged, ref, shutdown, caller, listeners, queued,
                   view>>

\* handle_ledger_device takes any error for a Bitcoin app that is not open.
IdentifyFails(p) ==
    /\ p.pc = "identify"
    /\ Broken(p)
    /\ IF Kind[p.id] = "ledger"
       THEN Inserts(p, "unsupported") /\ Becomes(p, [p EXCEPT !.pc = "notify"])
       ELSE Ends(p) /\ UNCHANGED devices
    /\ UNCHANGED <<bench, plugged, ref, shutdown, caller, listeners, queued,
                   view>>

Notify(p) ==
    /\ p.pc = "notify"
    /\ queued' = queued \cup {p.chan}
    /\ Ends(p)
    /\ UNCHANGED <<bench, plugged, ref, shutdown, caller, listeners, devices,
                   view, events>>

\* The Update for a locked device, then `take` on the locked device.
AnnounceLocked(p) ==
    /\ p.pc = "announce"
    /\ queued' = queued \cup {p.chan}
    /\ devices' = IF p.id \in DOMAIN devices /\
                        devices[p.id] = [st |-> "locked", by |-> p.n]
                  THEN [devices EXCEPT ![p.id].st = "unlocking"]
                  ELSE devices
    /\ Becomes(p, [p EXCEPT !.pc = "unlock"])
    /\ UNCHANGED <<bench, plugged, ref, shutdown, caller, listeners, view,
                   events>>

\* handle_locked_bitbox, handle_locked_jade: what a second look may tell
Unlocked(i) == IF Kind[i] = "bitbox" THEN {"supported"} ELSE Verdicts(i)

Unlock(p) ==
    /\ p.pc = "unlock"
    /\ p.good
    /\ \E st \in Unlocked(p.id) : Inserts(p, st)
    /\ Becomes(p, [p EXCEPT !.pc = "notify"])
    /\ UNCHANGED <<bench, plugged, ref, shutdown, caller, listeners, queued,
                   view, events>>

UnlockFailsLeavingEntry(p) ==
    /\ p.pc = "unlock"
    /\ Broken(p)
    /\ Ends(p)
    /\ UNCHANGED <<bench, plugged, ref, shutdown, caller, listeners, devices,
                   queued, view>>

\* After a Jade is unlocked, a fingerprint it fails to give changes nothing.
UnlockFails(p) ==
    /\ p.pc = "unlock"
    /\ Broken(p)
    /\ \/ Removes(p) /\ Becomes(p, [p EXCEPT !.pc = "notify"])
       \/ Kind[p.id] = "jade" /\ Ends(p) /\ UNCHANGED devices
    /\ UNCHANGED <<bench, plugged, ref, shutdown, caller, listeners, queued,
                   view>>

\* The consumer answers an Update by taking the list; the inner Option of a
\* locked device is shared, so that it was taken does not show.
Shown(d) == [i \in DOMAIN d |->
                IF d[i].st = "unlocking" THEN "locked" ELSE d[i].st]

List(c) ==
    /\ c \in queued
    /\ queued' = queued \ {c}
    /\ view' = [view EXCEPT ![c] = Shown(devices)]
    /\ UNCHANGED <<bench, plugged, ref, shutdown, caller, listeners, probes,
                   devices, events>>

ListenerStep(l) ==
    \/ OpenHid(l) \/ SeesShutdown(l) \/ Refresh(l) \/ PollSimulator(l)
    \/ FindDisconnected(l) \/ RemoveDisconnected(l) \/ PollDevice(l)

ProbeStep(p) ==
    \/ Connect(p) \/ ConnectFails(p)
    \/ Identify(p) \/ IdentifyFails(p) \/ Notify(p)
    \/ AnnounceLocked(p) \/ Unlock(p) \/ UnlockFails(p)

Next ==
    \/ \E c \in Callers : \/ StartCount(c) \/ StartSpawn(c)
                          \/ StopCount(c) \/ StopFlag(c) \/ List(c)
    \/ \E l \in DOMAIN listeners : 
         ListenerStep(l) \/ PollFails(l) \/ OpenHidFails(l)
    \/ \E p \in probes : ProbeStep(p)
    \/ \E i \in Present : Plug(i) \/ Unplug(i)

Spec == Init /\ [][Next]_vars

(***************************************************************************)
(* Fairness: every thread that can run does, a device or its user answers, *)
(* and a call of start or stop returns.                                    *)
(***************************************************************************)
Fairness ==
    /\ \A l \in 1..MaxListeners : WF_vars(ListenerStep(l))
    /\ \A i \in Ids, n \in 1..MaxProbes :
         WF_vars(\E p \in probes : p.id = i /\ p.n = n /\ ProbeStep(p))
    /\ \A c \in Callers : WF_vars(StartSpawn(c) \/ StopFlag(c))

FairSpec == Spec /\ Fairness

-----------------------------------------------------------------------------

Entries == [st : {"locked", "unlocking", "supported", "unsupported"},
            by : 1..MaxProbes]

\* The state of the service: every thread's record is well formed, and the
\* count is the number of callers that are on or about to be.
TypeOK ==
    /\ plugged \subseteq Present
    /\ shutdown \in BOOLEAN
    /\ ref = Cardinality({c \in Callers : caller[c] \in {"starting", "on"}})
    /\ \A l \in DOMAIN listeners :
         /\ listeners[l].at \in 0..Len(Cycle)
         /\ listeners[l].doomed # {} => listeners[l].step = "remove"
    /\ \A p \in probes :
         /\ p.owner \in {0} \cup DOMAIN listeners
         /\ p.pc \in {"connect", "identify", "announce", "unlock", "notify"}
         /\ p.good => p.id \in plugged
    /\ DOMAIN devices \subseteq Present
    /\ \A i \in DOMAIN devices : devices[i] \in Entries

\* The thread that is unlocking device i.
UnlockingBy(i) ==
    \E p \in probes : /\ p.id = i
                      /\ p.n = devices[i].by
                      /\ p.pc \in {"announce", "unlock"}

\* A BitBox02 shown as locked has the thread that is unlocking it: no path of
\* handle_locked_bitbox leaves a locked entry that nothing will ever change.
LockedIsBeingUnlocked ==
    \A i \in DOMAIN devices :
        Kind[i] = "bitbox" /\ devices[i].st \in {"locked", "unlocking"}
            => UnlockingBy(i)

Listening == listeners # << >> /\ ~shutdown

\* While a listener runs, the device map ends as the bus is: a device that
\* stays plugged in is in it for good, and one that stays unplugged out of it.
MapFollowsTheBus ==
    /\ \A i \in Ids \ Simulators :
         <>[](i \in plugged /\ Listening) => <>[](i \in DOMAIN devices)
    /\ \A i \in Ids :
         <>[](i \in Present \ plugged /\ Listening) => <>[](i \notin DOMAIN devices)

(***************************************************************************)
(* The service implements the device registry for its only consumer.        *)
(***************************************************************************)
Consumer == CHOOSE c \in Callers : TRUE

Registry == INSTANCE DeviceRegistry WITH
    Entries <- {"locked", "supported", "unsupported"},
    devices <- Shown(devices),
    owed <- Cardinality({p \in probes : p.pc \in {"announce", "notify"}}),
    queued <- Consumer \in queued,
    view <- view[Consumer]

\* Every change of the device map, by whatever thread, is followed by an
\* Update on the consumer's channel.
ImplementsRegistry == Registry!RegistrySpec
=============================================================================
