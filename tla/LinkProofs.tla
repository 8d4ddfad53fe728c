----------------------------- MODULE LinkProofs -----------------------------
(***************************************************************************)
(* What an answer that comes over a link stands for, on the two links the  *)
(* application keeps the state of itself: the encrypted link with a BitBox *)
(* and its pairing, for any number of devices, sessions, requests, failed  *)
(* exchanges and crashes; and the stream of a bitcoin peer, for any blocks,*)
(* transactions and calls.                                                 *)
(***************************************************************************)
EXTENDS BitBoxPairing, PeerClient, TLAPS

-----------------------------------------------------------------------------
(* The BitBox.                                                             *)

\* Where the thread of a device can be, and where once its handshake is made
\* and its link is not up yet.
Places == {"off", "unlocked", "create key", "write key", "handshake", "known",
           "unknown", "code", "reread", "create known", "write known", "paired"}
Opening == {"known", "unknown", "code", "reread", "create known", "write known"}

Sessions ==
    [at : Places, key : Nat, known : SUBSET Devices,
     copy : Nat, sent : Nat, recv : Nat, q : {"idle", "new", "poll"},
     ok : Nat, failed : Nat, faults : Nat]

FileTyped ==
    file \in [st : {"absent", "empty", "data"}, key : Nat, known : SUBSET Devices]
SessionsTyped == session \in [Devices -> Sessions]
DevicesTyped == device \in [Devices -> [app : Nat, got : Nat, sent : Nat, ran : Nat]]
UsedTyped == used \in [keys : Nat, sessions : Nat, faults : Nat]

PairingTyped == FileTyped /\ SessionsTyped /\ DevicesTyped /\ UsedTyped

\* No thread holds a copy of the configuration with a device nobody
\* confirmed, and a thread past the code belongs to a confirmed one.
CopiesAreConfirmed ==
    /\ file.known \subseteq confirmed
    /\ \A d \in Devices :
        /\ session[d].known \subseteq confirmed
        /\ session[d].at \in {"reread", "create known", "write known", "paired"}
              => d \in confirmed

\* The numbers of the two ends of a link, while no exchange of it failed.
Counters(s, v) ==
    /\ s.failed = 0
    /\ v.got = v.sent /\ v.ran = v.sent
    /\ s.ok = s.recv
    /\ s.q = "idle" => s.sent = v.got /\ s.recv = v.sent
    /\ s.q = "new" => s.sent = v.got + 1 /\ s.recv = v.sent
    /\ s.q = "poll" => s.sent = v.got /\ s.recv + 1 = v.sent

\* A link starts at zero on both sides, and its ends stay in step.
LinkOf(s, v) ==
    /\ s.at # "paired" =>
         /\ s.q = "idle" /\ s.faults = 0
         /\ s.failed = 0 /\ s.ok = 0 /\ s.sent = 0 /\ s.recv = 0
    /\ s.at \in Opening => v.got = 0 /\ v.sent = 0 /\ v.ran = 0
    /\ s.at = "paired" /\ s.faults = 0 => Counters(s, v)

LinkInStep == \A d \in Devices : LinkOf(session[d], device[d])

\* One step of the thread of device d.
Step(d) ==
    \/ Unlock(d) \/ ReadConfig(d) \/ CreateFile(d) \/ WriteFile(d)
    \/ Handshake(d) \/ ShowCode(d) \/ Confirm(d) \/ Remember(d)
    \/ Encrypt(d) \/ SendNew(d) \/ Retry(d) \/ ExchangeFails(d)
    \/ Unplug(d)

\* The members of Places, for the steps that go to one of them.
LEMMA PlacesAre ==
    /\ "off" \in Places /\ "unlocked" \in Places /\ "create key" \in Places
    /\ "write key" \in Places /\ "handshake" \in Places /\ "known" \in Places
    /\ "unknown" \in Places /\ "code" \in Places /\ "reread" \in Places
    /\ "create known" \in Places /\ "write known" \in Places
    /\ "paired" \in Places
BY DEF Places

\* The session of a device that is not connected.
LEMMA NoSessionTyped == NoSession \in Sessions
BY PlacesAre DEF NoSession, Sessions

\* The initial state has the types.
LEMMA PairingTypedInit == PairingInit => PairingTyped
BY NoSessionTyped
   DEF PairingInit, PairingTyped, FileTyped, SessionsTyped, DevicesTyped, UsedTyped

\* A thread goes from place to place, and its session ends.
LEMMA GoesTyped ==
    ASSUME SessionsTyped, NEW d \in Devices, NEW p \in Places, Goes(d, p)
    PROVE  SessionsTyped'
BY DEF SessionsTyped, Sessions, Goes

\* A session that is dropped is a session.
LEMMA DropsTyped ==
    ASSUME SessionsTyped, NEW d \in Devices, Drops(d)
    PROVE  SessionsTyped'
BY NoSessionTyped DEF SessionsTyped, Drops

\* A thread takes a key, or a copy of the configuration, on its way.
LEMMA KeyTyped ==
    ASSUME SessionsTyped, NEW d \in Devices, NEW p \in Places, NEW k \in Nat,
           session' = [session EXCEPT ![d].at = p, ![d].key = k]
    PROVE  SessionsTyped'
<1>1. ASSUME NEW s \in Sessions
      PROVE  [s EXCEPT !.at = p, !.key = k] \in Sessions
  BY Zenon DEF Sessions
<1>2. [session[d] EXCEPT !.at = p, !.key = k] \in Sessions
  BY <1>1, Zenon DEF SessionsTyped
<1> QED
  BY <1>2 DEF SessionsTyped

\* So is one that takes a new key.
LEMMA NewKeyTyped ==
    ASSUME SessionsTyped, NEW d \in Devices, NEW p \in Places, NEW k \in Nat,
           NEW c \in SUBSET Devices,
           session' = [session EXCEPT ![d].at = p, ![d].key = k, ![d].known = c]
    PROVE  SessionsTyped'
<1>1. ASSUME NEW s \in Sessions
      PROVE  [s EXCEPT !.at = p, !.key = k, !.known = c] \in Sessions
  BY Zenon DEF Sessions
<1>2. [session[d] EXCEPT !.at = p, !.key = k, !.known = c] \in Sessions
  BY <1>1, Zenon DEF SessionsTyped
<1> QED
  BY <1>2 DEF SessionsTyped

\* So is one that copies its key.
LEMMA CopyTyped ==
    ASSUME SessionsTyped, NEW d \in Devices, NEW p \in Places, NEW k \in Nat,
           NEW c \in SUBSET Devices,
           session' = [session EXCEPT ![d].at = p, ![d].known = c, ![d].copy = k]
    PROVE  SessionsTyped'
<1>1. ASSUME NEW s \in Sessions
      PROVE  [s EXCEPT !.at = p, !.known = c, !.copy = k] \in Sessions
  BY Zenon DEF Sessions
<1>2. [session[d] EXCEPT !.at = p, !.known = c, !.copy = k] \in Sessions
  BY <1>1, Zenon DEF SessionsTyped
<1> QED
  BY <1>2 DEF SessionsTyped

\* Every step of a device's thread keeps the types of the sessions.
LEMMA SessionsTypedNext ==
    ASSUME PairingTyped, NEW d \in Devices, Step(d)
    PROVE  SessionsTyped'
<1>0. SessionsTyped
  BY DEF PairingTyped
<1>1. CASE Unlock(d)
  BY <1>0, <1>1, GoesTyped, PlacesAre DEF Unlock
<1>2. CASE ReadConfig(d)
  <2>1. file.known \in SUBSET Devices /\ file.key \in Nat /\ used.keys + 1 \in Nat
    BY DEF PairingTyped, FileTyped, UsedTyped
  <2>2. CASE Drops(d)
    BY <1>0, <2>2, DropsTyped
  <2>3. CASE session' = [session EXCEPT ![d].at = "handshake", ![d].key = file.key]
    BY <1>0, <2>1, <2>3, PlacesAre, KeyTyped
  <2>4. CASE session' = [session EXCEPT ![d].at = "create key",
                            ![d].key = used.keys + 1, ![d].known = file.known]
    BY <1>0, <2>1, <2>4, PlacesAre, NewKeyTyped
  <2> QED
    BY <1>2, <2>2, <2>3, <2>4 DEF ReadConfig
<1>3. CASE CreateFile(d)
  BY <1>0, <1>3, GoesTyped, PlacesAre DEF CreateFile
<1>4. CASE WriteFile(d)
  BY <1>0, <1>4, GoesTyped, PlacesAre DEF WriteFile
<1>5. CASE Handshake(d)
  BY <1>0, <1>5, GoesTyped, PlacesAre DEF Handshake
<1>6. CASE ShowCode(d)
  BY <1>0, <1>6, GoesTyped, DropsTyped, PlacesAre DEF ShowCode
<1>7. CASE Confirm(d)
  BY <1>0, <1>7, GoesTyped, DropsTyped, PlacesAre DEF Confirm
<1>8. CASE Remember(d)
  <2>1. file.known \cup {d} \in SUBSET Devices /\ file.key \in Nat
    BY DEF PairingTyped, FileTyped
  <2>2. CASE Drops(d)
    BY <1>0, <2>2, DropsTyped
  <2>3. CASE session' = [session EXCEPT ![d].at = "create known",
                            ![d].known = file.known \cup {d}, ![d].copy = file.key]
    BY <1>0, <2>1, <2>3, PlacesAre, CopyTyped
  <2> QED
    BY <1>8, <2>2, <2>3 DEF Remember
<1>9. CASE Encrypt(d)
  BY <1>0, <1>9 DEF Encrypt, SessionsTyped, Sessions
<1>10. CASE SendNew(d)
  BY <1>0, <1>10 DEF SendNew, Answered, Fails, SessionsTyped, Sessions
<1>11. CASE Retry(d)
  BY <1>0, <1>11 DEF Retry, Answered, Fails, SessionsTyped, Sessions
<1>12. CASE ExchangeFails(d)
  BY <1>0, <1>12 DEF ExchangeFails, SessionsTyped, Sessions
<1>13. CASE Unplug(d)
  BY <1>0, <1>13, DropsTyped DEF Unplug
<1> QED
  BY <1>1, <1>2, <1>3, <1>4, <1>5, <1>6, <1>7, <1>8, <1>9, <1>10, <1>11, <1>12, <1>13
  DEF Step

\* ... and those of the file, the devices and the budgets.
LEMMA OthersTypedNext ==
    ASSUME PairingTyped, NEW d \in Devices, Step(d)
    PROVE  FileTyped' /\ DevicesTyped' /\ UsedTyped'
<1>0. FileTyped /\ SessionsTyped /\ DevicesTyped /\ UsedTyped /\ session[d] \in Sessions
  BY DEF PairingTyped, SessionsTyped
<1>1. CASE Unlock(d)
  BY <1>0, <1>1 DEF Unlock, FileTyped, DevicesTyped, UsedTyped
<1>2. CASE ReadConfig(d)
  <2>1. FileTyped' /\ DevicesTyped'
    BY <1>0, <1>2 DEF ReadConfig, FileTyped, DevicesTyped
  <2>2. used' = used \/ used' = [used EXCEPT !.keys = @ + 1]
    BY <1>2 DEF ReadConfig
  <2>3. UsedTyped'
    BY <1>0, <2>2 DEF UsedTyped
  <2> QED
    BY <2>1, <2>3
<1>3. CASE CreateFile(d)
  BY <1>0, <1>3 DEF CreateFile, FileTyped, DevicesTyped, UsedTyped
<1>4. CASE WriteFile(d)
  BY <1>0, <1>4 DEF WriteFile, Sessions, FileTyped, DevicesTyped, UsedTyped
<1>5. CASE Handshake(d)
  BY <1>0, <1>5, Zenon DEF Handshake, FileTyped, DevicesTyped, UsedTyped
<1>6. CASE ShowCode(d)
  BY <1>0, <1>6 DEF ShowCode, FileTyped, DevicesTyped, UsedTyped
<1>7. CASE Confirm(d)
  BY <1>0, <1>7 DEF Confirm, Sessions, FileTyped, DevicesTyped, UsedTyped
<1>8. CASE Remember(d)
  BY <1>0, <1>8 DEF Remember, FileTyped, DevicesTyped, UsedTyped
<1>9. CASE Encrypt(d)
  BY <1>0, <1>9 DEF Encrypt, FileTyped, DevicesTyped, UsedTyped
<1>10. CASE SendNew(d)
  BY <1>0, <1>10 DEF SendNew, Ran, FileTyped, DevicesTyped, UsedTyped
<1>11. CASE Retry(d)
  BY <1>0, <1>11 DEF Retry, FileTyped, DevicesTyped, UsedTyped
<1>12. CASE ExchangeFails(d)
  BY <1>0, <1>12 DEF ExchangeFails, FileTyped, DevicesTyped, UsedTyped
<1>13. CASE Unplug(d)
  BY <1>0, <1>13 DEF Unplug, FileTyped, DevicesTyped, UsedTyped
<1> QED
  BY <1>1, <1>2, <1>3, <1>4, <1>5, <1>6, <1>7, <1>8, <1>9, <1>10, <1>11, <1>12, <1>13
  DEF Step

\* Every step keeps the types.
LEMMA PairingTypedNext == PairingTyped /\ [PairingNext]_vars => PairingTyped'
<1> SUFFICES ASSUME PairingTyped, [PairingNext]_vars PROVE PairingTyped'
  OBVIOUS
<1>1. CASE UNCHANGED vars
  BY <1>1
  DEF vars, PairingTyped, FileTyped, SessionsTyped, DevicesTyped, UsedTyped
<1>2. CASE Crash
  BY <1>2, NoSessionTyped
  DEF Crash, PairingTyped, FileTyped, SessionsTyped, DevicesTyped, UsedTyped
<1>3. ASSUME NEW d \in Devices, Step(d)
      PROVE  PairingTyped'
  BY <1>3, SessionsTypedNext, OthersTypedNext DEF PairingTyped
<1> QED
  BY <1>1, <1>2, <1>3 DEF PairingNext, Step

-----------------------------------------------------------------------------
\* A step of a device's thread leaves the sessions, and the links, of the
\* other devices alone.
LEMMA OthersStay ==
    ASSUME PairingTyped, NEW d \in Devices, Step(d), NEW e \in Devices, e # d
    PROVE  session'[e] = session[e] /\ device'[e] = device[e]
<1>1. session'[e] = session[e]
  BY DEF PairingTyped, SessionsTyped, Step, Goes, Drops, Fails, Answered, Unlock,
         ReadConfig, CreateFile, WriteFile, Handshake, ShowCode, Confirm, Remember,
         Encrypt, SendNew, Retry, ExchangeFails, Unplug
<1>2. device'[e] = device[e]
  BY DEF PairingTyped, DevicesTyped, Step, Ran, Unlock,
         ReadConfig, CreateFile, WriteFile, Handshake, ShowCode, Confirm, Remember,
         Encrypt, SendNew, Retry, ExchangeFails, Unplug
<1> QED
  BY <1>1, <1>2

\* A thread that only moves on keeps its link and its copy of the
\* configuration.
SameLink(s, t) ==
    /\ t.q = s.q /\ t.faults = s.faults /\ t.failed = s.failed
    /\ t.ok = s.ok /\ t.sent = s.sent /\ t.recv = s.recv

\* A step to another place changes neither the link nor the known keys.
LEMMA GoesMoves ==
    ASSUME SessionsTyped, NEW d \in Devices, NEW p, Goes(d, p)
    PROVE  /\ session'[d].at = p /\ SameLink(session[d], session'[d])
           /\ session'[d].known = session[d].known
BY DEF SessionsTyped, Sessions, Goes, SameLink

\* So does one that takes a key or a copy on its way.
TakesNewKey(d, p, k, c) ==
    session' = [session EXCEPT ![d].at = p, ![d].key = k, ![d].known = c]
TakesCopy(d, p, c, k) ==
    session' = [session EXCEPT ![d].at = p, ![d].known = c, ![d].copy = k]

\* Nor does taking a key.
LEMMA KeyMoves ==
    ASSUME SessionsTyped, NEW d \in Devices, NEW p, NEW k,
           session' = [session EXCEPT ![d].at = p, ![d].key = k]
    PROVE  /\ session'[d].at = p /\ SameLink(session[d], session'[d])
           /\ session'[d].known = session[d].known
BY DEF SessionsTyped, Sessions, SameLink

\* Taking a new key with its confirmations leaves the link alone.
LEMMA NewKeyMoves ==
    ASSUME SessionsTyped, NEW d \in Devices, NEW p, NEW k, NEW c,
           TakesNewKey(d, p, k, c)
    PROVE  /\ session'[d].at = p /\ SameLink(session[d], session'[d])
           /\ session'[d].known = c
BY DEF SessionsTyped, Sessions, SameLink, TakesNewKey

\* So does saving a copy of the key.
LEMMA CopyMoves ==
    ASSUME SessionsTyped, NEW d \in Devices, NEW p, NEW k, NEW c,
           TakesCopy(d, p, c, k)
    PROVE  /\ session'[d].at = p /\ SameLink(session[d], session'[d])
           /\ session'[d].known = c
BY DEF SessionsTyped, Sessions, SameLink, TakesCopy

\* The link of a device that is not connected.
LEMMA DropsLink ==
    ASSUME SessionsTyped, NEW d \in Devices, Drops(d), NEW v
    PROVE  LinkOf(session'[d], v)
BY DEF SessionsTyped, Drops, LinkOf, NoSession, Opening

\* A thread on its way to a handshake, or past one, whose link is not up.
LEMMA MovesLink ==
    ASSUME NEW s, NEW t, NEW v, NEW w, LinkOf(s, v), SameLink(s, t), s.at # "paired",
           t.at \in Opening \cup {"paired"} =>
              w.got = 0 /\ w.sent = 0 /\ w.ran = 0
    PROVE  LinkOf(t, w)
BY DEF LinkOf, SameLink, Counters

\* What an answer that cannot be decrypted, and one that can, do to the
\* host's end of the link.
LEMMA FailsLink ==
    ASSUME SessionsTyped, NEW d \in Devices, Fails(d)
    PROVE  /\ session'[d].q = "idle" /\ session'[d].at = session[d].at
           /\ session'[d].faults = session[d].faults
           /\ session'[d].known = session[d].known
BY DEF SessionsTyped, Sessions, Fails

\* The answer with the next nonce is counted once.
LEMMA AnsweredLink ==
    ASSUME SessionsTyped, NEW d \in Devices, NEW n, Answered(d, n)
    PROVE  /\ session'[d].q = "idle" /\ session'[d].at = session[d].at
           /\ session'[d].faults = session[d].faults
           /\ session'[d].known = session[d].known
           /\ n = session[d].recv + 1 =>
                /\ session'[d].recv = session[d].recv + 1
                /\ session'[d].ok = session[d].ok + 1
                /\ session'[d].failed = session[d].failed
                /\ session'[d].sent = session[d].sent
<1>1. CASE n # session[d].recv + 1
  BY <1>1, FailsLink DEF Answered
<1>2. CASE n = session[d].recv + 1
  BY <1>2 DEF Answered, SessionsTyped, Sessions
<1> QED
  BY <1>1, <1>2

\* A step of a device's thread keeps the link of that device in step.
LEMMA LinkOfNext ==
    ASSUME PairingTyped, NEW d \in Devices, Step(d), LinkOf(session[d], device[d])
    PROVE  LinkOf(session'[d], device'[d])
<1> DEFINE s == session[d]
           v == device[d]
           t == session'[d]
           w == device'[d]
<1>0. /\ SessionsTyped /\ DevicesTyped
      /\ s \in Sessions /\ session \in [Devices -> Sessions]
      /\ v \in [app : Nat, got : Nat, sent : Nat, ran : Nat]
      /\ device \in [Devices -> [app : Nat, got : Nat, sent : Nat, ran : Nat]]
  BY DEF PairingTyped, SessionsTyped, DevicesTyped
<1>1. CASE Drops(d)
  BY <1>0, <1>1, DropsLink
<1>2. CASE Unlock(d)
  <2>1. s.at = "off" /\ t.at = "unlocked" /\ SameLink(s, t)
    BY <1>0, <1>2, GoesMoves DEF Unlock, At
  <2> QED
    BY <2>1, MovesLink DEF Opening
<1>3. CASE ReadConfig(d)
  <2>1. CASE session' = [session EXCEPT ![d].at = "handshake", ![d].key = file.key]
    <3>1. s.at = "unlocked" /\ t.at = "handshake" /\ SameLink(s, t)
      BY <1>0, <1>3, <2>1, KeyMoves DEF ReadConfig, At
    <3> QED
      BY <3>1, MovesLink DEF Opening
  <2>2. CASE session' = [session EXCEPT ![d].at = "create key",
                            ![d].key = used.keys + 1, ![d].known = file.known]
    <3>1. s.at = "unlocked"
      BY <1>3 DEF ReadConfig, At
    <3>2. t.at = "create key" /\ SameLink(s, t)
      BY <1>0, <2>2, NewKeyMoves, Zenon DEF TakesNewKey
    <3> QED
      BY <3>1, <3>2, MovesLink DEF Opening
  <2> QED
    BY <1>1, <1>3, <2>1, <2>2 DEF ReadConfig
<1>4. CASE CreateFile(d)
  <2>1. /\ SameLink(s, t) /\ w = v
        /\ \/ s.at = "create key" /\ t.at = "write key"
           \/ s.at = "create known" /\ t.at = "write known"
    BY <1>0, <1>4, GoesMoves DEF CreateFile, At
  <2>2. t.at = "write known" => v.got = 0 /\ v.sent = 0 /\ v.ran = 0
    BY <2>1 DEF LinkOf, Opening
  <2> QED
    BY <2>1, <2>2, MovesLink DEF Opening
<1>5. CASE WriteFile(d)
  <2>1. /\ SameLink(s, t) /\ w = v
        /\ \/ s.at = "write key" /\ t.at = "handshake"
           \/ s.at = "write known" /\ t.at = "paired"
    BY <1>0, <1>5, GoesMoves DEF WriteFile, At
  <2>2. t.at = "paired" => v.got = 0 /\ v.sent = 0 /\ v.ran = 0
    BY <2>1 DEF LinkOf, Opening
  <2> QED
    BY <2>1, <2>2, MovesLink DEF Opening
<1>6. CASE Handshake(d)
  <2>1. s.at = "handshake" /\ SameLink(s, t)
    BY <1>0, <1>6, GoesMoves DEF Handshake, At
  <2>2. w.got = 0 /\ w.sent = 0 /\ w.ran = 0
    BY <1>0, <1>6 DEF Handshake
  <2> QED
    BY <2>1, <2>2, MovesLink
<1>7. CASE ShowCode(d) /\ ~Drops(d)
  <2>1. (s.at = "known" \/ s.at = "unknown") /\ SameLink(s, t) /\ w = v
    BY <1>0, <1>7, GoesMoves DEF ShowCode, At
  <2>2. v.got = 0 /\ v.sent = 0 /\ v.ran = 0
    BY <2>1 DEF LinkOf, Opening
  <2> QED
    BY <2>1, <2>2, MovesLink
<1>8. CASE Confirm(d) /\ ~Drops(d)
  <2>1. s.at = "code" /\ SameLink(s, t)
    BY <1>0, <1>8, GoesMoves DEF Confirm, At
  <2>2. v.got = 0 /\ v.sent = 0 /\ v.ran = 0
    BY <2>1 DEF LinkOf, Opening
  <2>3. w.got = v.got /\ w.sent = v.sent /\ w.ran = v.ran
    BY <1>0, <1>8 DEF Confirm
  <2> QED
    BY <2>1, <2>2, <2>3, MovesLink
<1>9. CASE Remember(d) /\ ~Drops(d)
  <2>1. s.at = "reread" /\ SameLink(s, t) /\ w = v
    <3>1. /\ s.at = "reread" /\ device' = device
          /\ session' = [session EXCEPT ![d].at = "create known",
                           ![d].known = file.known \cup {d}, ![d].copy = file.key]
      BY <1>9 DEF Remember, At
    <3>2. SameLink(s, t)
      BY <1>0, <3>1, CopyMoves, Zenon DEF TakesCopy
    <3> QED
      BY <3>1, <3>2
  <2>2. v.got = 0 /\ v.sent = 0 /\ v.ran = 0
    BY <2>1 DEF LinkOf, Opening
  <2> QED
    BY <2>1, <2>2, MovesLink
<1>10. CASE Encrypt(d)
  BY <1>0, <1>10 DEF Encrypt, At, LinkOf, Opening, Counters, Sessions
<1>11. CASE SendNew(d)
  <2>1. s.q = "new" /\ s.at = "paired"
    BY <1>11 DEF SendNew, LinkOf
  <2>2. CASE ~Runs(d)
    <3>1. Fails(d) /\ w = v
      BY <1>11, <2>2 DEF SendNew
    <3>2. s.faults = 0 => FALSE
      BY <1>0, <2>1, <2>2 DEF Runs, LinkOf, Counters
    <3> QED
      BY <1>0, <2>1, <3>1, <3>2, FailsLink DEF LinkOf, Opening
  <2>3. CASE Runs(d)
    <3>1. w.got = v.got + 1 /\ w.sent = v.sent + 1 /\ w.ran = v.ran + 1
      BY <1>0, <1>11, <2>3 DEF SendNew, Ran
    <3>2. CASE session' = [session EXCEPT ![d].q = "poll"]
      <4>1. /\ t.q = "poll" /\ t.at = s.at /\ t.faults = s.faults /\ t.failed = s.failed
            /\ t.ok = s.ok /\ t.sent = s.sent /\ t.recv = s.recv
        BY <1>0, <3>2 DEF Sessions
      <4> QED
        BY <1>0, <2>1, <3>1, <4>1 DEF LinkOf, Opening, Counters, Sessions
    <3>3. CASE Answered(d, v.sent + 1)
      <4>1. s.faults = 0 => v.sent + 1 = s.recv + 1
        BY <2>1 DEF LinkOf, Counters
      <4>2. /\ t.q = "idle" /\ t.at = "paired" /\ t.faults = s.faults
            /\ s.faults = 0 =>
                 /\ t.recv = s.recv + 1 /\ t.ok = s.ok + 1
                 /\ t.failed = s.failed /\ t.sent = s.sent
        BY <1>0, <2>1, <3>3, <4>1, AnsweredLink
      <4> QED
        BY <2>1, <3>1, <4>2 DEF LinkOf, Opening, Counters
    <3> QED
      BY <1>11, <2>3, <3>2, <3>3 DEF SendNew
  <2> QED
    BY <2>2, <2>3
<1>12. CASE Retry(d)
  <2>1. s.q = "poll" /\ s.at = "paired" /\ w = v /\ Answered(d, v.sent)
    BY <1>12 DEF Retry, LinkOf
  <2> QED
    <3>1. s.faults = 0 => v.sent = s.recv + 1
      BY <2>1 DEF LinkOf, Counters
    <3>2. /\ t.q = "idle" /\ t.at = "paired" /\ t.faults = s.faults
          /\ s.faults = 0 =>
               /\ t.recv = s.recv + 1 /\ t.ok = s.ok + 1
               /\ t.failed = s.failed /\ t.sent = s.sent
      BY <1>0, <2>1, <3>1, AnsweredLink
    <3> QED
      BY <2>1, <3>2 DEF LinkOf, Opening, Counters
<1>13. CASE ExchangeFails(d)
  <2>1. s.at = "paired" /\ w = v
    BY <1>13 DEF ExchangeFails, LinkOf
  <2>2. t.at = s.at /\ t.faults = s.faults + 1
    BY <1>0, <1>13 DEF ExchangeFails, Sessions
  <2>3. t.faults # 0
    BY <1>0, <2>2 DEF Sessions
  <2> QED
    BY <2>1, <2>2, <2>3 DEF LinkOf, Opening
<1>14. CASE Unplug(d)
  BY <1>1, <1>14 DEF Unplug
<1> QED
  BY <1>1, <1>2, <1>3, <1>4, <1>5, <1>6, <1>7, <1>8, <1>9, <1>10, <1>11, <1>12, <1>13, <1>14
  DEF Step

\* Every step keeps every link in step.
LEMMA LinkInStepNext ==
    PairingTyped /\ LinkInStep /\ [PairingNext]_vars => LinkInStep'
<1> SUFFICES ASSUME PairingTyped, LinkInStep, [PairingNext]_vars PROVE LinkInStep'
  OBVIOUS
<1>1. CASE UNCHANGED vars
  BY <1>1 DEF vars, LinkInStep
<1>2. CASE Crash
  BY <1>2 DEF Crash, LinkInStep, LinkOf, NoSession, Opening
<1>3. ASSUME NEW d \in Devices, Step(d) PROVE LinkInStep'
  <2> SUFFICES ASSUME NEW e \in Devices PROVE LinkOf(session'[e], device'[e])
    BY DEF LinkInStep
  <2>1. CASE e = d
    BY <1>3, <2>1, LinkOfNext DEF LinkInStep
  <2>2. CASE e # d
    BY <1>3, <2>2, OthersStay DEF LinkInStep
  <2> QED
    BY <2>1, <2>2
<1> QED
  BY <1>1, <1>2, <1>3 DEF PairingNext, Step

\* No step puts a device nobody confirmed into the file, a copy of it, or
\* past the code.
LEMMA CopiesAreConfirmedNext ==
    PairingTyped /\ CopiesAreConfirmed /\ [PairingNext]_vars => CopiesAreConfirmed'
<1> SUFFICES ASSUME PairingTyped, CopiesAreConfirmed, [PairingNext]_vars
             PROVE  CopiesAreConfirmed'
  OBVIOUS
<1>1. CASE UNCHANGED vars
  BY <1>1 DEF vars, CopiesAreConfirmed
<1>2. CASE Crash
  BY <1>2 DEF Crash, CopiesAreConfirmed, NoSession
<1>3. ASSUME NEW d \in Devices, Step(d) PROVE CopiesAreConfirmed'
  <2> DEFINE C(e) == /\ session'[e].known \subseteq confirmed'
                     /\ session'[e].at \in {"reread", "create known", "write known", "paired"}
                           => e \in confirmed'
  <2>0. /\ session[d] \in Sessions /\ session \in [Devices -> Sessions]
        /\ SessionsTyped
    BY DEF PairingTyped, SessionsTyped
  <2>t. SessionsTyped /\ d \in Devices
    BY <1>3, <2>0
  <2>1. confirmed \subseteq confirmed'
    BY <1>3 DEF Step, Unlock, ReadConfig, CreateFile, WriteFile, Handshake, ShowCode,
                Confirm, Remember, Encrypt, SendNew, Retry, ExchangeFails, Unplug
  <2>2. ASSUME NEW e \in Devices, e # d PROVE C(e)
    BY <1>3, <2>1, <2>2, OthersStay DEF CopiesAreConfirmed
  <2>3. file'.known \subseteq confirmed'
    <3>1. CASE CreateFile(d)
      BY <2>1, <3>1 DEF CreateFile, PairingTyped, FileTyped, CopiesAreConfirmed
    <3>2. CASE WriteFile(d)
      BY <2>1, <3>2 DEF WriteFile, CopiesAreConfirmed
    <3>3. CASE file' = file
      BY <2>1, <3>3 DEF CopiesAreConfirmed
    <3> QED
      BY <1>3, <3>1, <3>2, <3>3 DEF Step, Unlock, ReadConfig, Handshake, ShowCode,
         Confirm, Remember, Encrypt, SendNew, Retry, ExchangeFails, Unplug
  <2>4. C(d)
    <3>1. CASE Drops(d)
      BY <2>0, <3>1 DEF Drops, NoSession
    <3>k. ASSUME session'[d].known = session[d].known,
                 session'[d].at \in {"reread", "create known", "write known", "paired"}
                   => \/ session[d].at \in {"reread", "create known", "write known", "paired"}
                      \/ d \in confirmed'
          PROVE  C(d)
      BY <2>1, <3>k DEF CopiesAreConfirmed
    <3>2. CASE Unlock(d)
      BY <2>0, <3>2, <3>k, GoesMoves DEF Unlock
    <3>3. CASE CreateFile(d)
      BY <2>0, <3>3, <3>k, GoesMoves DEF CreateFile, At
    <3>4. CASE WriteFile(d)
      BY <2>0, <3>4, <3>k, GoesMoves DEF WriteFile, At
    <3>5. CASE Handshake(d)
      BY <2>0, <3>5, <3>k, GoesMoves DEF Handshake
    <3>6. CASE ReadConfig(d)
      <4>1. CASE session' = [session EXCEPT ![d].at = "handshake", ![d].key = file.key]
        BY <2>0, <4>1, <3>k, KeyMoves
      <4>2. CASE session' = [session EXCEPT ![d].at = "create key",
                                ![d].key = used.keys + 1, ![d].known = file.known]
        <5>1. TakesNewKey(d, "create key", used.keys + 1, file.known)
          BY <4>2 DEF TakesNewKey
        <5>2. session'[d].at = "create key" /\ session'[d].known = file.known
          BY <2>t, <5>1, NewKeyMoves
        <5> QED
          BY <2>1, <5>2 DEF CopiesAreConfirmed
      <4> QED
        BY <3>1, <3>6, <4>1, <4>2 DEF ReadConfig
    <3>7. CASE ShowCode(d) /\ ~Drops(d)
      <4>1. session'[d].known = session[d].known
        BY <2>0, <3>7, GoesMoves DEF ShowCode
      <4>2. CASE session'[d].at = "code"
        BY <3>k, <4>1, <4>2
      <4>3. CASE session'[d].at = "paired"
        <5>1. d \in file.known
          BY <2>0, <3>7, <4>3, GoesMoves DEF ShowCode
        <5>2. d \in confirmed'
          BY <2>1, <5>1 DEF CopiesAreConfirmed
        <5> QED
          BY <3>k, <4>1, <5>2
      <4> QED
        BY <2>0, <3>7, <4>2, <4>3, GoesMoves DEF ShowCode
    <3>8. CASE Confirm(d) /\ ~Drops(d)
      <4>1. d \in confirmed' /\ session'[d].known = session[d].known
        BY <2>0, <3>8, GoesMoves DEF Confirm
      <4> QED
        BY <3>k, <4>1
    <3>9. CASE Remember(d) /\ ~Drops(d)
      <4>1. /\ session[d].at = "reread"
            /\ session' = [session EXCEPT ![d].at = "create known",
                             ![d].known = file.known \cup {d}, ![d].copy = file.key]
        BY <3>9 DEF Remember, At
      <4>2. session'[d].at = "create known" /\ session'[d].known = file.known \cup {d}
        <5>1. PICK c : c = file.known \cup {d}
          BY Zenon
        <5>2. TakesCopy(d, "create known", c, file.key)
          BY <4>1, <5>1 DEF TakesCopy
        <5>3. session'[d].at = "create known" /\ session'[d].known = c
          BY <2>t, <5>2, CopyMoves
        <5> QED
          BY <5>1, <5>3
      <4>3. d \in confirmed
        BY <4>1 DEF CopiesAreConfirmed
      <4> QED
        <5>1. file.known \subseteq confirmed
          BY DEF CopiesAreConfirmed
        <5>2. file.known \cup {d} \subseteq confirmed'
          BY <2>1, <4>3, <5>1
        <5> QED
          BY <2>1, <4>2, <4>3, <5>2
    <3>10. CASE Encrypt(d) \/ SendNew(d) \/ Retry(d) \/ ExchangeFails(d)
      <4>1. CASE Fails(d)
        BY <2>0, <3>k, <4>1, FailsLink
      <4>2. ASSUME NEW n, Answered(d, n) PROVE C(d)
        BY <2>0, <3>k, <4>2, AnsweredLink
      <4>3. CASE session' = [session EXCEPT ![d].q = "poll"]
        BY <2>0, <3>k, <4>3 DEF Sessions
      <4>4. CASE Encrypt(d)
        BY <2>0, <3>k, <4>4 DEF Encrypt, Sessions
      <4>5. CASE ExchangeFails(d)
        BY <2>0, <3>k, <4>5 DEF ExchangeFails, Sessions
      <4> QED
        BY <3>10, <4>1, <4>2, <4>3, <4>4, <4>5 DEF SendNew, Retry
    <3>11. CASE Unplug(d)
      BY <3>1, <3>11 DEF Unplug
    <3> QED
      BY <1>3, <3>1, <3>2, <3>3, <3>4, <3>5, <3>6, <3>7, <3>8, <3>9, <3>10, <3>11 DEF Step
  <2> QED
    BY <2>2, <2>3, <2>4 DEF CopiesAreConfirmed
<1> QED
  BY <1>1, <1>2, <1>3 DEF PairingNext, Step

-----------------------------------------------------------------------------
\* A device is paired, and kept in the configuration, only after the user
\* confirmed its code, however the threads of the devices, their reads and
\* writes of bitbox.json, unplugs and crashes interleave.
THEOREM PairedWasConfirmed == PairingSpec => []PairedIsConfirmed
<1>1. PairingInit => CopiesAreConfirmed
  <2> SUFFICES ASSUME PairingInit PROVE CopiesAreConfirmed
    OBVIOUS
  <2>1. file.known = {} /\ \A d \in Devices : session[d] = NoSession
    BY DEF PairingInit
  <2>2. NoSession.known = {} /\ NoSession.at = "off"
    BY DEF NoSession
  <2> QED
    BY <2>1, <2>2 DEF CopiesAreConfirmed
<1>2. CopiesAreConfirmed => PairedIsConfirmed
  BY DEF CopiesAreConfirmed, PairedIsConfirmed, At
<1> QED
  BY <1>1, <1>2, PairingTypedInit, PairingTypedNext, CopiesAreConfirmedNext, PTL
  DEF PairingSpec

\* The counters of the two ends of a session's link stay in step as long as
\* none of its exchanges failed: every request that ended was answered, and
\* the device ran it once.
THEOREM QuietLinkAnswers == PairingSpec => []QuietLinkServes
<1>1. PairingInit => LinkInStep
  <2>1. ASSUME NEW v PROVE LinkOf(NoSession, v)
    BY DEF LinkOf, NoSession, Opening
  <2> QED
    BY <2>1 DEF PairingInit, LinkInStep
<1>2. PairingTyped /\ LinkInStep => QuietLinkServes
  BY DEF LinkInStep, LinkOf, Counters, QuietLinkServes, At, PairingTyped, SessionsTyped,
         DevicesTyped, Sessions
<1> QED
  BY <1>1, <1>2, PairingTypedInit, PairingTypedNext, LinkInStepNext, PTL
  DEF PairingSpec

-----------------------------------------------------------------------------
(* The peer.  The stream is only appended to, and a call was written to it   *)
(* before it waits.                                                          *)

Words == {"none", "version", "verack", "ping", "pong", "garbage", "getblock", "block",
          "getaddr", "addr", "inv", "getdata", "tx"}
Whats == {0, 1, 2} \cup Blocks \cup Txs
Msgs == [kind : Words, what : Whats]
Calls == [kind : Words, what : Whats, at : Nat]

PeerInv ==
    /\ wire \in Seq(Msgs) /\ channel \in Seq(Msgs) /\ toPeer \in Seq(Msgs)
    /\ call \in Calls /\ call.at <= Len(toPeer)
    /\ BroadcastWasAskedFor

\* What a step writes, and the rest of the step when it writes w.
Writes(w) ==
    /\ toPeer' = toPeer \o w
    /\ wire' \in Seq(Msgs) /\ channel' \in Seq(Msgs)
    /\ \/ call' = call
       \/ call' \in Calls /\ call'.at <= Len(toPeer) + Len(w)

\* The words and the data that the messages of the client are made of.
LEMMA Vocabulary ==
    /\ "none" \in Words /\ "version" \in Words /\ "verack" \in Words
    /\ "ping" \in Words /\ "pong" \in Words /\ "garbage" \in Words
    /\ "getblock" \in Words /\ "block" \in Words /\ "getaddr" \in Words
    /\ "addr" \in Words /\ "inv" \in Words /\ "getdata" \in Words /\ "tx" \in Words
    /\ 0 \in Whats /\ {0, 1, 2} \subseteq Whats /\ Blocks \subseteq Whats /\ Txs \subseteq Whats
BY DEF Words, Whats

\* No call is a call.
LEMMA IdleTyped == Idle \in Calls /\ Idle.at = 0
BY Vocabulary DEF Idle, Calls

\* A message is of the messages.
LEMMA MsgTyped ==
    ASSUME NEW k \in Words, NEW w \in Whats PROVE Msg(k, w) \in Msgs
BY DEF Msg, Msgs

\* A step that writes at the end of the stream and ends no call keeps PeerInv.
LEMMA WritesKeep ==
    ASSUME PeerInv, NEW w \in Seq(Msgs), Writes(w), UNCHANGED done
    PROVE  PeerInv'
<1>1. toPeer' = toPeer \o w /\ toPeer \in Seq(Msgs)
  BY Zenon DEF Writes, PeerInv
<1>2. /\ toPeer' \in Seq(Msgs) /\ Len(toPeer') = Len(toPeer) + Len(w)
      /\ Len(toPeer) \in Nat /\ Len(w) \in Nat
      /\ \A i \in DOMAIN toPeer : i \in DOMAIN toPeer' /\ toPeer'[i] = toPeer[i]
  BY <1>1
<1>3. BroadcastWasAskedFor'
  BY <1>2, Zenon DEF PeerInv, BroadcastWasAskedFor
<1>4. call' \in Calls /\ call'.at <= Len(toPeer')
  <2>1. CASE call' = call
    BY <1>2, <2>1 DEF PeerInv, Calls
  <2>2. CASE call' \in Calls /\ call'.at <= Len(toPeer) + Len(w)
    BY <1>2, <2>2
  <2> QED
    BY <2>1, <2>2, Zenon DEF Writes
<1> QED
  BY <1>2, <1>3, <1>4, Zenon DEF PeerInv, Writes

\* A step that writes nothing and starts or ends no call keeps PeerInv.
LEMMA SilentKeeps ==
    ASSUME PeerInv, wire' \in Seq(Msgs), channel' \in Seq(Msgs),
           UNCHANGED <<toPeer, call, done>>
    PROVE  PeerInv'
<1>1. Writes(<<>>)
  BY DEF Writes, PeerInv
<1>2. <<>> \in Seq(Msgs)
  OBVIOUS
<1> QED
  BY <1>1, <1>2, WritesKeep, Zenon

\* A call is written to the stream before it waits.
LEMMA RequestKeeps ==
    ASSUME PeerInv, NEW k \in Words, NEW w \in Whats, Request(k, w)
    PROVE  PeerInv'
<1>1. PICK m \in Msgs : m = Msg(k, w)
  BY MsgTyped, Zenon
<1>2. /\ toPeer' = Append(toPeer, m) /\ UNCHANGED <<wire, channel, done>>
      /\ call' = [kind |-> k, what |-> w, at |-> Len(toPeer) + 1]
  BY <1>1, Zenon DEF Request
<1>3. <<m>> \in Seq(Msgs) /\ Len(<<m>>) = 1
  OBVIOUS
<1>4. toPeer \in Seq(Msgs) /\ Len(toPeer) \in Nat
  BY DEF PeerInv
<1>5. toPeer' = toPeer \o <<m>>
  BY <1>2, <1>4
<1>6. call' \in Calls /\ call'.at = Len(toPeer) + 1
  BY <1>2, <1>4 DEF Calls
<1>7. Writes(<<m>>)
  BY <1>2, <1>3, <1>4, <1>5, <1>6 DEF Writes, PeerInv
<1> QED
  BY <1>2, <1>3, <1>7, WritesKeep, Zenon

\* The verack that ends the handshake.
LEMMA HandshakeKeeps ==
    ASSUME PeerInv, NEW h, PeerHandshake(h) PROVE PeerInv'
<1>1. PICK m \in Msgs : m = Msg("verack", 0)
  BY MsgTyped, Vocabulary, Zenon
<1>2. /\ toPeer' = Append(toPeer, m) \/ UNCHANGED toPeer
      /\ UNCHANGED <<wire, channel, call, done>>
  BY <1>1, Zenon DEF PeerHandshake
<1>3. CASE UNCHANGED toPeer
  BY <1>2, <1>3, SilentKeeps DEF PeerInv
<1>4. CASE toPeer' = Append(toPeer, m)
  <2>1. <<m>> \in Seq(Msgs)
    OBVIOUS
  <2>2. toPeer' = toPeer \o <<m>>
    <3>1. toPeer \in Seq(Msgs)
      BY Zenon DEF PeerInv
    <3> QED
      BY <1>4, <3>1
  <2>3. Writes(<<m>>)
    BY <1>2, <2>2, Zenon DEF Writes, PeerInv
  <2> QED
    BY <1>2, <2>1, <2>3, WritesKeep, Zenon
<1> QED
  BY <1>2, <1>3, <1>4, Zenon

\* The listener answers a ping and hands on what a call may wait for.
LEMMA ListenKeeps ==
    ASSUME PeerInv, Listen PROVE PeerInv'
<1>1. PICK m : m = Head(wire)
  BY Zenon
<1>2. /\ wire # <<>> /\ wire' = Tail(wire) /\ toPeer' = toPeer \o Reply(m)
      /\ channel' = channel \o HandedOn(m) /\ UNCHANGED <<call, done>>
  BY <1>1, Zenon DEF Listen
<1>3. m \in Msgs /\ wire' \in Seq(Msgs)
  BY <1>1, <1>2 DEF PeerInv
<1>4. Reply(m) \in Seq(Msgs)
  <2>1. Msg("pong", m.what) \in Msgs
    <3>1. m.what \in Whats
      BY <1>3 DEF Msgs
    <3> QED
      BY <3>1, MsgTyped, Vocabulary, Zenon
  <2> QED
    BY <2>1 DEF Reply
<1>5. HandedOn(m) \in Seq(Msgs)
  BY <1>3 DEF HandedOn
<1>6. channel' \in Seq(Msgs)
  BY <1>2, <1>5 DEF PeerInv
<1>7. Writes(Reply(m))
  BY <1>2, <1>3, <1>6, Zenon DEF Writes
<1> QED
  BY <1>2, <1>4, <1>7, WritesKeep, Zenon

\* A broadcast whose transaction was asked for hands it over as it returns.
LEMMA TakeKeeps ==
    ASSUME PeerInv, Take PROVE PeerInv'
<1>1. PICK m : m = Head(channel)
  BY Zenon
<1>2. /\ channel # <<>> /\ channel' = Tail(channel) /\ UNCHANGED wire
      /\ IF Awaits(call, m)
         THEN /\ Return(m)
              /\ toPeer' = IF call.kind = "inv"
                           THEN Append(toPeer, Msg("tx", call.what)) ELSE toPeer
         ELSE UNCHANGED <<call, done, toPeer>>
  BY <1>1, Zenon DEF Take
<1>3. m \in Msgs /\ channel' \in Seq(Msgs)
  BY <1>1, <1>2 DEF PeerInv
<1>4. wire' \in Seq(Msgs) /\ toPeer \in Seq(Msgs) /\ call \in Calls
      /\ call.at <= Len(toPeer) /\ Len(toPeer) \in Nat
  BY <1>2 DEF PeerInv
<1>5. CASE ~Awaits(call, m)
  BY <1>2, <1>3, <1>4, <1>5, SilentKeeps, Zenon
<1>6. CASE Awaits(call, m)
  <2>1. done' = [call |-> call, result |-> m] /\ call' = Idle
    BY <1>2, <1>6, Zenon DEF Return
  <2>2. done'.call = call /\ done'.result = m
    BY <2>1
  <2>3. call' \in Calls /\ call'.at = 0
    BY <2>1, IdleTyped, Zenon
  <2>4. CASE call.kind # "inv"
    <3>1. toPeer' = toPeer
      BY <1>2, <1>6, <2>4, Zenon
    <3>2. BroadcastWasAskedFor'
      BY <2>2, <2>4, Zenon DEF BroadcastWasAskedFor
    <3>3. call'.at <= Len(toPeer')
      BY <1>4, <2>3, <3>1
    <3> QED
      BY <1>3, <1>4, <2>3, <3>1, <3>2, <3>3, Zenon DEF PeerInv
  <2>5. CASE call.kind = "inv"
    <3>1. PICK x : x = Msg("tx", call.what)
      BY Zenon
    <3>2. x \in Msgs
      <4>1. call.what \in Whats
        BY <1>4 DEF Calls
      <4> QED
        BY <3>1, <4>1, MsgTyped, Vocabulary, Zenon
    <3>3. toPeer' = Append(toPeer, x)
      BY <1>2, <1>6, <2>5, <3>1, Zenon
    <3>4. /\ toPeer' \in Seq(Msgs) /\ Len(toPeer') = Len(toPeer) + 1
          /\ toPeer'[Len(toPeer) + 1] = x /\ Len(toPeer) + 1 \in DOMAIN toPeer'
      BY <1>4, <3>2, <3>3
    <3>5. Len(toPeer) + 1 > call.at /\ call'.at <= Len(toPeer')
      BY <1>4, <2>3, <3>4 DEF Calls
    <3>6. m.kind = "getdata" /\ m.what = call.what
      BY <1>6, <2>5 DEF Awaits
    <3>7. m = Msg("getdata", call.what)
      BY <1>3, <3>6 DEF Msgs, Msg
    <3>8. BroadcastWasAskedFor'
      BY <2>2, <3>1, <3>4, <3>5, <3>7, Zenon DEF BroadcastWasAskedFor
    <3> QED
      BY <1>3, <1>4, <2>3, <3>4, <3>5, <3>8, Zenon DEF PeerInv
  <2> QED
    BY <2>4, <2>5, Zenon
<1> QED
  BY <1>5, <1>6, Zenon

\* A call that gives up returns nothing, so it claims nothing.
LEMMA GiveUpKeeps ==
    ASSUME PeerInv, GiveUp PROVE PeerInv'
<1>1. /\ done' = [call |-> call, result |-> Msg("none", 0)] /\ call' = Idle
      /\ channel' = (IF channel = <<>> THEN channel ELSE Tail(channel))
      /\ UNCHANGED <<wire, toPeer>>
  BY Zenon DEF GiveUp, Return
<1>2. done'.result.kind = "none"
  BY <1>1 DEF Msg
<1>3. BroadcastWasAskedFor'
  BY <1>2, Zenon DEF BroadcastWasAskedFor
<1>4. channel' \in Seq(Msgs) /\ toPeer' \in Seq(Msgs) /\ wire' \in Seq(Msgs)
  BY <1>1 DEF PeerInv
<1>5. call' \in Calls /\ call'.at = 0
  BY <1>1, IdleTyped, Zenon
<1>6. call'.at <= Len(toPeer')
  BY <1>4, <1>5
<1> QED
  BY <1>3, <1>4, <1>5, <1>6, Zenon DEF PeerInv

\* What the peer puts on the wire is a message, in answer or on its own.
LEMMA PeerAnswersKeeps ==
    ASSUME PeerInv, PeerAnswers PROVE PeerInv'
<1>1. PICK i \in DOMAIN toPeer :
        /\ toPeer[i].kind \in {"getblock", "getaddr", "inv"}
        /\ wire' = Append(wire, Answer(toPeer[i]))
  BY Zenon DEF PeerAnswers
<1>2. UNCHANGED <<channel, toPeer, call, done>>
  BY Zenon DEF PeerAnswers
<1>3. PICK m : m = toPeer[i]
  BY Zenon
<1>4. m \in Msgs /\ m.kind \in {"getblock", "getaddr", "inv"}
  BY <1>1, <1>3 DEF PeerInv
<1>5. m.what \in Whats /\ 0 \in Whats
  BY <1>4, Vocabulary DEF Msgs
<1>6. Answer(m) \in Msgs
  <2>1. Msg("block", m.what) \in Msgs /\ Msg("addr", 0) \in Msgs
        /\ Msg("getdata", m.what) \in Msgs
    BY <1>5, MsgTyped, Vocabulary, Zenon
  <2> QED
    BY <1>4, <2>1 DEF Answer
<1>7. wire' \in Seq(Msgs) /\ channel' \in Seq(Msgs)
  BY <1>1, <1>2, <1>3, <1>6 DEF PeerInv
<1> QED
  BY <1>2, <1>7, SilentKeeps, Zenon

\* So is what the peer sends unasked.
LEMMA PeerSendsKeeps ==
    ASSUME PeerInv, NEW k \in Words, NEW n \in {0, 1, 2}, PeerSends(k, n)
    PROVE  PeerInv'
<1>1. Msg(k, n) \in Msgs
  BY MsgTyped, Vocabulary, Zenon
<1>2. wire' = Append(wire, Msg(k, n)) /\ UNCHANGED <<channel, toPeer, call, done>>
  BY Zenon DEF PeerSends
<1>3. wire' \in Seq(Msgs) /\ channel' \in Seq(Msgs)
  BY <1>1, <1>2 DEF PeerInv
<1> QED
  BY <1>2, <1>3, SilentKeeps, Zenon

\* Every step keeps PeerInv.
LEMMA PeerStep ==
    ASSUME PeerInv, [PeerNext]_peerVars PROVE PeerInv'
<1>1. CASE \E k \in {"version", "verack", "other"} : PeerHandshake(Msg(k, 0))
  BY <1>1, HandshakeKeeps, Zenon
<1>2. CASE HandshakeFails \/ Stop \/ UNCHANGED peerVars
  <2>1. UNCHANGED <<wire, channel, toPeer, call, done>>
    BY <1>2, Zenon DEF HandshakeFails, Stop, peerVars
  <2> QED
    BY <2>1, SilentKeeps, Zenon DEF PeerInv
<1>3. CASE Listen
  BY <1>3, ListenKeeps, Zenon
<1>4. CASE Take
  BY <1>4, TakeKeeps, Zenon
<1>5. CASE GiveUp
  BY <1>5, GiveUpKeeps, Zenon
<1>6. CASE \/ GetAddr
           \/ \E b \in Blocks : GetBlock(b)
           \/ \E t \in Txs : BroadcastTx(t)
  BY <1>6, Vocabulary, RequestKeeps, Zenon DEF GetAddr, GetBlock, BroadcastTx
<1>7. CASE PeerAnswers
  BY <1>7, PeerAnswersKeeps, Zenon
<1>8. CASE PeerSends("garbage", 0) \/ \E n \in {1, 2} : PeerSends("ping", n)
  <2>1. (\A n \in {1, 2} : n \in {0, 1, 2}) /\ 0 \in {0, 1, 2}
    OBVIOUS
  <2> QED
    BY <1>8, <2>1, Vocabulary, PeerSendsKeeps, Zenon
<1> QED
  BY <1>1, <1>2, <1>3, <1>4, <1>5, <1>6, <1>7, <1>8, Zenon DEF PeerNext

\* However the listener's messages and the calls interleave, and whatever an
\* earlier call left in the channel, broadcast_tx succeeds only for the
\* transaction it announced, after the peer asked for it, and has handed it over.
THEOREM BroadcastsAreAskedFor == PeerSpec => []BroadcastWasAskedFor
<1>1. PeerInit => PeerInv
  <2> SUFFICES ASSUME PeerInit PROVE PeerInv
    OBVIOUS
  <2>1. /\ wire = <<>> /\ channel = <<>> /\ toPeer = <<Msg("version", 0)>>
        /\ call = Idle /\ done = [call |-> Idle, result |-> Msg("none", 0)]
    BY Zenon DEF PeerInit
  <2>2. Msg("version", 0) \in Msgs
    BY MsgTyped, Vocabulary, Zenon
  <2>3. /\ wire \in Seq(Msgs) /\ channel \in Seq(Msgs)
        /\ toPeer \in Seq(Msgs) /\ Len(toPeer) = 1
    BY <2>1, <2>2
  <2>4. call \in Calls /\ call.at <= Len(toPeer)
    BY <2>1, <2>3, IdleTyped
  <2>5. done.result.kind = "none"
    BY <2>1 DEF Msg
  <2> QED
    BY <2>3, <2>4, <2>5, Zenon DEF PeerInv, BroadcastWasAskedFor
<1>2. PeerInv /\ [PeerNext]_peerVars => PeerInv'
  BY PeerStep, Zenon
<1>3. PeerInv => BroadcastWasAskedFor
  BY Zenon DEF PeerInv
<1> QED
  BY <1>1, <1>2, <1>3, PTL DEF PeerSpec
=============================================================================
