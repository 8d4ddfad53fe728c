--------------------------- MODULE SigningManager ---------------------------
(***************************************************************************)
(* The signing manager of the sign crate: the hot signers it keeps and     *)
(* snapshots in a store, the hardware signers it takes from the devices    *)
(* of a service session, the requests those run on threads of their own,   *)
(* and the two channels `poll` reads.                                      *)
(*                                                                         *)
(* A step is one call on the manager (it is used from one thread), the     *)
(* answer of one device thread, or the end of the process.                 *)
(***************************************************************************)
EXTENDS Naturals, FiniteSets, Sequences, SequencesExt, TLAPS

CONSTANTS
    Fingerprints,   \* fingerprints of the keys
    Descriptors,    \* descriptors that can be registered
    None,           \* no signer or no row
    MaxCalls        \* calls of the consumer other than poll

VARIABLES
    hot,        \* hot signers: fingerprint -> [seed, descs] or None
    rows,       \* the rows of the store, in memory
    durable,    \* the rows the backend holds
    external,   \* hardware signers: fingerprint -> [session, descs] or None
    session,    \* 0 when there is no hardware service, else which one it is
    notifs,     \* the manager's own channel
    hw,         \* the channel of the current session
    tasks,      \* device threads that have not answered
    polled,     \* results of signing requests that poll has returned
    calls       \* calls made, which also numbers the requests

svars == <<hot, rows, durable, external, session, notifs, hw, tasks, polled,
           calls>>

-----------------------------------------------------------------------------
(* Hot signers and their snapshots.                                        *)

\* A signer built from a bare extended key has no mnemonic, hence no snapshot.
Snapshot(signer) == signer.descs

Info(fps) == [i \in 1..Cardinality(fps) |-> [kind |-> "info", req |-> 0]]

\* The rows a store opens with become hot signers; each announces itself.
Hydrated(d) ==
    [f \in Fingerprints |->
        IF d[f] = None THEN None ELSE [seed |-> TRUE, descs |-> d[f]]]

Present(d) == {f \in Fingerprints : d[f] # None}

Init ==
    /\ durable = [f \in Fingerprints |-> None]
    /\ rows = durable
    /\ hot = Hydrated(durable)
    /\ external = [f \in Fingerprints |-> None]
    /\ session = 0
    /\ notifs = <<>> /\ hw = <<>>
    /\ tasks = {} /\ polled = {} /\ calls = 0

Call == calls < MaxCalls /\ calls' = calls + 1

Devices == <<external, session, hw, tasks, polled>>

AddBip32Signer(f, seed, descs) ==
    /\ Call
    /\ hot' = [hot EXCEPT ![f] = [seed |-> seed, descs |-> descs]]
    /\ rows' = IF seed THEN [rows EXCEPT ![f] = descs] ELSE rows
    /\ notifs' = notifs \o Info({f})
    /\ UNCHANGED <<durable, Devices>>

RegisterBip32Descriptor(d) ==
    /\ Call
    /\ hot' = [f \in Fingerprints |->
                 IF hot[f] = None THEN None
                 ELSE [hot[f] EXCEPT !.descs = @ \cup {d}]]
    /\ rows' = [f \in Fingerprints |->
                  IF hot'[f] # None /\ hot'[f].seed
                  THEN Snapshot(hot'[f]) ELSE rows[f]]
    /\ UNCHANGED <<durable, notifs, Devices>>

\* A flush that fails is logged, and the rows stay to be flushed.
Persist(ok) ==
    /\ Call
    /\ durable' = IF ok THEN rows ELSE durable
    /\ UNCHANGED <<hot, rows, notifs, Devices>>

\* The process ends at any time; the next one opens the store.
Restart ==
    /\ Call
    /\ rows' = durable
    /\ hot' = Hydrated(durable)
    /\ notifs' = Info(Present(durable))
    /\ external' = [f \in Fingerprints |-> None]
    /\ session' = 0
    /\ hw' = <<>> /\ tasks' = {}
    /\ UNCHANGED <<durable, polled>>

\* Every hot signer signs in place; the result is queued for poll.
Sign(parses) ==
    /\ Call
    /\ notifs' = Append(notifs,
                    [kind |-> IF parses THEN "signed" ELSE "error",
                     req |-> calls'])
    /\ UNCHANGED <<hot, rows, durable, Devices>>

-----------------------------------------------------------------------------
(* Hardware signers.                                                       *)

StartHwService ==
    /\ Call
    /\ session' = calls'
    /\ hw' = <<>>
    /\ UNCHANGED <<hot, rows, durable, external, notifs, tasks, polled>>

StopHwService ==
    /\ Call
    /\ session' = 0
    /\ hw' = <<>>
    /\ UNCHANGED <<hot, rows, durable, external, notifs, tasks, polled>>

\* The device is in the service's map and supported.
AddHwSigner(f) ==
    /\ session # 0
    /\ Call
    /\ external' = [external EXCEPT
                      ![f] = [session |-> session, descs |-> {}]]
    /\ notifs' = notifs \o Info({f})
    /\ UNCHANGED <<hot, rows, durable, session, hw, tasks, polled>>

RemoveHwSigner(f) ==
    /\ external[f] # None
    /\ Call
    /\ external' = [external EXCEPT ![f] = None]
    /\ UNCHANGED <<hot, rows, durable, session, notifs, hw, tasks, polled>>

\* A request runs on a thread of its own, with the sender of the session the
\* device was listed in.
Spawn(f, kind) ==
    tasks' = tasks \cup
        {[session |-> external[f].session, kind |-> kind, req |-> calls']}

RegisterHwDescriptor(f, d) ==
    /\ external[f] # None
    /\ Call
    /\ external' = [external EXCEPT ![f].descs = @ \cup {d}]
    /\ Spawn(f, "registered")
    /\ UNCHANGED <<hot, rows, durable, session, notifs, hw, polled>>

GetXpub(f) ==
    /\ external[f] # None
    /\ Call
    /\ Spawn(f, "xpub")
    /\ UNCHANGED <<hot, rows, durable, external, session, notifs, hw, polled>>

\* A hot signer goes first, in place.  A hardware signer is asked only when
\* the transaction names its key and a registered descriptor has that key.
Asks(f) == hot[f] = None /\ external[f] # None /\ external[f].descs # {}

SignWith(f) ==
    /\ hot[f] # None \/ external[f] # None
    /\ Call
    /\ IF Asks(f) THEN Spawn(f, "signed") ELSE UNCHANGED tasks
    /\ UNCHANGED <<hot, rows, durable, external, session, notifs, hw, polled>>

\* A device thread that reports only success.
AnswerIfSigned(t, ok) ==
    /\ tasks' = tasks \ {t}
    /\ hw' = IF t.session = session /\ ok
             THEN Append(hw, [kind |-> t.kind, req |-> t.req]) ELSE hw
    /\ UNCHANGED <<hot, rows, durable, external, session, notifs, polled,
                   calls>>

\* The answer goes to the session's channel; nobody holds the receiver of an
\* earlier session, and the failed send is ignored.
Answer(t, ok) ==
    /\ tasks' = tasks \ {t}
    /\ hw' = IF t.session = session
             THEN Append(hw, [kind |-> IF ok THEN t.kind ELSE "error",
                              req |-> t.req]) ELSE hw
    /\ UNCHANGED <<hot, rows, durable, external, session, notifs, polled,
                   calls>>

Update ==
    /\ session # 0
    /\ Call
    /\ hw' = Append(hw, [kind |-> "update", req |-> 0])
    /\ UNCHANGED <<hot, rows, durable, external, session, notifs, tasks,
                   polled>>

\* The manager's channel first; a hardware message that stands for no
\* notification is taken from its channel and dropped.
Returned(m) == IF m.kind \in {"signed", "error"} THEN {m.req} ELSE {}

Poll ==
    \/ /\ notifs # <<>>
       /\ polled' = polled \cup Returned(Head(notifs))
       /\ notifs' = Tail(notifs)
       /\ UNCHANGED hw
    \/ /\ notifs = <<>> /\ hw # <<>>
       /\ polled' = polled \cup Returned(Head(hw))
       /\ hw' = Tail(hw)
       /\ UNCHANGED notifs

Polls ==
    Poll /\ UNCHANGED <<hot, rows, durable, external, session, tasks, calls>>

Calls ==
    \/ \E f \in Fingerprints, seed \in BOOLEAN, ds \in SUBSET Descriptors :
          AddBip32Signer(f, seed, ds)
    \/ \E d \in Descriptors : RegisterBip32Descriptor(d)
    \/ \E ok \in BOOLEAN : Persist(ok)
    \/ Restart
    \/ \E parses \in BOOLEAN : Sign(parses)
    \/ StartHwService \/ StopHwService \/ Update
    \/ \E f \in Fingerprints :
          AddHwSigner(f) \/ RemoveHwSigner(f) \/ GetXpub(f) \/ SignWith(f)
    \/ \E f \in Fingerprints, d \in Descriptors : RegisterHwDescriptor(f, d)

Next ==
    \/ Calls
    \/ \E t \in tasks, ok \in BOOLEAN : Answer(t, ok)
    \/ Polls

\* Device threads run to their end, and the consumer keeps polling.
Fairness ==
    /\ WF_svars(\E t \in tasks, ok \in BOOLEAN : Answer(t, ok))
    /\ WF_svars(Polls)

Spec == Init /\ [][Next]_svars /\ Fairness

-----------------------------------------------------------------------------
(* What the store holds of a signer with a mnemonic is that signer, so a   *)
(* flush and a restart bring back the signer and every descriptor          *)
(* registered on it.                                                       *)
SnapshotsAreCurrent ==
    \A f \in Fingerprints :
        hot[f] # None /\ hot[f].seed => rows[f] = Snapshot(hot[f])

(* A transaction that a hardware signer of the current session was asked   *)
(* to sign and that poll has not returned yet.                             *)
Signing(r) ==
    \/ \E t \in tasks : t.kind = "signed" /\ t.req = r /\ t.session = session
    \/ \E m \in ToSet(hw) : m.kind \in {"signed", "error"} /\ m.req = r

(* Such a request is lost by no step: it stays until poll returns it,      *)
(* signed or as an error, or until its session is stopped, is replaced or  *)
(* ends with the process.                                                  *)
SigningIsKept ==
    \A r \in 1..MaxCalls :
        Signing(r) => Signing(r)' \/ r \in polled' \/ session' # session

RequestsAreKept == [][SigningIsKept]_svars

(* Whatever a hardware signer was asked to sign comes out of poll.         *)
NothingToSign == \A r \in 1..MaxCalls : ~Signing(r)

SignedIsPolled == []<>NothingToSign

-----------------------------------------------------------------------------
(* Types, and what ties requests to sessions: a hardware signer and its    *)
(* requests belong to a session that was started, sessions are numbered    *)
(* by the calls made so far, and without a session there is no channel.    *)
Kinds == {"signed", "registered", "xpub", "update", "error"}
Messages == [kind : Kinds, req : Nat]

SignersTyped ==
    /\ hot \in [Fingerprints -> [seed : BOOLEAN, descs : SUBSET Descriptors] \cup {None}]
    /\ rows \in [Fingerprints -> (SUBSET Descriptors) \cup {None}]
    /\ durable \in [Fingerprints -> (SUBSET Descriptors) \cup {None}]
ExternalTyped ==
    external \in [Fingerprints -> [session : Nat \ {0}, descs : SUBSET Descriptors]
                                      \cup {None}]
TasksTyped == tasks \subseteq [session : Nat \ {0}, kind : Kinds, req : Nat]
HwTyped == hw \in Seq(Messages)
SessionsOrdered ==
    /\ calls \in Nat /\ session \in Nat /\ session <= calls
    /\ session = 0 => hw = <<>>

SigningInv == ExternalTyped /\ TasksTyped /\ HwTyped /\ SessionsOrdered

\* What a channel holds after a send, and after its first message was taken.
LEMMA SentIsHeld ==
    ASSUME NEW S, NEW s \in Seq(S), NEW m \in S
    PROVE  ToSet(s) \subseteq ToSet(Append(s, m)) /\ m \in ToSet(Append(s, m))
<1>1. /\ DOMAIN Append(s, m) = 1..(Len(s) + 1)
      /\ \A i \in 1..Len(s) : Append(s, m)[i] = s[i]
      /\ Append(s, m)[Len(s) + 1] = m
  OBVIOUS
<1>2. DOMAIN s = 1..Len(s) /\ Len(s) \in Nat
  OBVIOUS
<1>3. \A i \in DOMAIN s : i \in DOMAIN Append(s, m) /\ Append(s, m)[i] = s[i]
  BY <1>1, <1>2
<1>4. Len(s) + 1 \in DOMAIN Append(s, m)
  BY <1>1, <1>2
<1> QED
  BY <1>1, <1>3, <1>4 DEF ToSet

\* Taking the head of a queue loses no other element.
LEMMA TakenIsFirst ==
    ASSUME NEW S, NEW s \in Seq(S), s # <<>>
    PROVE  ToSet(s) \subseteq {Head(s)} \cup ToSet(Tail(s))
<1> SUFFICES ASSUME NEW i \in DOMAIN s, s[i] # Head(s)
             PROVE  s[i] \in ToSet(Tail(s))
  BY DEF ToSet
<1>1. i \in 2..Len(s)
  OBVIOUS
<1>2. i - 1 \in DOMAIN Tail(s) /\ Tail(s)[i - 1] = s[i]
  BY <1>1
<1> QED
  BY <1>2 DEF ToSet

\* SigningInv holds initially.
LEMMA SigningInvInit == Init => SigningInv
BY DEF Init, SigningInv, ExternalTyped, TasksTyped, HwTyped, SessionsOrdered

\* A request is spawned for a signer of a session that was started.
LEMMA SpawnTyped ==
    ASSUME SigningInv, NEW f \in Fingerprints, external[f] # None, NEW k \in Kinds,
           Call, Spawn(f, k)
    PROVE  TasksTyped'
<1>1. external[f].session \in Nat \ {0} /\ calls' \in Nat
  BY DEF SigningInv, ExternalTyped, SessionsOrdered, Call
<1> QED
  BY <1>1 DEF SigningInv, TasksTyped, Spawn

\* Every step keeps SigningInv.
LEMMA SigningInvNext == SigningInv /\ [Next]_svars => SigningInv'
<1> SUFFICES ASSUME SigningInv, [Next]_svars PROVE SigningInv'
  OBVIOUS
<1>0. ExternalTyped /\ TasksTyped /\ HwTyped /\ SessionsOrdered
  BY DEF SigningInv
<1>c. Call => calls' \in Nat /\ calls' = calls + 1 /\ session <= calls'
  BY <1>0 DEF Call, SessionsOrdered
<1>f. ASSUME UNCHANGED <<external, tasks, hw, session>>, Call \/ calls' = calls
      PROVE  SigningInv'
  BY <1>0, <1>c, <1>f DEF SigningInv, ExternalTyped, TasksTyped, HwTyped, SessionsOrdered
<1>1. CASE UNCHANGED svars
  BY <1>1, <1>f DEF svars
<1>2. ASSUME NEW f \in Fingerprints, NEW seed \in BOOLEAN, NEW ds \in SUBSET Descriptors,
             AddBip32Signer(f, seed, ds)
      PROVE  SigningInv'
  BY <1>2, <1>f DEF AddBip32Signer, Devices
<1>3. ASSUME NEW d \in Descriptors, RegisterBip32Descriptor(d) PROVE SigningInv'
  BY <1>3, <1>f DEF RegisterBip32Descriptor, Devices
<1>4. ASSUME NEW ok \in BOOLEAN, Persist(ok) PROVE SigningInv'
  BY <1>4, <1>f DEF Persist, Devices
<1>5. CASE Restart
  BY <1>5, <1>c
  DEF Restart, SigningInv, ExternalTyped, TasksTyped, HwTyped, SessionsOrdered
<1>6. ASSUME NEW parses \in BOOLEAN, Sign(parses) PROVE SigningInv'
  BY <1>6, <1>f DEF Sign, Devices
<1>7. CASE StartHwService \/ StopHwService
  <2>1. hw' = <<>> /\ UNCHANGED <<external, tasks>>
    BY <1>7 DEF StartHwService, StopHwService
  <2>2. SessionsOrdered'
    BY <1>0, <1>7, <1>c DEF StartHwService, StopHwService, SessionsOrdered
  <2> QED
    BY <1>0, <2>1, <2>2 DEF SigningInv, ExternalTyped, TasksTyped, HwTyped
<1>8. CASE Update
  BY <1>0, <1>8, <1>c DEF Update, SigningInv, ExternalTyped, TasksTyped, HwTyped,
                          SessionsOrdered, Messages, Kinds
<1>9. ASSUME NEW f \in Fingerprints, AddHwSigner(f) PROVE SigningInv'
  <2>1. ExternalTyped'
    BY <1>0, <1>9 DEF AddHwSigner, ExternalTyped, SessionsOrdered
  <2> QED
    BY <1>0, <1>9, <1>c, <2>1
    DEF AddHwSigner, SigningInv, TasksTyped, HwTyped, SessionsOrdered
<1>10. ASSUME NEW f \in Fingerprints, RemoveHwSigner(f) PROVE SigningInv'
  BY <1>0, <1>10, <1>c DEF RemoveHwSigner, SigningInv, ExternalTyped, TasksTyped,
                           HwTyped, SessionsOrdered
<1>11. ASSUME NEW f \in Fingerprints, GetXpub(f) PROVE SigningInv'
  <2>1. TasksTyped'
    BY <1>11, SpawnTyped DEF GetXpub, Kinds
  <2> QED
    BY <1>0, <1>11, <1>c, <2>1
    DEF GetXpub, SigningInv, ExternalTyped, HwTyped, SessionsOrdered
<1>12. ASSUME NEW f \in Fingerprints, SignWith(f) PROVE SigningInv'
  <2>1. TasksTyped'
    <3>1. CASE Asks(f)
      BY <1>12, <3>1, SpawnTyped DEF SignWith, Asks, Kinds
    <3>2. CASE ~Asks(f)
      BY <1>0, <1>12, <3>2 DEF SignWith, TasksTyped
    <3> QED
      BY <3>1, <3>2
  <2> QED
    BY <1>0, <1>12, <1>c, <2>1
    DEF SignWith, SigningInv, ExternalTyped, HwTyped, SessionsOrdered
<1>13. ASSUME NEW f \in Fingerprints, NEW d \in Descriptors, RegisterHwDescriptor(f, d)
       PROVE  SigningInv'
  <2>1. TasksTyped'
    BY <1>13, SpawnTyped DEF RegisterHwDescriptor, Kinds
  <2>2. ExternalTyped'
    BY <1>0, <1>13 DEF RegisterHwDescriptor, ExternalTyped
  <2> QED
    BY <1>0, <1>13, <1>c, <2>1, <2>2
    DEF RegisterHwDescriptor, SigningInv, HwTyped, SessionsOrdered
<1>14. ASSUME NEW t \in tasks, NEW ok \in BOOLEAN, Answer(t, ok) PROVE SigningInv'
  <2>1. [kind |-> IF ok THEN t.kind ELSE "error", req |-> t.req] \in Messages
    BY <1>0 DEF TasksTyped, Messages, Kinds
  <2>2. t.session # 0
    BY <1>0 DEF TasksTyped
  <2> QED
    BY <1>0, <1>14, <2>1, <2>2
    DEF Answer, SigningInv, ExternalTyped, TasksTyped, HwTyped, SessionsOrdered
<1>15. CASE Polls
  BY <1>0, <1>15
  DEF Polls, Poll, SigningInv, ExternalTyped, TasksTyped, HwTyped, SessionsOrdered
<1> QED
  BY <1>1, <1>2, <1>3, <1>4, <1>5, <1>6, <1>7, <1>8, <1>9, <1>10, <1>11, <1>12, <1>13,
     <1>14, <1>15
  DEF Next, Calls

\* A request that is not answered, and whose channel is left alone or only
\* grows, is kept.
LEMMA KeptIfGrown ==
    ASSUME tasks \subseteq tasks', ToSet(hw) \subseteq ToSet(hw'), session' = session
    PROVE  SigningIsKept
BY DEF SigningIsKept, Signing

\* Every step keeps what is signed.
LEMMA KeptNext == SigningInv /\ [Next]_svars => SigningIsKept \/ UNCHANGED svars
<1> SUFFICES ASSUME SigningInv, Next PROVE SigningIsKept
  OBVIOUS
<1>0. ExternalTyped /\ TasksTyped /\ HwTyped /\ SessionsOrdered
  BY DEF SigningInv
<1>1. ASSUME NEW f \in Fingerprints, NEW seed \in BOOLEAN, NEW ds \in SUBSET Descriptors,
             AddBip32Signer(f, seed, ds)
      PROVE  SigningIsKept
  BY <1>1, KeptIfGrown DEF AddBip32Signer, Devices
<1>2. ASSUME NEW d \in Descriptors, RegisterBip32Descriptor(d) PROVE SigningIsKept
  BY <1>2, KeptIfGrown DEF RegisterBip32Descriptor, Devices
<1>3. ASSUME NEW ok \in BOOLEAN, Persist(ok) PROVE SigningIsKept
  BY <1>3, KeptIfGrown DEF Persist, Devices
<1>4. ASSUME NEW parses \in BOOLEAN, Sign(parses) PROVE SigningIsKept
  BY <1>4, KeptIfGrown DEF Sign, Devices
<1>5. CASE Restart \/ StartHwService \/ StopHwService
  <2>1. session' = 0 \/ session' = calls + 1
    BY <1>5 DEF Restart, StartHwService, StopHwService, Call
  <2>2. CASE session # 0
    BY <1>0, <2>1, <2>2 DEF SessionsOrdered, SigningIsKept
  <2>3. CASE session = 0
    <3>1. hw = <<>> /\ \A t \in tasks : t.session # 0
      BY <1>0, <2>3 DEF SessionsOrdered, TasksTyped
    <3> QED
      BY <2>3, <3>1 DEF SigningIsKept, Signing, ToSet
  <2> QED
    BY <2>2, <2>3
<1>6. CASE Update
  <2>1. [kind |-> "update", req |-> 0] \in Messages
    BY DEF Messages, Kinds
  <2> QED
    BY <1>0, <1>6, <2>1, SentIsHeld, KeptIfGrown DEF Update, HwTyped
<1>7. ASSUME NEW f \in Fingerprints,
             AddHwSigner(f) \/ RemoveHwSigner(f) \/ GetXpub(f) \/ SignWith(f)
      PROVE  SigningIsKept
  BY <1>7, KeptIfGrown DEF AddHwSigner, RemoveHwSigner, GetXpub, SignWith, Spawn
<1>8. ASSUME NEW f \in Fingerprints, NEW d \in Descriptors, RegisterHwDescriptor(f, d)
      PROVE  SigningIsKept
  BY <1>8, KeptIfGrown DEF RegisterHwDescriptor, Spawn
<1>9. ASSUME NEW t \in tasks, NEW ok \in BOOLEAN, Answer(t, ok) PROVE SigningIsKept
  <2> DEFINE m == [kind |-> IF ok THEN t.kind ELSE "error", req |-> t.req]
  <2>1. m \in Messages
    BY <1>0 DEF TasksTyped, Messages, Kinds
  <2>2. tasks' = tasks \ {t} /\ session' = session
    BY <1>9 DEF Answer
  <2>3. ToSet(hw) \subseteq ToSet(hw')
    BY <1>0, <1>9, <2>1, SentIsHeld DEF Answer, HwTyped
  <2>4. t.session = session => m \in ToSet(hw')
    BY <1>0, <1>9, <2>1, SentIsHeld DEF Answer, HwTyped
  <2>5. t.kind = "signed" => m.kind \in {"signed", "error"} /\ m.req = t.req
    OBVIOUS
  <2> QED
    BY <2>2, <2>3, <2>4, <2>5 DEF SigningIsKept, Signing
<1>10. CASE Polls
  <2>1. CASE hw' = hw
    BY <1>10, <2>1, KeptIfGrown DEF Polls
  <2>2. CASE hw # <<>> /\ hw' = Tail(hw) /\ polled' = polled \cup Returned(Head(hw))
    <3>1. ToSet(hw) \subseteq {Head(hw)} \cup ToSet(hw')
      BY <1>0, <2>2, TakenIsFirst DEF HwTyped
    <3>2. UNCHANGED <<tasks, session>>
      BY <1>10 DEF Polls
    <3> QED
      BY <2>2, <3>1, <3>2 DEF SigningIsKept, Signing, Returned
  <2> QED
    BY <1>10, <2>1, <2>2 DEF Polls, Poll
<1> QED
  BY <1>1, <1>2, <1>3, <1>4, <1>5, <1>6, <1>7, <1>8, <1>9, <1>10 DEF Next, Calls

\* No step of the manager, its consumer or a device thread loses a request
\* to sign, for any keys, descriptors and number of calls.
THEOREM SigningIsNeverLost == Spec => RequestsAreKept
BY SigningInvInit, SigningInvNext, KeptNext, PTL DEF Spec, RequestsAreKept

-----------------------------------------------------------------------------
\* The signers a store opens with.
LEMMA HydratedTyped ==
    ASSUME NEW d \in [Fingerprints -> (SUBSET Descriptors) \cup {None}]
    PROVE  Hydrated(d) \in [Fingerprints -> [seed : BOOLEAN, descs : SUBSET Descriptors]
                                                \cup {None}]
<1>1. ASSUME NEW f \in Fingerprints, d[f] # None
      PROVE  [seed |-> TRUE, descs |-> d[f]] \in [seed : BOOLEAN, descs : SUBSET Descriptors]
  <2>1. d[f] \in SUBSET Descriptors
    BY <1>1
  <2> QED
    BY <2>1
<1> QED
  BY <1>1 DEF Hydrated

\* Every step keeps the types of the signers and their rows.
LEMMA SignersTypedNext == SignersTyped /\ [Next]_svars => SignersTyped'
<1> SUFFICES ASSUME SignersTyped, [Next]_svars PROVE SignersTyped'
  OBVIOUS
<1>1. CASE UNCHANGED <<hot, rows, durable>>
  BY <1>1 DEF SignersTyped
<1>2. ASSUME NEW f \in Fingerprints, NEW seed \in BOOLEAN, NEW ds \in SUBSET Descriptors,
             AddBip32Signer(f, seed, ds)
      PROVE  SignersTyped'
  BY <1>2 DEF AddBip32Signer, SignersTyped
<1>3. ASSUME NEW d \in Descriptors, RegisterBip32Descriptor(d) PROVE SignersTyped'
  <2>1. hot' \in [Fingerprints -> [seed : BOOLEAN, descs : SUBSET Descriptors] \cup {None}]
    BY <1>3 DEF RegisterBip32Descriptor, SignersTyped
  <2> QED
    BY <1>3, <2>1 DEF RegisterBip32Descriptor, SignersTyped, Snapshot
<1>4. ASSUME NEW ok \in BOOLEAN, Persist(ok) PROVE SignersTyped'
  BY <1>4 DEF Persist, SignersTyped
<1>5. CASE Restart
  BY <1>5, HydratedTyped DEF Restart, SignersTyped
<1> QED
  BY <1>1, <1>2, <1>3, <1>4, <1>5, Zenon
  DEF Next, Calls, svars, Sign, StartHwService, StopHwService, Update, AddHwSigner,
      RemoveHwSigner, GetXpub, SignWith, RegisterHwDescriptor, Answer, Polls

\* What the store holds of a signer with a mnemonic is that signer, whatever
\* is added, registered, flushed or lost in a restart.
THEOREM SnapshotsStayCurrent == Spec => []SnapshotsAreCurrent
<1>1. Init => SignersTyped /\ SnapshotsAreCurrent
  <2> SUFFICES ASSUME Init PROVE SignersTyped /\ SnapshotsAreCurrent
    OBVIOUS
  <2>1. durable \in [Fingerprints -> (SUBSET Descriptors) \cup {None}] /\ rows = durable
    BY DEF Init
  <2>2. SignersTyped
    BY <2>1, HydratedTyped DEF Init, SignersTyped
  <2>3. SnapshotsAreCurrent
    BY DEF Init, SnapshotsAreCurrent, Hydrated
  <2> QED
    BY <2>2, <2>3
<1>2. SignersTyped /\ SnapshotsAreCurrent /\ [Next]_svars => SnapshotsAreCurrent'
  <2> SUFFICES ASSUME SignersTyped, SnapshotsAreCurrent, [Next]_svars
               PROVE  SnapshotsAreCurrent'
    OBVIOUS
  <2>1. CASE UNCHANGED <<hot, rows>>
    BY <2>1 DEF SnapshotsAreCurrent, Snapshot
  <2>2. ASSUME NEW f \in Fingerprints, NEW seed \in BOOLEAN, NEW ds \in SUBSET Descriptors,
               AddBip32Signer(f, seed, ds)
        PROVE  SnapshotsAreCurrent'
    BY <2>2 DEF AddBip32Signer, SignersTyped, SnapshotsAreCurrent, Snapshot
  <2>3. ASSUME NEW d \in Descriptors, RegisterBip32Descriptor(d) PROVE SnapshotsAreCurrent'
    BY <2>3 DEF RegisterBip32Descriptor, SnapshotsAreCurrent, Snapshot
  <2>4. CASE Restart
    BY <2>4 DEF Restart, SnapshotsAreCurrent, Snapshot, Hydrated
  <2> QED
    BY <2>1, <2>2, <2>3, <2>4, Zenon
    DEF Next, Calls, svars, Persist, Sign, StartHwService, StopHwService, Update,
        AddHwSigner, RemoveHwSigner, GetXpub, SignWith, RegisterHwDescriptor, Answer, Polls
<1> QED
  BY <1>1, <1>2, SignersTypedNext, PTL DEF Spec
=============================================================================
