------------------------------- MODULE SpAccount -------------------------------
(***************************************************************************)
(* A silent-payments account and the Electrum sub-accounts it watches      *)
(* beside its own coins: opening from a configuration, adding a            *)
(* sub-account, stopping, starting and moving the Electrum connections,    *)
(* the signers of the sub-accounts, and broadcasting.                      *)
(*                                                                         *)
(* A call of the consumer is the list of its visible steps, kept in todo:  *)
(* between two of them a scanner's listener may record a server's answer   *)
(* and fire its scan tick, and a reconciler may take one.  What a pass     *)
(* does with what was recorded is the subject of WalletSync; here a pass   *)
(* that ran after the recording has seen it.                               *)
(***************************************************************************)
EXTENDS Naturals, Sequences, SequencesExt

CONSTANTS Servers,      \* Electrum servers
          None,         \* no server
          Keys,         \* mnemonics, by the fingerprint of their signer
          Configs,      \* the configurations the consumer may open
          MaxSubs,      \* bound: sub-accounts of an account
          MaxCalls,     \* bound: calls of the consumer
          MaxAnswers    \* bound: answers recorded per sub-account

VARIABLES config,     \* Account::config
          saved,      \* what the configuration store holds
          subs,       \* Account::sub_accounts
          signers,    \* SigningManager: the descriptors of each hot signer
          headers,    \* Account::headers
          broadcast,  \* the broadcast thread, and the reports to the consumer
          todo,       \* the steps left of the consumer's current call
          calls       \* calls made so far

accountVars == <<config, saved, subs, signers, headers, broadcast, todo, calls>>

Endpoints == [server : Servers \cup {None}, insecure : BOOLEAN]

\* Endpoint::set: another server takes the policy back to validating.
SetAnyPolicy(e, s) == [e EXCEPT !.server = s]
Set(e, s) == [server |-> s, insecure |-> e.server = s /\ e.insecure]

\* Endpoint::adopt_certificate_check
Adopt(e, own) ==
    [e EXCEPT !.insecure = IF own.server # None /\ e.server = own.server
                           THEN own.insecure ELSE @]

-----------------------------------------------------------------------------
(* Signers of the sub-accounts *)

\* register_sub_signer: a fingerprint already there is not seeded again, and
\* the descriptor is registered on every hot signer.
RegisterSubSigner(sig, key, sub) ==
    [k \in DOMAIN sig \cup {key} |->
       IF k \in DOMAIN sig THEN sig[k] \cup {sub} ELSE {sub}]

\* The mnemonic of a configured sub-account, or else the account's own.
SignerOf(c, i) == IF c.subs[i].key # None THEN c.subs[i].key ELSE c.key

RECURSIVE ConfiguredSigners(_, _)
ConfiguredSigners(c, n) ==
    IF n = 0 THEN << >>
    ELSE IF SignerOf(c, n) = None THEN ConfiguredSigners(c, n - 1)
    ELSE RegisterSubSigner(ConfiguredSigners(c, n - 1), SignerOf(c, n), n)

-----------------------------------------------------------------------------
(* The header validator *)

\* header_store_target: the account's endpoint, or the first sub-account's.
HeaderStoreTarget(c, ss) ==
    LET with == SelectSeq(<<c.endpoint>> \o [i \in DOMAIN ss |-> ss[i].endpoint],
                          LAMBDA e : e.server # None)
    IN  IF with = << >> THEN [server |-> None, insecure |-> FALSE] ELSE with[1]

HeadersIdle == [headers EXCEPT !.target = [server |-> None, insecure |-> FALSE],
                               !.running = FALSE]

\* HeaderFollower::stop
StopHeaders == headers' = IF headers.kind = "own" THEN HeadersIdle ELSE headers

\* HeaderFollower::follow and reconnect: a restart that fails leaves the store
\* without its worker and the target as it was.
Follow(restarts) ==
    LET target == HeaderStoreTarget(config, subs) IN
    headers' = IF headers.kind # "own" THEN headers
               ELSE IF target.server = None THEN HeadersIdle
               ELSE IF headers.target = target /\ headers.running THEN headers
               ELSE IF restarts THEN [headers EXCEPT !.target = target,
                                                     !.running = TRUE]
               ELSE [headers EXCEPT !.running = FALSE]

-----------------------------------------------------------------------------
(* The steps of a call *)

NewSub(endpoint, key) ==
    [endpoint |-> endpoint, key |-> key, scanning |-> FALSE, passing |-> FALSE,
     tick |-> FALSE, recorded |-> 0, seen |-> 0, restarted |-> FALSE]

\* Fanout::notify: a tick reaches the pass that is registered, if any.
Notified(s) == [s EXCEPT !.tick = @ \/ s.passing]

\* ElectrumScanner::start, a no-op without a server or while running.
ScannerStart(s) == [s EXCEPT !.scanning = @ \/ s.endpoint.server # None]
ScannerStop(s) == [s EXCEPT !.scanning = FALSE]

\* Reconciler::start registers for the ticks sent from now on; its first act
\* is not a pass over what was recorded before.
ReconcilerStart(s) ==
    IF s.passing \/ headers.kind = "none" THEN s ELSE [s EXCEPT !.passing = TRUE]
ReconcilerStop(s) == [s EXCEPT !.passing = FALSE, !.tick = FALSE,
                               !.restarted = TRUE]

Step(op, s) ==
    CASE op = "scan"   -> ScannerStart(s)
      [] op = "unscan" -> ScannerStop(s)
      [] op = "pass"   -> ReconcilerStart(s)
      [] op = "unpass" -> ReconcilerStop(s)
      [] op = "notify" -> Notified(s)

OnEach(op, ss) == [i \in DOMAIN ss |-> <<op, i>>]

TakeStep ==
    /\ todo # << >>
    /\ todo' = Tail(todo)
    /\ LET op == Head(todo)[1] IN
       \/ /\ op \in {"scan", "unscan", "pass", "unpass", "notify"}
          /\ subs' = [subs EXCEPT ![Head(todo)[2]] = Step(op, @)]
          /\ UNCHANGED headers
       \/ op = "follow" /\ (\E ok \in BOOLEAN : Follow(ok)) /\ UNCHANGED subs
       \/ op = "idle" /\ StopHeaders /\ UNCHANGED subs
    /\ UNCHANGED <<config, saved, signers, broadcast, calls>>

-----------------------------------------------------------------------------
(* The consumer's calls *)

Closed == config = None

Call(steps) == /\ todo = << >>
               /\ calls < MaxCalls
               /\ calls' = calls + 1
               /\ todo' = steps

\* Account::with_config_store_and_header_store.  The pass of a sub-account is
\* spawned before its scan starts; a header store of its own that cannot reach
\* its server refuses the account.
Open(c) ==
    LET opened == [i \in DOMAIN c.subs |->
                     NewSub(Adopt(c.subs[i].endpoint, c.endpoint), SignerOf(c, i))]
        target == HeaderStoreTarget(c, opened)
    IN  /\ Closed
        /\ Call(FlattenSeq([i \in DOMAIN opened |->
                              <<<<"pass", i>>, <<"scan", i>>>>]))
        /\ config' = c
        /\ subs' = opened
        /\ signers' = ConfiguredSigners(c, Len(c.subs))
        /\ headers' = [kind |-> c.headers,
                       target |-> IF c.headers = "own" THEN target
                                  ELSE [server |-> None, insecure |-> FALSE],
                       running |-> c.headers = "own" /\ target.server # None]
        /\ UNCHANGED <<saved, broadcast>>

OpenRefused ==
    /\ Closed
    /\ Call(<< >>)
    /\ UNCHANGED <<config, saved, subs, signers, headers, broadcast>>

\* Account::add_sub_account, handed a scanner that is running already, ready to
\* be started, or told to stay offline.  The sub-account is not part of the
\* configuration.
AddStepsScanFirst(i, mode) ==
    <<<<"notify", i>>>> \o (IF mode = "offline" THEN << >> ELSE <<<<"scan", i>>>>)
    \o <<<<"pass", i>>, <<"follow", 0>>>>
AddSteps(i, mode) ==
    <<<<"pass", i>>, <<"notify", i>>>>
    \o (IF mode = "offline" THEN << >> ELSE <<<<"scan", i>>>>)
    \o <<<<"follow", 0>>>>

AddSubAccount(endpoint, key, mode) ==
    /\ ~Closed
    /\ Len(subs) < MaxSubs
    /\ mode = "running" => endpoint.server # None
    /\ LET i == Len(subs) + 1 IN
       /\ Call(AddSteps(i, mode))
       /\ subs' = Append(subs, [NewSub(endpoint, key) EXCEPT
                                  !.scanning = mode = "running",
                                  !.recorded = IF mode = "running" THEN 1 ELSE 0])
       /\ signers' = IF key = None THEN signers
                     ELSE RegisterSubSigner(signers, key, i)
    /\ UNCHANGED <<config, saved, headers, broadcast>>

\* Account::stop_electrum
StopElectrum ==
    /\ ~Closed
    /\ Call(OnEach("unscan", subs) \o <<<<"idle", 0>>>> \o OnEach("unpass", subs))
    /\ UNCHANGED <<config, saved, subs, signers, headers, broadcast>>

\* Account::start_electrum
StartElectrum ==
    /\ ~Closed
    /\ Call(OnEach("scan", subs) \o <<<<"follow", 0>>>> \o OnEach("pass", subs))
    /\ UNCHANGED <<config, saved, subs, signers, headers, broadcast>>

\* Account::set_electrum_settings: the running listeners keep the connection
\* they have.  persist_config writes only where the account persists.
SetElectrumSettings(s) ==
    /\ ~Closed
    /\ Call(<<<<"follow", 0>>>>)
    /\ subs' = [i \in DOMAIN subs |->
                  [subs[i] EXCEPT !.endpoint = Set(@, s)]]
    /\ config' = [config EXCEPT
                    !.endpoint = Set(@, s),
                    !.subs = [i \in DOMAIN @ |->
                                [@[i] EXCEPT !.endpoint = Set(@, s)]]]
    /\ saved' = IF config.persists THEN config' ELSE saved
    /\ UNCHANGED <<signers, headers, broadcast>>

\* Account::broadcast: one at a time, and only with a server to hand it to.
Broadcast ==
    /\ ~Closed
    /\ Call(<< >>)
    /\ broadcast' =
         IF broadcast.running \/ config.endpoint.server = None
         THEN [broadcast EXCEPT !.asked = @ + 1, !.failed = @ + 1]
         ELSE [broadcast EXCEPT !.asked = @ + 1, !.running = TRUE]
    /\ UNCHANGED <<config, saved, subs, signers, headers>>

\* BroadcastWorker::run: the answer is reported either way.
BroadcastDone ==
    /\ broadcast.running
    /\ \/ broadcast' = [broadcast EXCEPT !.running = FALSE, !.sent = @ + 1]
       \/ broadcast' = [broadcast EXCEPT !.running = FALSE, !.failed = @ + 1]
    /\ UNCHANGED <<config, saved, subs, signers, headers, todo, calls>>

\* Dropping the account joins the broadcast, and with it every other thread.
Close ==
    /\ ~Closed
    /\ ~broadcast.running
    /\ Call(<< >>)
    /\ config' = None
    /\ subs' = << >>
    /\ signers' = << >>
    /\ headers' = [HeadersIdle EXCEPT !.kind = "none"]
    /\ UNCHANGED <<saved, broadcast>>

-----------------------------------------------------------------------------
(* Listeners and passes *)

\* A listener records an answer of its server, then fires its tick.
Record(i) ==
    /\ subs[i].scanning
    /\ subs[i].recorded < MaxAnswers
    /\ subs' = [subs EXCEPT ![i] = Notified([@ EXCEPT !.recorded = @ + 1])]
    /\ UNCHANGED <<config, saved, signers, headers, broadcast, todo, calls>>

\* A pass takes a tick and goes over everything recorded.
Pass(i) ==
    /\ subs[i].passing /\ subs[i].tick
    /\ subs' = [subs EXCEPT ![i].tick = FALSE, ![i].seen = subs[i].recorded]
    /\ UNCHANGED <<config, saved, signers, headers, broadcast, todo, calls>>

-----------------------------------------------------------------------------

SpAccountInit ==
    /\ config = None
    /\ saved \in Configs
    /\ subs = << >>
    /\ signers = << >>
    /\ headers = [kind |-> "none", running |-> FALSE,
                  target |-> [server |-> None, insecure |-> FALSE]]
    /\ broadcast = [asked |-> 0, sent |-> 0, failed |-> 0, running |-> FALSE]
    /\ todo = << >>
    /\ calls = 0

SpAccountNext ==
    \/ TakeStep
    \/ Open(saved) \/ OpenRefused
    \/ \E e \in {f \in Endpoints : ~f.insecure}, k \in Keys \cup {None},
          mode \in {"running", "ready", "offline"} : AddSubAccount(e, k, mode)
    \/ StopElectrum \/ StartElectrum \/ Broadcast \/ BroadcastDone \/ Close
    \/ \E s \in Servers \cup {None} : SetElectrumSettings(s)
    \/ \E i \in DOMAIN subs : Record(i) \/ Pass(i)

SpAccountSpec == SpAccountInit /\ [][SpAccountNext]_accountVars

-----------------------------------------------------------------------------
(* Properties *)

Pending(s) == s.scanning /\ s.passing /\ ~s.tick /\ todo = << >>

\* Between calls, a sub-account whose scan and pass were never stopped has
\* nothing recorded that its pass neither saw nor has a tick for: opening
\* registers the pass before the scan starts, and a scanner that was running
\* when it was added is given one catch-up tick.
NothingRecordedIsMissed ==
    \A i \in DOMAIN subs : Pending(subs[i]) /\ ~subs[i].restarted =>
        subs[i].seen = subs[i].recorded

\* Reopening brings each configured sub-account back on the server it points
\* at now, whatever was moved, stopped or added since.
ReopensOnItsServer ==
    ~Closed /\ config.persists => \A i \in DOMAIN saved.subs :
        saved.subs[i].endpoint.server = subs[i].endpoint.server

\* An endpoint that skips certificate checks does so for the server the
\* consumer chose it for: moving to another server never carries it along.
InsecureWasChosen ==
    \A e \in {headers.target} \cup {subs[i].endpoint : i \in DOMAIN subs} :
        e.insecure => \E c \in Configs :
            \E own \in {c.endpoint} \cup {c.subs[j].endpoint : j \in DOMAIN c.subs} :
                own.insecure /\ own.server = e.server

\* Every sub-account with a mnemonic is signed for: the signer of its mnemonic
\* still holds its descriptor after any later sub-account, of whichever key.
EverySubIsSignedFor ==
    \A i \in DOMAIN subs : subs[i].key # None =>
        subs[i].key \in DOMAIN signers /\ i \in signers[subs[i].key]

\* Every broadcast asked for is reported once, refused ones included, but for
\* the one that is running.
BroadcastsAreReported ==
    broadcast.asked = broadcast.sent + broadcast.failed
                      + (IF broadcast.running THEN 1 ELSE 0)

\* A header store of its own that runs follows the server its account points
\* at, after any sequence of moves, stops and additions.
HeadersFollowTheAccount ==
    headers.running /\ todo = << >> =>
        headers.target = HeaderStoreTarget(config, subs)
=============================================================================
