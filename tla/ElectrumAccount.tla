---------------------------- MODULE ElectrumAccount ----------------------------
(****************************************************************************)
(* A descriptor account around its Electrum scanner: the configuration a     *)
(* consumer edits (electrum/src/config.rs, bwk/src/config.rs), the addresses *)
(* it hands out and the window of scripts it watches (address_store.rs), the *)
(* listener threads it starts and stops and the statuses store they hand to  *)
(* one another (scanner.rs, worker.rs), and the header store it keeps on the *)
(* scanner's server (header_follower.rs, bwk/src/account.rs).                *)
(*                                                                           *)
(* A step is one call of the consumer or one stretch of a listener thread    *)
(* between two points where it blocks or reads the stop flag.  A script is   *)
(* its keychain and derivation index.                                        *)
(****************************************************************************)
EXTENDS Naturals, Sequences, FiniteSetsExt, SequencesExt

CONSTANTS
    Servers,        \* Electrum servers a consumer may point the account at
    None,           \* no server configured
    LookAheads,     \* values of the look-ahead setting
    Chains,         \* keychains: receive and change
    MaxIndex,       \* bound on derivation indexes
    MaxCalls,       \* bound on the consumer's calls and the coins it receives
    MaxListeners,   \* bound on listener threads in one session
    MaxFaults       \* bound on lost connections, panics, crashes, failed flushes

VARIABLES
    acct,      \* the account: configuration, listeners, connection, headers
    tip,       \* generated tip of each keychain
    look,      \* look-ahead the stores were opened with
    row,       \* tip rows of the account store on disk
    statuses,  \* indexes in the statuses store, RAM and disk alike
    given,     \* addresses handed out, in order
    calls, faults

avars == <<acct, tip, look, row, statuses, given, calls, faults>>

Nothing == [c \in Chains |-> {}]
Zero == [c \in Chains |-> 0]
Endpoint(a) == [server |-> a.config.server, cert |-> a.config.cert]
Idle == [server |-> None, cert |-> "validate"]

(***************************** Configuration ********************************)

\* Endpoint::set: another server puts the policy back to validating
SetServer(cfg, s) ==
    IF s = cfg.server THEN cfg
    ELSE [cfg EXCEPT !.server = s, !.cert = "validate"]

(****************************** Watch window ********************************)

\* recv_watch_tip, change_watch_tip: every script below it is subscribed
WatchTips(t, l) == [c \in Chains |-> t[c] + l + 1]

\* the tip a keychain reopens with: its row, or what the statuses imply
RestoredTip(c, l) ==
    Max({row[c]} \cup {i - l : i \in {j \in statuses[c] : j >= l}})

\* Tip::persist and the flush behind it, whose failure is only logged
Flush(t) ==
    \/ row' = t /\ UNCHANGED faults
    \/ row # t /\ faults < MaxFaults
       /\ faults' = faults + 1 /\ UNCHANGED row

\* update_watch_tip: the newest listener's channel takes the new window
SendTips(ls, t) ==
    IF ls = <<>> \/ Last(ls).pc \in {"done", "panicked"} THEN ls
    ELSE [ls EXCEPT ![Len(ls)].tips = Append(@, WatchTips(t, look))]

\* update_recv, update_change with populate_maybe and notify
Advance(c, i) ==
    LET t == [tip EXCEPT ![c] = Max({@, i})]
    IN /\ tip' = t
       /\ acct' = [acct EXCEPT !.listeners = SendTips(@, t)]
       /\ Flush(t)

(*************************** Listener lifecycle *****************************)

Ended(l) == l.pc \in {"done", "panicked"}

\* a thread that ended, with its channels closed
End(l, pc) == [l EXCEPT !.pc = pc, !.tips = <<>>, !.subs = Nothing]

\* Worker::stop, and the connection reported as down
ScannerStop(a) ==
    [a EXCEPT !.online = FALSE, !.current = 0,
              !.listeners = IF a.current = 0 THEN @
                            ELSE [@ EXCEPT ![a.current].stop = TRUE]]

\* spawn_listener, and CoinStore::init sending the window to it
Spawn(a) ==
    [a EXCEPT
        !.current = Len(a.listeners) + 1,
        !.listeners = Append(@,
            [pc |-> "resolving", stop |-> FALSE, to |-> Endpoint(a),
             store |-> FALSE, tips |-> <<WatchTips(tip, look)>>,
             subs |-> Nothing])]

\* ElectrumScanner::start
ScannerStart(a) ==
    LET b == IF a.current # 0 /\ Ended(a.listeners[a.current])
             THEN ScannerStop(a) ELSE a
    IN IF b.config.server = None \/ b.current # 0 THEN b ELSE Spawn(b)

(***************************** Header follower ******************************)

\* HeaderFollower::reconnect; ok says whether the server could be reached
Reconnect(a, ok) ==
    IF ok THEN [a EXCEPT !.headers.target = Endpoint(a), !.headers.up = TRUE]
    ELSE [a EXCEPT !.headers.up = FALSE]

\* HeaderFollower::follow, by the account that opened the store
Follow(a, ok) ==
    IF a.headers.kind # "owned"
       \/ (a.headers.target = Endpoint(a) /\ a.headers.up)
    THEN a ELSE Reconnect(a, ok)

\* HeaderFollower::stop
Unfollow(a) ==
    IF a.headers.kind # "owned" THEN a
    ELSE [a EXCEPT !.headers.target = Idle, !.headers.up = FALSE]

\* Account::start_electrum
Started(a, ok) ==
    IF a.config.server = None THEN [a EXCEPT !.config.offline = TRUE]
    ELSE Follow(ScannerStart([a EXCEPT !.config.offline = FALSE]), ok)

\* Account::stop_electrum
Stopped(a) == [Unfollow(ScannerStop(a)) EXCEPT !.config.offline = TRUE]

\* Account::restart_electrum
Restarted(a, ok) ==
    LET b == ScannerStop(a)
    IN Started(IF a.config.server # None /\ a.headers.kind # "none"
               THEN Reconnect(b, ok) ELSE b, ok)

(*************************** The consumer's calls ***************************)

Call ==
    /\ calls < MaxCalls
    /\ calls' = calls + 1

InSession == acct.open = "open"
Room == Len(acct.listeners) < MaxListeners

\* Account::set_electrum with a port that parses
SetElectrum(s) ==
    /\ InSession /\ Call
    /\ acct' = [acct EXCEPT !.config = SetServer(@, s)]
    /\ UNCHANGED <<tip, look, row, statuses, given, faults>>

\* Account::set_look_ahead: only the configuration, until the next open
SetLookAhead(l) ==
    /\ InSession /\ Call
    /\ acct' = [acct EXCEPT !.config.look = l]
    /\ UNCHANGED <<tip, look, row, statuses, given, faults>>

\* a connection call: init sends the window, and persists the tip again
Connects(a) ==
    /\ InSession /\ Call /\ Room
    /\ acct' = a
    /\ IF Len(a.listeners) > Len(acct.listeners) THEN Flush(tip)
       ELSE UNCHANGED <<row, faults>>
    /\ UNCHANGED <<tip, look, statuses, given>>

StartElectrum == \E ok \in BOOLEAN : Connects(Started(acct, ok))
StopElectrum == Connects(Stopped(acct))
RestartElectrum == \E ok \in BOOLEAN : Connects(Restarted(acct, ok))

\* new_recv_addr, next_change_index
NewAddr(c) ==
    /\ InSession /\ Call /\ tip[c] < MaxIndex
    /\ Advance(c, tip[c] + 1)
    /\ given' = [given EXCEPT ![c] = Append(@, tip[c] + 1)]
    /\ UNCHANGED <<look, statuses>>

\* ScannerConfig::set_certificate_check, on the configuration of a closed
\* account
SetCertificateCheck(check) ==
    /\ acct.open = "closed" /\ Call
    /\ acct' = [acct EXCEPT !.config.cert = check]
    /\ UNCHANGED <<tip, look, row, statuses, given, faults>>

\* try_new over the saved configuration: the window is rebuilt, and an
\* account that is not to stay offline starts.  Its own header store fails
\* the open when the server cannot be reached.
Open(ok) ==
    LET online == ~acct.config.offline /\ acct.config.server # None
        l == acct.config.look
        t == [c \in Chains |-> RestoredTip(c, l)]
        own == acct.headers.kind = "owned"
        a == [acct EXCEPT !.open = "open",
                          !.headers.target = IF own /\ online THEN Endpoint(acct)
                                             ELSE @,
                          !.headers.up = IF own THEN online ELSE @]
        first == [pc |-> "resolving", stop |-> FALSE, to |-> Endpoint(acct),
                  store |-> FALSE, tips |-> <<WatchTips(t, l)>>, subs |-> Nothing]
    IN /\ acct.open = "closed" /\ Call
       /\ \A c \in Chains : t[c] <= MaxIndex
       /\ ok \/ ~(own /\ online)
       /\ look' = l
       /\ tip' = t
       /\ acct' = IF online THEN [a EXCEPT !.current = 1, !.listeners = <<first>>]
                  ELSE IF acct.config.offline THEN a
                  ELSE [a EXCEPT !.config.offline = TRUE]
       /\ Flush(t)
       /\ UNCHANGED <<statuses, given>>

\* Drop: the running listener is told to stop, and every thread is joined
Close ==
    /\ InSession
    /\ acct' = [ScannerStop(acct) EXCEPT !.open = "closing"]
    /\ UNCHANGED <<tip, look, row, statuses, given, calls, faults>>

Gone(a) ==
    [a EXCEPT !.open = "closed", !.listeners = <<>>, !.current = 0,
              !.online = FALSE,
              !.headers.target = IF @ # Idle /\ a.headers.kind = "owned"
                                 THEN Idle ELSE @,
              !.headers.up = IF a.headers.kind = "owned" THEN FALSE ELSE @]

Closed ==
    /\ acct.open = "closing"
    /\ \A i \in DOMAIN acct.listeners : Ended(acct.listeners[i])
    /\ acct' = Gone(acct)
    /\ UNCHANGED <<tip, look, row, statuses, given, calls, faults>>

(****************************** Listener threads ****************************)

Turn(i, l) ==
    /\ acct' = [acct EXCEPT !.listeners[i] = l]
    /\ UNCHANGED <<tip, look, row, statuses, given, calls>>

\* the channel of a listener delivers its store, or closes
HandedBack(l) == Ended(l)

\* the statuses store arrives: directly, handed back by the previous listener,
\* or reopened when that one ended without handing it back.  A stop seen here
\* passes it on.
Resolve(i) ==
    LET l == acct.listeners[i]
        store == [l EXCEPT !.store = TRUE]
    IN /\ l.pc = "resolving"
       /\ i > 1 => HandedBack(acct.listeners[i - 1])
       /\ Turn(i, IF l.stop THEN End(store, "done")
                  ELSE [store EXCEPT !.pc = "connecting"])
       /\ UNCHANGED faults

\* the store of an ended listener cannot be reopened
Unavailable(i) ==
    LET l == acct.listeners[i]
    IN /\ l.pc = "resolving" /\ i > 1 /\ faults < MaxFaults
       /\ HandedBack(acct.listeners[i - 1]) /\ ~acct.listeners[i - 1].store
       /\ Turn(i, End(l, "done"))
       /\ faults' = faults + 1

\* Client::new, and the stop flag read once more behind it
Connect(i) ==
    LET l == acct.listeners[i]
    IN /\ l.pc = "connecting"
       /\ \/ Turn(i, IF l.stop THEN End(l, "done")
                     ELSE [l EXCEPT !.pc = "connected"])
             /\ UNCHANGED faults
          \/ faults < MaxFaults
             /\ Turn(i, End(l, "done"))
             /\ faults' = faults + 1

\* online is set, and listen_txs subscribes every script of the statuses
GoOnline(i) ==
    LET l == acct.listeners[i]
    IN /\ l.pc = "connected"
       /\ acct' = [acct EXCEPT !.online = TRUE,
                               !.listeners[i] = [l EXCEPT !.pc = "listening",
                                                          !.subs = statuses]]
       /\ UNCHANGED <<tip, look, row, statuses, given, calls, faults>>

\* the scripts above the highest one subscribed only
NewScriptsAtTip(tips) ==
    [c \in Chains |-> {tips[c]} \ statuses[c]]

\* the new scripts below tips: none when the highest one is known
NewScripts(tips) ==
    [c \in Chains |->
        IF tips[c] - 1 \in statuses[c] THEN {}
        ELSE (0 .. (tips[c] - 1)) \ statuses[c]]

\* handle_address_tip
HandleTip(i) ==
    LET l == acct.listeners[i]
        new == NewScripts(Head(l.tips))
    IN /\ l.pc = "listening" /\ ~l.stop /\ l.tips # <<>>
       /\ statuses' = [c \in Chains |-> statuses[c] \cup new[c]]
       /\ acct' = [acct EXCEPT !.listeners[i] =
                      [l EXCEPT !.tips = Tail(@),
                                !.subs = [c \in Chains |-> @[c] \cup new[c]]]]
       /\ UNCHANGED <<tip, look, row, given, calls, faults>>

\* a history for a subscribed script moves the tip to it (recv_coin_at)
RecvCoin(i, c, idx) ==
    LET l == acct.listeners[i]
    IN /\ l.pc = "listening" /\ ~l.stop
       /\ idx \in l.subs[c] /\ idx <= MaxIndex
       /\ Call
       /\ Advance(c, idx)
       /\ UNCHANGED <<look, statuses, given>>

\* listen_txs returns, told to stop or its connection lost, and the
\* connection is reported as down before the store is handed back
Leave(i) ==
    LET l == acct.listeners[i]
    IN /\ l.pc = "listening"
       /\ \/ l.stop /\ UNCHANGED faults
          \/ faults < MaxFaults /\ faults' = faults + 1
       /\ acct' = [acct EXCEPT !.online = FALSE,
                               !.listeners[i].pc = "leaving"]
       /\ UNCHANGED <<tip, look, row, statuses, given, calls>>

Handback(i) ==
    LET l == acct.listeners[i]
    IN /\ l.pc = "leaving"
       /\ Turn(i, End(l, "done"))
       /\ UNCHANGED faults

\* a thread panics in its loop: its store is dropped with it and online stays
\* as it is
Panic(i) ==
    LET l == acct.listeners[i]
    IN /\ l.pc = "listening" /\ faults < MaxFaults
       /\ Turn(i, [End(l, "panicked") EXCEPT !.store = FALSE])
       /\ faults' = faults + 1

\* the header store's workers end
HeadersEnd ==
    /\ acct.headers.up /\ faults < MaxFaults
    /\ acct' = [acct EXCEPT !.headers.up = FALSE]
    /\ faults' = faults + 1
    /\ UNCHANGED <<tip, look, row, statuses, given, calls>>

\* the process ends at any point; the rows and the statuses are on disk
Crash ==
    /\ acct.open # "closed" /\ faults < MaxFaults
    /\ acct' = Gone(acct)
    /\ faults' = faults + 1
    /\ UNCHANGED <<tip, look, row, statuses, given, calls>>

(****************************************************************************)

ThreadStep(i) ==
    \/ Resolve(i) \/ Unavailable(i) \/ Connect(i) \/ GoOnline(i)
    \/ HandleTip(i) \/ Leave(i) \/ Handback(i)

AccountInit ==
    \E s \in Servers \cup {None}, l \in LookAheads,
       kind \in {"owned", "borrowed", "none"} :
        /\ acct = [open |-> "closed", online |-> FALSE, current |-> 0,
                   listeners |-> <<>>,
                   config |-> [server |-> s, cert |-> "validate",
                               offline |-> FALSE, look |-> l],
                   headers |-> [kind |-> kind, target |-> Idle, up |-> FALSE]]
        /\ look = l
        /\ tip = Zero /\ row = Zero
        /\ statuses = Nothing /\ given = [c \in Chains |-> <<>>]
        /\ calls = 0 /\ faults = 0

AccountNext ==
    \/ \E s \in Servers : SetElectrum(s)
    \/ \E l \in LookAheads : SetLookAhead(l)
    \/ StartElectrum \/ StopElectrum \/ RestartElectrum
    \/ \E c \in Chains : NewAddr(c)
    \/ \E check \in {"validate", "accept"} : SetCertificateCheck(check)
    \/ \E ok \in BOOLEAN : Open(ok)
    \/ Close \/ Closed \/ Crash \/ HeadersEnd
    \/ \E i \in 1 .. MaxListeners :
        /\ i <= Len(acct.listeners)
        /\ \/ ThreadStep(i) \/ Panic(i)
           \/ \E c \in Chains, idx \in 0 .. MaxIndex : RecvCoin(i, c, idx)

\* every thread keeps running: its waits end when the previous thread ends,
\* when the connection attempt returns, or at the next turn of its loop
AccountFairness ==
    /\ \A i \in 1 .. MaxListeners :
        WF_avars(i <= Len(acct.listeners) /\ ThreadStep(i))
    /\ WF_avars(Closed)

AccountSpec == AccountInit /\ [][AccountNext]_avars /\ AccountFairness

(******************************* Properties *********************************)

\* The listener a consumer started and did not stop reports the account online
\* while it listens: no earlier listener winding down clears the flag after it.
ListeningIsOnline ==
    acct.current # 0 /\ acct.listeners[acct.current].pc = "listening"
        => acct.online

\* A listening thread holding the tip channel is subscribed to the whole watch
\* window, or the window that covers it is the last one queued for it.
WindowIsWatched ==
    LET ls == acct.listeners
        tips == WatchTips(tip, look)
    IN ls # <<>> /\ Last(ls).pc = "listening" =>
        \/ \A c \in Chains : 0 .. (tips[c] - 1) \subseteq Last(ls).subs[c]
        \/ Last(ls).tips # <<>> /\ Last(Last(ls).tips) = tips

\* An open account's window covers every script the statuses store remembers
\* (`from_stores` floors the restored tip by it), whatever the tip rows say.
WindowCoversStatuses ==
    acct.open = "open" =>
        \A c \in Chains : statuses[c] \subseteq 0 .. (tip[c] + look)

\* While no flush of the tip failed, no address is handed out twice, across
\* stops, reopens and coins received ahead of the tip.
AddressesAreFresh ==
    faults = 0 => \A c \in Chains : IsInjective(given[c])

\* Drop's join returns: every listener hands the store on or ends.
CloseReturns == acct.open = "closing" ~> acct.open = "closed"
================================================================================
