----------------------------- MODULE MCThreads -----------------------------
(***************************************************************************)
(* The components that run threads of their own, in one run: the initial   *)
(* state picks a component, and only its steps are taken from there, with  *)
(* the fairness of its threads.  The components share x1 .. x14.           *)
(***************************************************************************)
EXTENDS Integers, Sequences, FiniteSets, TLC

CONSTANT None

VARIABLES scene, x1, x2, x3, x4, x5, x6, x7, x8, x9, x10, x11, x12, x13, x14

vars == <<scene, x1, x2, x3, x4, x5, x6, x7, x8, x9, x10, x11, x12, x13, x14>>

-----------------------------------------------------------------------------
(* The components.                                                         *)

A(kind, items) == [kind |-> kind, items |-> items]

\* Every kind of request, in both roles, beside every kind of fault.
Plans ==
    {[role |-> "tx",
      asks |-> <<A("subscribe", {"a"}), A("history", {"a", "b"}), A("merkle", {"t"})>>,
      kinds |-> {"drop", "stall", "error", "notice"}],
     [role |-> "tx",
      asks |-> <<A("txs", {"t", "u"}), A("header", {"h"}), A("stop", {"s"})>>,
      kinds |-> {"drop", "stall", "send", "leave", "loss", "ping"}],
     [role |-> "header",
      asks |-> <<A("tip", {"tip"}), A("headers", {"h"}), A("wake", {"w"})>>,
      kinds |-> {"drop", "stall", "error", "send"}]}

Client == INSTANCE ElectrumClient WITH
    plan <- x1, todo <- x2, open <- x3, inbox <- x4, lastId <- x5, index <- x6,
    tracked <- x7, subscribed <- x8, pending <- x9, up <- x10, server <- x11,
    lines <- x12, out <- x13, faults <- x14,
    Plans <- Plans, MaxFaults <- 2

Account == INSTANCE ElectrumAccount WITH
    acct <- x1, tip <- x2, look <- x3, row <- x4, statuses <- x5, given <- x6,
    calls <- x7, faults <- x8,
    Servers <- {"s1", "s2"}, LookAheads <- {0, 1}, Chains <- {"receive"},
    MaxIndex <- 2, MaxCalls <- 4, MaxListeners <- 2, MaxFaults <- 1

Signing == INSTANCE SigningManager WITH
    hot <- x1, rows <- x2, durable <- x3, external <- x4, session <- x5,
    notifs <- x6, hw <- x7, tasks <- x8, polled <- x9, calls <- x10,
    Fingerprints <- {"f1", "f2"}, Descriptors <- {"d1"}, MaxCalls <- 4

Proxy == INSTANCE MitmProxy WITH
    conn <- x1, metrics <- x2, registry <- x3, acceptor <- x4, stopping <- x5,
    Conns <- {1}, Batches <- {2}, MaxLines <- 2, MaxNotes <- 0

Peer == INSTANCE PeerClient WITH
    hand <- x1, stop <- x2, listener <- x3, wire <- x4, channel <- x5,
    toPeer <- x6, call <- x7, done <- x8, calls <- x9, sent <- x10,
    Blocks <- {1, 2}, Txs <- {3, 4}, MaxCalls <- 2, MaxPeer <- 2

\* Two payments, the first spent by another wallet of the same keys before
\* the second arrives: the sweep jumps over the blocks between.
Scan == INSTANCE SpScan WITH
    chain <- x1, branch <- x2, mempool <- x3, coins <- x4, txs <- x5, st <- x6,
    disk <- x7, sc <- x8, stop <- x9, handle <- x10, bc <- x11, skipped <- x12,
    lapse <- x13, events <- x14,
    ReorgDepth <- 2, Txs <- {"pay", "take", "late"},
    Ins <- [pay |-> {}, take |-> {"pay"}, late |-> {}], Pays <- {"pay", "late"},
    Own <- {}, Birthday <- 1, Genesis <- <<[branch |-> 0, txs |-> {"pay"}]>>,
    MaxHeight <- 4, Window <- 2, Overrides <- {}, Kinds <- {"start", "stop"},
    MaxEvents <- 2

-----------------------------------------------------------------------------
\* A scene uses the first n of the shared variables.
Rest(n) ==
    /\ n < 8 => x6 = 0 /\ x7 = 0 /\ x8 = 0
    /\ n < 10 => x9 = 0 /\ x10 = 0
    /\ n < 14 => x11 = 0 /\ x12 = 0 /\ x13 = 0 /\ x14 = 0

Keep(n) ==
    /\ scene' = scene
    /\ n < 8 => UNCHANGED <<x6, x7, x8>>
    /\ n < 10 => UNCHANGED <<x9, x10>>
    /\ n < 14 => UNCHANGED <<x11, x12, x13, x14>>

Init ==
    \/ scene = "scan" /\ Scan!Init
    \/ scene = "client" /\ Client!Init
    \/ scene = "account" /\ Account!AccountInit /\ Rest(8)
    \/ scene = "signing" /\ Signing!Init /\ Rest(10)
    \/ scene = "proxy" /\ Proxy!ProxyInit /\ Rest(5)
    \/ scene = "peer" /\ Peer!PeerInit /\ Rest(10)

Next ==
    \/ scene = "client" /\ Client!Next /\ Keep(14)
    \/ scene = "account" /\ Account!AccountNext /\ Keep(8)
    \/ scene = "signing" /\ Signing!Next /\ Keep(10)
    \/ scene = "proxy" /\ Proxy!ProxyNext /\ Keep(5)
    \/ scene = "peer" /\ Peer!PeerNext /\ Keep(10)
    \/ scene = "scan" /\ Scan!Next /\ Keep(14)

\* The fairness each module states for its own threads.
Fairness ==
    /\ WF_vars(scene = "client" /\ Client!Ask /\ Keep(14))
    /\ WF_vars(scene = "client" /\ Client!Listener /\ Keep(14))
    /\ WF_vars(scene = "client" /\ Client!Answer /\ Keep(14))
    /\ \A i \in 1..2 :
        WF_vars(/\ scene = "account" /\ i <= Len(x1.listeners)
                /\ Account!ThreadStep(i) /\ Keep(8))
    /\ WF_vars(scene = "account" /\ Account!Closed /\ Keep(8))
    /\ WF_vars(/\ scene = "signing"
               /\ \E t \in x8, ok \in BOOLEAN : Signing!Answer(t, ok)
               /\ Keep(10))
    /\ WF_vars(scene = "signing" /\ Signing!Polls /\ Keep(10))
    /\ \A d \in {"up", "down"} :
        WF_vars(scene = "proxy" /\ Proxy!Worker(1, d) /\ Keep(5))
    /\ WF_vars(/\ scene = "proxy"
               /\ Proxy!Wake \/ Proxy!EndRegistered \/ Proxy!Joined
               /\ Keep(5))
    /\ WF_vars(scene = "peer" /\ Peer!Listen /\ Keep(10))
    /\ WF_vars(scene = "peer" /\ Peer!Take /\ Keep(10))
    /\ WF_vars(scene = "peer" /\ Peer!GiveUp /\ Keep(10))
    /\ WF_vars(scene = "scan" /\ Scan!ScanStep /\ Keep(14))
    /\ WF_vars(scene = "scan" /\ Scan!Server /\ Keep(14))
    /\ WF_vars(scene = "scan" /\ Scan!Joined /\ Keep(14))

Spec == Init /\ [][Next]_vars /\ Fairness

-----------------------------------------------------------------------------
(* What the scenes are checked for; each property is stated in its module.  *)

\* However often a batch is resent, an answer is for an id given out once
\* (Client::register) and a history, a proof or a header reaches the consumer
\* once, in the order of the requests (handle_tx_response, run_listener).
AnsweredOnce ==
    scene = "client" =>
        Client!TypeOK /\ Client!AnsweredOnce /\ Client!AnswersInOrder

\* A listening account says so, whatever an earlier listener that winds down
\* clears (spawn_listener), and watches its whole window or has it queued
\* (recv_watch_tip); the window covers every script it has a status of
\* (max_tip_from_statuses), and no address in it is handed out twice while no
\* flush of the tip failed (new_recv_addr, Tip::persist).
WindowIsWatched ==
    scene = "account" =>
        /\ Account!ListeningIsOnline /\ Account!WindowIsWatched
        /\ Account!WindowCoversStatuses /\ Account!AddressesAreFresh

\* No step loses a request to a hardware signer: it stays until poll returns
\* it or its session ends (sign_with, the device threads).
RequestsAreKept == [][scene = "signing" => Signing!SigningIsKept]_vars

\* The proxy leaves no answer without its request and counts every byte of a
\* whole line forwarded once (worker, feed, attribute).
BytesAddUp == scene = "proxy" => Proxy!AnswersAreMatched /\ Proxy!BytesAddUp

\* A broadcast that succeeds had its own transaction asked for and handed over
\* (broadcast_tx).
BroadcastWasAskedFor == scene = "peer" => Peer!BroadcastWasAskedFor

\* Every wait ends: a request of the consumer is answered in full although the
\* server drops some of it, unless the listener ends or the consumer leaves
\* (run_listener); Drop's join of the listeners returns (Worker::join); what a
\* hardware signer was asked to sign comes out of poll; a shutdown of the proxy
\* finds every connection in its registry (Mitm::shutdown); a call of the peer
\* client returns however many other messages come (get_block, broadcast_tx);
\* and stop_scan joins a thread that ends.
WaitsEnd ==
    []<>(/\ scene = "client" => \A n \in 1..3 : ~Client!Unanswered(n)
         /\ scene = "account" => x1.open # "closing"
         /\ scene = "signing" => Signing!NothingToSign
         /\ scene = "proxy" => x5 \in {"none", "returned"}
         /\ scene = "peer" => x7 = Peer!Idle
         /\ scene = "scan" => x10 # "joining")

\* A continuous scan that neither fails nor is stopped brings both frontiers
\* to the tip of a chain that stops growing.
ContinuousCatchesUp ==
    <>[](scene = "scan" /\ Scan!Scanning)
        => <>[](scene = "scan" /\ Scan!CaughtUp)
=============================================================================
