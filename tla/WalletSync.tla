----------------------------- MODULE WalletSync -----------------------------
(***************************************************************************)
(* One watched descriptor of a bwk wallet: the listener thread that folds   *)
(* what the Electrum server reports (electrum/src/listener.rs), the         *)
(* reconciler thread that promotes it against the validated chain           *)
(* (electrum/src/reconcile.rs), the coin store both share (CoinStore), and  *)
(* around them the server, the header store and its merkle client, lost     *)
(* connections and process restarts.                                        *)
(*                                                                          *)
(* The grain is the coin-store mutex: one action per critical section.  A   *)
(* pass that reads the header store while it holds the mutex is split       *)
(* between those reads, so the chain may move in the middle of it.          *)
(***************************************************************************)
EXTENDS CoinStore, Sequences

CONSTANTS Spk,        \* watched scripts, all inside the watch window
          Touches,    \* [Spk -> SUBSET Txid]: txs in the history of a script
          Funds,      \* [Spk -> SUBSET Txid]: those with an output paying it
          Chains,     \* the successive best chains of the server, as block sequences
          Contents,   \* the possible [Block -> SUBSET Txid]
          Floors,     \* the heights the header store may start from
          MaxPool,    \* bound on mempool changes between blocks
          MaxErrors,  \* bound on requests the server answers with an error
          MaxDrops,   \* bound on lost scanner connections
          MaxMerkleDrops,  \* bound on lost merkle connections
          MaxBroadcasts,   \* bound on transactions the wallet sends itself
          MaxCrashes  \* bound on process restarts

ASSUME WalletSyncAssumption ==
  /\ Touches \in [Spk -> SUBSET Txid]
  /\ Funds \in [Spk -> SUBSET Txid]
  /\ \A s \in Spk : Funds[s] \subseteq Touches[s]
  /\ Chains \in Seq(Seq(Block)) /\ Len(Chains) > 0
  /\ \A k \in 1..Len(Chains) : Len(Chains[k]) <= MaxHeight
  /\ Contents \subseteq [Block -> SUBSET Txid]
  /\ Floors \subseteq Height
  /\ {MaxPool, MaxErrors, MaxDrops, MaxMerkleDrops, MaxBroadcasts, MaxCrashes} \subseteq Nat

VARIABLES
  (* the server *)
  content,    \* which txs each block holds
  srv,        \* index in Chains of the server's best chain
  pool,       \* txs in the server's mempool
  (* the header store, as the wallet sees it *)
  loc,        \* index in Chains of the validated chain, 0 while empty
  floor,      \* lowest height the store holds
  wanted,     \* {h} when an extension down to h is wanted, {} otherwise
  ready,      \* is_validated()
  (* the merkle client and its router *)
  mclient,    \* its client: up, ending (fetches failed, sender not taken) or down
  asked,      \* MerkleRouter::pending: claims a requester is recorded for
  wire,       \* fetches on a merkle connection whose answer may come, per claim
  failing,    \* claims fail_pending() has yet to report
  (* the coin store *)
  tx, pending, inFlight, hist, updates, view,
  disk,       \* the persisted tx store
  (* the statuses store *)
  status, statusDisk,
  (* the scanner connection *)
  listener,   \* the listener thread is running
  client,     \* its Electrum client is alive
  toSrv, fromSrv,
  seen,       \* per script, {} until subscribed, then {last status pushed}
  (* the reconciler thread *)
  pc, job, toFetch, dirty, outcomes, ticked, received,
  left        \* what remains of each bound

serverVars == <<content, srv, pool>>
headerVars == <<loc, floor, wanted, ready>>
merkleVars == <<mclient, asked, wire, failing>>
coinVars == <<tx, pending, inFlight, hist, updates, view, disk>>
statusVars == <<status, statusDisk>>
linkVars == <<listener, client, toSrv, fromSrv, seen>>
reconVars == <<pc, job, toFetch, dirty, outcomes, ticked, received>>
vars == <<serverVars, headerVars, merkleVars, coinVars, statusVars, linkVars, reconVars, left>>

-----------------------------------------------------------------------------
(* The server: an Electrum server with a consistent view of one chain.      *)

MinedAt(k, t, h) == h <= Len(Chains[k]) /\ t \in content[Chains[k][h]]

Mined(k, t) == \E h \in Height : MinedAt(k, t, h)

OnServer(t) == t \in pool \/ Mined(srv, t)

ReportedHeight(t) == IF Mined(srv, t) THEN CHOOSE h \in Height : MinedAt(srv, t, h) ELSE 0

SrvHistory(s) == [t \in {u \in Touches[s] : OnServer(u)} |-> ReportedHeight(t)]

(* The headers the validated chain holds: HeaderStore::block_hash.           *)
Headers ==
  [h \in Height |->
     IF loc > 0 /\ floor <= h /\ h <= Len(Chains[loc]) THEN Chains[loc][h] ELSE NoBlock]

Message == [kind : {"status", "history"}, spk : Spk, hist : History]
             \cup [kind : {"txs"}, ids : SUBSET Txid]

Request == [kind : {"history"}, spks : SUBSET Spk] \cup [kind : {"txs"}, ids : SUBSET Txid]

\* An answered fetch: a proof of the claim in `block`, or NoBlock for Failed.
Outcome == [claim : ClaimAt, block : BlockOrNone]

Steps == {"start", "idle", "reverify", "resolve", "fetch", "check", "apply",
          "retry", "compare", "stamp"}

\* The proof being applied: where it was built, and the header it is held to.
Job == [claim : ClaimAt, block : BlockOrNone, hash : BlockOrNone]

NoJob == [claim |-> [txid |-> CHOOSE t \in Txid : TRUE, height |-> 1],
          block |-> NoBlock, hash |-> NoBlock]

\* The reconciler holds the coin-store mutex between its two sub-passes.
MutexFree == pc # "resolve"

Spend(bound) == left[bound] > 0 /\ left' = [left EXCEPT ![bound] = @ - 1]

Bounds == {"pool", "errors", "drops", "merkleDrops", "broadcasts", "crashes"}

-----------------------------------------------------------------------------
Init ==
  /\ content \in Contents
  /\ srv = 1
  /\ pool = {}
  /\ loc = 0 /\ floor \in Floors /\ wanted = {} /\ ready = FALSE
  /\ mclient = "up" /\ asked = {} /\ wire = [c \in ClaimAt |-> 0] /\ failing = {}
  /\ tx = [t \in Txid |-> Absent]
  /\ pending = {} /\ inFlight = {} /\ updates = {}
  /\ hist = [s \in Spk |-> NoHistory]
  /\ view = CoinView(tx) /\ disk = tx
  /\ status = [s \in Spk |-> NoHistory] /\ statusDisk = status
  /\ listener = FALSE /\ client = FALSE
  /\ toSrv = <<>> /\ fromSrv = <<>> /\ seen = [s \in Spk |-> {}]
  /\ pc = "start" /\ job = NoJob /\ toFetch = {} /\ dirty = FALSE /\ outcomes = <<>>
  /\ ticked = FALSE /\ received = FALSE
  /\ left = [b \in Bounds |-> CASE b = "pool" -> MaxPool
                                 [] b = "errors" -> MaxErrors
                                 [] b = "drops" -> MaxDrops
                                 [] b = "merkleDrops" -> MaxMerkleDrops
                                 [] b = "broadcasts" -> MaxBroadcasts
                                 [] b = "crashes" -> MaxCrashes]

-----------------------------------------------------------------------------
(* The server's own steps.                                                  *)

\* The best chain moves on; what it does not hold may be in the mempool.
ServerMines ==
  /\ srv < Len(Chains)
  /\ srv' = srv + 1
  /\ \E p \in SUBSET {t \in Txid : ~Mined(srv + 1, t)} : pool' = p
  /\ UNCHANGED <<content, headerVars, merkleVars, coinVars, statusVars, linkVars, reconVars, left>>

\* Transactions enter the mempool, are replaced or evicted.
ServerPoolChanges ==
  /\ Spend("pool")
  /\ \E p \in SUBSET {t \in Txid : ~Mined(srv, t)} : p # pool /\ pool' = p
  /\ UNCHANGED <<content, srv, headerVars, merkleVars, coinVars, statusVars, linkVars, reconVars>>

\* The status of a subscribed script is pushed whenever it differs from the
\* last one pushed on this connection, the subscription's answer included.
ServerPushes(s) ==
  /\ client /\ seen[s] # {SrvHistory(s)}
  /\ seen' = [seen EXCEPT ![s] = {SrvHistory(s)}]
  /\ fromSrv' = Append(fromSrv, [kind |-> "status", spk |-> s, hist |-> SrvHistory(s)])
  /\ UNCHANGED <<listener, client, toSrv>>
  /\ UNCHANGED <<serverVars, headerVars, merkleVars, coinVars, statusVars, reconVars, left>>

\* One script of the oldest history request leaves it.
PopHistory(s) ==
  toSrv' = IF Head(toSrv).spks = {s} THEN Tail(toSrv)
           ELSE [toSrv EXCEPT ![1].spks = @ \ {s}]

ServerAnswersHistory(s) ==
  /\ client /\ toSrv # <<>> /\ Head(toSrv).kind = "history" /\ s \in Head(toSrv).spks
  /\ PopHistory(s)
  /\ fromSrv' = Append(fromSrv, [kind |-> "history", spk |-> s, hist |-> SrvHistory(s)])
  /\ UNCHANGED <<listener, client, seen>>
  /\ UNCHANGED <<serverVars, headerVars, merkleVars, coinVars, statusVars, reconVars, left>>

\* An error answer to a history request reaches the listener as a
\* CoinError::Server, which it only notifies.
ServerFailsHistory(s) ==
  /\ client /\ toSrv # <<>> /\ Head(toSrv).kind = "history" /\ s \in Head(toSrv).spks
  /\ Spend("errors")
  /\ PopHistory(s)
  /\ UNCHANGED <<listener, client, fromSrv, seen>>
  /\ UNCHANGED <<serverVars, headerVars, merkleVars, coinVars, statusVars, reconVars>>

\* A tx the server no longer knows is answered with an error, and is missing
\* from what lands.
ServerAnswersTxs ==
  /\ client /\ toSrv # <<>> /\ Head(toSrv).kind = "txs"
  /\ toSrv' = Tail(toSrv)
  /\ LET known == {t \in Head(toSrv).ids : OnServer(t)}
     IN  fromSrv' = IF known = {} THEN fromSrv
                    ELSE Append(fromSrv, [kind |-> "txs", ids |-> known])
  /\ UNCHANGED <<listener, client, seen>>
  /\ UNCHANGED <<serverVars, headerVars, merkleVars, coinVars, statusVars, reconVars, left>>

-----------------------------------------------------------------------------
(* The header store, modelled by what the reconciler can see of it.          *)

HeaderStoreValidated ==
  /\ ~ready /\ ready' = TRUE
  /\ ticked' = TRUE
  /\ UNCHANGED <<loc, floor, wanted, pc, job, toFetch, dirty, outcomes, received>>
  /\ UNCHANGED <<serverVars, merkleVars, coinVars, statusVars, linkVars, left>>

\* The worker adopts a chain the server reported, skipping any it missed.
HeaderStoreAdvances ==
  /\ ready
  /\ \E k \in loc + 1 .. srv : loc' = k
  /\ ticked' = TRUE
  /\ UNCHANGED <<floor, wanted, ready, pc, job, toFetch, dirty, outcomes, received>>
  /\ UNCHANGED <<serverVars, merkleVars, coinVars, statusVars, linkVars, left>>

\* The worker takes the wanted extension and prepends the range.
HeaderStoreExtendsDown ==
  /\ ready /\ loc > 0
  /\ \E h \in wanted : floor' = IF h < floor THEN h ELSE floor
  /\ wanted' = {}
  /\ ticked' = TRUE
  /\ UNCHANGED <<loc, ready, pc, job, toFetch, dirty, outcomes, received>>
  /\ UNCHANGED <<serverVars, merkleVars, coinVars, statusVars, linkVars, left>>

\* request_extend_down, a no-op at or above the floor or while empty.
Wanted(heights) ==
  LET low == {h \in heights : loc > 0 /\ h < floor} \cup wanted
  IN  {h \in low : \A g \in low : h <= g}

(* The merkle client.  A second answer for a claim finds no recorded         *)
(* requester and is broadcast, so the one reconciler hears it all the same.  *)

MerkleAnswers(c) ==
  /\ wire[c] > 0
  /\ wire' = [wire EXCEPT ![c] = @ - 1]
  /\ asked' = asked \ {c}
  /\ outcomes' = Append(outcomes,
       [claim |-> c,
        block |-> IF MinedAt(srv, c.txid, c.height) THEN Chains[srv][c.height] ELSE NoBlock])
  /\ UNCHANGED <<mclient, failing, pc, job, toFetch, dirty, ticked, received>>
  /\ UNCHANGED <<serverVars, headerVars, coinVars, statusVars, linkVars, left>>

\* HeaderStore::stop or merkle_client_ended: fail_pending empties the table,
\* then reports each fetch; the request sender is taken in a later step.
MerkleClientEnds ==
  /\ mclient = "up" /\ Spend("merkleDrops")
  /\ mclient' = "ending"
  /\ failing' = asked /\ asked' = {}
  /\ UNCHANGED <<wire, serverVars, headerVars, coinVars, statusVars, linkVars, reconVars>>

FailPending(c) ==
  /\ c \in failing /\ failing' = failing \ {c}
  /\ outcomes' = Append(outcomes, [claim |-> c, block |-> NoBlock])
  /\ UNCHANGED <<mclient, asked, wire, pc, job, toFetch, dirty, ticked, received>>
  /\ UNCHANGED <<serverVars, headerVars, coinVars, statusVars, linkVars, left>>

\* Answers the forwarder has yet to read still arrive, the others are lost.
MerkleClientGone ==
  /\ mclient = "ending" /\ failing = {}
  /\ mclient' = "down"
  /\ \E late \in SUBSET ClaimAt : wire' = [c \in ClaimAt |-> IF c \in late THEN wire[c] ELSE 0]
  /\ UNCHANGED <<asked, failing, serverVars, headerVars, coinVars, statusVars, linkVars,
                 reconVars, left>>

\* Mutant: the reconnected client is asked for nothing.
MerkleReconnectsIdle ==
  /\ mclient = "down" /\ MutexFree
  /\ mclient' = "up"
  /\ UNCHANGED <<asked, wire, failing, serverVars, headerVars, coinVars, statusVars, linkVars,
                 reconVars, left>>

\* HeaderFollower::reconnect: restart, then requeue_confirmed_unverified past
\* the in-flight guard.
MerkleReconnects ==
  /\ mclient = "down" /\ MutexFree
  /\ mclient' = "up"
  /\ LET claims == ConfirmedUnverifiedClaims(tx)
     IN  /\ asked' = asked \cup claims
         /\ wire' = [c \in ClaimAt |-> IF c \in claims THEN wire[c] + 1 ELSE wire[c]]
  /\ UNCHANGED <<failing, serverVars, headerVars, coinVars, statusVars, linkVars, reconVars, left>>

-----------------------------------------------------------------------------
(* The listener thread.                                                      *)

\* generate() rebuilds the coin view; the paths that call it also persist.
Generate == view' = CoinView(tx') /\ disk' = tx'

\* listen_txs from its start: subscribe everything, refresh_unconfirmed_history.
ListenerStarts ==
  /\ ~listener /\ MutexFree
  /\ listener' = TRUE /\ client' = TRUE
  /\ fromSrv' = <<>>
  /\ seen' = [s \in Spk |-> {}]
  /\ LET spks == {s \in Spk : Funds[s] \cap UnconfirmedTxsWithCoins(tx, view) # {}}
     IN  toSrv' = IF spks = {} THEN <<>> ELSE <<[kind |-> "history", spks |-> spks]>>
  /\ UNCHANGED <<serverVars, headerVars, merkleVars, coinVars, statusVars, reconVars, left>>

\* The thread returns; its channels go with it, the statuses are handed back.
ListenerEnds ==
  /\ listener' = FALSE /\ client' = FALSE
  /\ toSrv' = <<>> /\ fromSrv' = <<>>
  /\ UNCHANGED seen

\* The connection is lost: what was received can still be read.
ClientDies ==
  /\ client /\ Spend("drops")
  /\ client' = FALSE /\ toSrv' = <<>>
  /\ UNCHANGED <<listener, fromSrv, seen>>
  /\ UNCHANGED <<serverVars, headerVars, merkleVars, coinVars, statusVars, reconVars>>

ListenerDisconnects ==
  /\ listener /\ ~client /\ fromSrv = <<>>
  /\ ListenerEnds
  /\ UNCHANGED <<serverVars, headerVars, merkleVars, coinVars, statusVars, reconVars, left>>

\* ElectrumScanner::stop.
ListenerStops ==
  /\ listener /\ Spend("drops")
  /\ ListenerEnds
  /\ UNCHANGED <<serverVars, headerVars, merkleVars, coinVars, statusVars, reconVars>>

Receives(kind) == listener /\ fromSrv # <<>> /\ Head(fromSrv).kind = kind

Pop == fromSrv' = Tail(fromSrv)

NotifyScan == ticked' = TRUE /\ UNCHANGED <<pc, job, toFetch, dirty, outcomes, received>>

\* handle_status_response, by what the status says.
OnStatusUnchanged ==
  /\ Receives("status") /\ Head(fromSrv).hist = status[Head(fromSrv).spk]
  /\ Pop /\ NotifyScan
  /\ UNCHANGED <<listener, client, toSrv, seen>>
  /\ UNCHANGED <<serverVars, headerVars, merkleVars, coinVars, statusVars, left>>

\* Mutant: a changed status is recorded and its history is not asked for.
OnStatusRecorded ==
  /\ Receives("status")
  /\ LET m == Head(fromSrv)
     IN  /\ m.hist # status[m.spk] /\ m.hist # NoHistory
         /\ status' = [status EXCEPT ![m.spk] = m.hist]
  /\ statusDisk' = status'
  /\ Pop /\ NotifyScan
  /\ UNCHANGED <<listener, client, toSrv, seen>>
  /\ UNCHANGED <<serverVars, headerVars, merkleVars, coinVars, left>>

OnStatusChanged ==
  /\ Receives("status")
  /\ LET m == Head(fromSrv)
     IN  /\ m.hist # status[m.spk] /\ m.hist # NoHistory
         /\ status' = [status EXCEPT ![m.spk] = m.hist]
         /\ IF client
              THEN /\ toSrv' = Append(toSrv, [kind |-> "history", spks |-> {m.spk}])
                   /\ statusDisk' = status'
                   /\ Pop /\ NotifyScan
                   /\ UNCHANGED <<listener, client, seen>>
              ELSE ListenerEnds /\ UNCHANGED <<statusDisk, reconVars>>
  /\ UNCHANGED <<serverVars, headerVars, merkleVars, coinVars, left>>

\* handle_history_response for one script.
HandleHistory(s, new) ==
  LET prev == hist[s]
      upd == UpdateFor(FoldTxs(tx, prev, new), prev, new)
  IN  /\ tx' = FoldTxs(tx, prev, new)
      /\ inFlight' = FoldInFlight(inFlight, prev, new)
      /\ hist' = [hist EXCEPT ![s] = new]
      /\ updates' = updates \cup IncompleteUpdates({upd})

OnStatusCleared ==
  /\ Receives("status") /\ MutexFree
  /\ LET m == Head(fromSrv)
     IN  /\ m.hist # status[m.spk] /\ m.hist = NoHistory
         /\ HandleHistory(m.spk, m.hist)
         /\ pending' = FoldPending(pending, hist[m.spk], m.hist)
         /\ status' = [status EXCEPT ![m.spk] = m.hist]
  /\ statusDisk' = status'
  /\ Generate /\ Pop /\ NotifyScan
  /\ UNCHANGED <<listener, client, toSrv, seen>>
  /\ UNCHANGED <<serverVars, headerVars, merkleVars, left>>

\* handle_history_response_msg.  With missing txs to ask for and no client left,
\* the listener ends before the reported heights are recorded.
OnHistory ==
  /\ Receives("history") /\ MutexFree
  /\ LET m == Head(fromSrv)
         prev == hist[m.spk]
         missing == UpdateFor(FoldTxs(tx, prev, m.hist), prev, m.hist).missing
         folded == FoldPending(pending, prev, m.hist)
     IN  /\ HandleHistory(m.spk, m.hist)
         /\ IF missing # {} /\ ~client
              THEN /\ pending' = folded
                   /\ ListenerEnds
                   /\ UNCHANGED <<view, disk, reconVars>>
              ELSE /\ toSrv' = IF missing = {} THEN toSrv
                               ELSE Append(toSrv, [kind |-> "txs", ids |-> missing])
                   /\ pending' = RecordReportedHeights(folded, tx', Reported(m.hist))
                   /\ IF Changed(prev, m.hist) # {} THEN Generate ELSE UNCHANGED <<view, disk>>
                   /\ Pop /\ NotifyScan
                   /\ UNCHANGED <<listener, client, seen>>
  /\ UNCHANGED <<serverVars, headerVars, merkleVars, statusVars, left>>

\* handle_txs_response.
OnTxs ==
  /\ Receives("txs") /\ MutexFree
  /\ LET filled == FillUpdates(updates, Head(fromSrv).ids)
     IN  /\ tx' = InsertUpdates(tx, CompletedTxs(filled))
         /\ updates' = IncompleteUpdates(filled)
  /\ Generate /\ Pop /\ NotifyScan
  /\ UNCHANGED <<pending, inFlight, hist, listener, client, toSrv, seen>>
  /\ UNCHANGED <<serverVars, headerVars, merkleVars, statusVars, left>>

\* record_unconfirmed_spend, by the thread that has just broadcast t.
RecordBroadcast(t) ==
  /\ MutexFree /\ Spend("broadcasts")
  /\ OnServer(t) /\ \E s \in Spk : t \in Touches[s]
  /\ tx' = InsertUpdates(tx, {t})
  /\ Generate
  /\ UNCHANGED <<pending, inFlight, hist, updates>>
  /\ UNCHANGED <<serverVars, headerVars, merkleVars, statusVars, linkVars, reconVars>>

-----------------------------------------------------------------------------
(* The reconciler thread.                                                    *)

reconIdle == pc = "idle"

Outside == <<serverVars, statusVars, linkVars, left>>

\* Thread start: requeue_confirmed_unverified, past the in-flight guard.
ReconcilerStarts ==
  /\ pc = "start"
  /\ toFetch' = ConfirmedUnverifiedClaims(tx)
  /\ pc' = IF toFetch' = {} THEN "stamp" ELSE "fetch"
  /\ UNCHANGED <<job, dirty, outcomes, ticked, received, headerVars, merkleVars, coinVars, Outside>>

\* drain_ticks, then on_chain_update behind header_store_ready.
ReconcilerTicks ==
  /\ reconIdle /\ ~received /\ ticked
  /\ ticked' = FALSE /\ received' = TRUE
  /\ pc' = IF ready THEN "reverify" ELSE "idle"
  /\ UNCHANGED <<job, toFetch, dirty, outcomes, headerVars, merkleVars, coinVars, Outside>>

\* reverify_remined_entries: takes the coin-store mutex and keeps it.
ReverifyReminedEntries ==
  /\ pc = "reverify" /\ pc' = "resolve"
  /\ tx' = ReverifyTxs(tx, inFlight, Headers)
  /\ toFetch' = ReverifyClaims(tx, inFlight, Headers)
  /\ inFlight' = inFlight \cup toFetch'
  /\ dirty' = (tx' # tx)
  /\ UNCHANGED <<pending, hist, updates, view, disk>>
  /\ UNCHANGED <<job, outcomes, ticked, received, headerVars, merkleVars, Outside>>

\* Mutant: the commit looks at the re-verified entries only.
ResolvePendingClaimsQuietly ==
  /\ pc = "resolve"
  /\ LET promoted == Promotable(tx, pending, Headers)
     IN  /\ tx' = ResolveTxs(tx, promoted, Headers)
         /\ inFlight' = inFlight \cup promoted
         /\ toFetch' = toFetch \cup promoted
         /\ pending' = ResolvePending(tx, pending, updates, promoted)
         /\ IF dirty THEN Generate ELSE UNCHANGED <<view, disk>>
  /\ dirty' = FALSE
  /\ wanted' = Wanted({c.height : c \in pending'})
  /\ pc' = IF toFetch' = {} THEN "idle" ELSE "fetch"
  /\ UNCHANGED <<hist, updates, loc, floor, ready>>
  /\ UNCHANGED <<job, outcomes, ticked, received, merkleVars, Outside>>

\* resolve_pending_claims, commit_chain_update, then request_extend_down for
\* the lowest claim left.
ResolvePendingClaims ==
  /\ pc = "resolve"
  /\ LET promoted == Promotable(tx, pending, Headers)
     IN  /\ tx' = ResolveTxs(tx, promoted, Headers)
         /\ inFlight' = inFlight \cup promoted
         /\ toFetch' = toFetch \cup promoted
         /\ pending' = ResolvePending(tx, pending, updates, promoted)
         /\ IF dirty \/ promoted # {} THEN Generate ELSE UNCHANGED <<view, disk>>
  /\ dirty' = FALSE
  /\ wanted' = Wanted({c.height : c \in pending'})
  /\ pc' = IF toFetch' = {} THEN "idle" ELSE "fetch"
  /\ UNCHANGED <<hist, updates, loc, floor, ready>>
  /\ UNCHANGED <<job, outcomes, ticked, received, merkleVars, Outside>>

\* fetch_merkle for one claim: recorded and sent, or failed at once when the
\* client is gone.
FetchMerkle(c) ==
  /\ pc = "fetch" /\ c \in toFetch
  /\ \/ /\ mclient # "down"
        /\ asked' = asked \cup {c}
        /\ wire' = [wire EXCEPT ![c] = @ + 1]
        /\ UNCHANGED outcomes
     \/ /\ mclient # "up"
        /\ asked' = asked \ {c}
        /\ outcomes' = Append(outcomes, [claim |-> c, block |-> NoBlock])
        /\ UNCHANGED wire
  /\ toFetch' = toFetch \ {c}
  /\ pc' = IF toFetch' # {} THEN "fetch" ELSE IF received THEN "idle" ELSE "stamp"
  /\ UNCHANGED <<mclient, failing, job, dirty, ticked, received, headerVars, coinVars, Outside>>

\* handle_merkle_outcome up to the read of the header at the claimed height.
\* Freeing the slot commutes with every step of the other threads, so it is
\* taken together with that read.
TakeOutcome ==
  /\ reconIdle /\ outcomes # <<>>
  /\ LET o == Head(outcomes)
         hash == Headers[o.claim.height]
     IN  /\ inFlight' = inFlight \ {o.claim}
         /\ CASE o.block # NoBlock /\ ~ready -> pc' = "idle" /\ UNCHANGED job
              [] o.block # NoBlock /\ ready /\ hash # NoBlock ->
                   pc' = "check" /\ job' = [claim |-> o.claim, block |-> o.block, hash |-> hash]
              [] OTHER ->
                   pc' = "retry" /\ job' = [claim |-> o.claim, block |-> NoBlock, hash |-> NoBlock]
  /\ outcomes' = Tail(outcomes) /\ received' = TRUE
  /\ UNCHANGED <<tx, pending, hist, updates, view, disk>>
  /\ UNCHANGED <<toFetch, dirty, ticked, headerVars, merkleVars, Outside>>

ClaimedEntry == tx[job.claim.txid]

StillClaimed == ClaimedEntry.inc = "unverified" /\ ClaimedEntry.height = job.claim.height

\* The rest of resolve_tx_merkle_target, under the coin-store mutex.
ResolveMerkleTarget ==
  /\ pc = "check"
  /\ pc' = IF StillClaimed /\ ClaimedEntry.hash = job.hash THEN "apply" ELSE "retry"
  /\ UNCHANGED <<job, toFetch, dirty, outcomes, ticked, received>>
  /\ UNCHANGED <<headerVars, merkleVars, coinVars, Outside>>

\* apply_tx_merkle, under a second hold of the mutex.  The branch verifies when
\* it was built in the block whose merkle root the target carries.
ApplyTxMerkle ==
  /\ pc = "apply" /\ pc' = "idle"
  /\ tx' = [tx EXCEPT ![job.claim.txid] =
              UpdateInclusion(@, IF job.block = job.hash THEN "verified" ELSE "failed",
                              job.claim.height, job.hash)]
  /\ Generate
  /\ job' = NoJob
  /\ UNCHANGED <<pending, inFlight, hist, updates>>
  /\ UNCHANGED <<toFetch, dirty, outcomes, ticked, received, headerVars, merkleVars, Outside>>

\* retry_reorged_merkle_claim: the stored hash, then the header it is held to.
ReadClaimedHash ==
  /\ pc = "retry"
  /\ IF StillClaimed
       THEN pc' = "compare" /\ job' = [job EXCEPT !.hash = ClaimedEntry.hash]
       ELSE pc' = "idle" /\ job' = NoJob
  /\ UNCHANGED <<toFetch, dirty, outcomes, ticked, received>>
  /\ UNCHANGED <<headerVars, merkleVars, coinVars, Outside>>

RetryReorgedClaim ==
  /\ pc = "compare"
  /\ pc' = IF Headers[job.claim.height] \notin {NoBlock, job.hash} /\ ready
             THEN "reverify" ELSE "idle"
  /\ job' = NoJob
  /\ UNCHANGED <<toFetch, dirty, outcomes, ticked, received>>
  /\ UNCHANGED <<headerVars, merkleVars, coinVars, Outside>>

OutcomesDrained ==
  /\ reconIdle /\ received /\ outcomes = <<>>
  /\ pc' = "stamp"
  /\ UNCHANGED <<job, toFetch, dirty, outcomes, ticked, received>>
  /\ UNCHANGED <<headerVars, merkleVars, coinVars, Outside>>

\* stamp_confirmation_times, which ends a turn of the loop.
StampConfirmationTimes ==
  /\ pc = "stamp" /\ pc' = "idle"
  /\ tx' = StampTxs(tx, Headers)
  /\ disk' = IF tx' = tx THEN disk ELSE tx'
  /\ received' = FALSE
  /\ UNCHANGED <<pending, inFlight, hist, updates, view>>
  /\ UNCHANGED <<job, toFetch, dirty, outcomes, ticked, headerVars, merkleVars, Outside>>

-----------------------------------------------------------------------------
\* The process ends anywhere and is opened again: only the persisted stores
\* come back, and the coin view is generated from them.
Crash ==
  /\ Spend("crashes")
  /\ tx' = disk /\ view' = CoinView(disk)
  /\ pending' = {} /\ inFlight' = {} /\ updates' = {}
  /\ hist' = [s \in Spk |-> NoHistory]
  /\ status' = statusDisk
  /\ listener' = FALSE /\ client' = FALSE /\ toSrv' = <<>> /\ fromSrv' = <<>>
  /\ seen' = [s \in Spk |-> {}]
  /\ wanted' = {} /\ ready' = FALSE
  /\ mclient' = "up" /\ asked' = {} /\ wire' = [c \in ClaimAt |-> 0] /\ failing' = {}
  /\ pc' = "start" /\ job' = NoJob /\ toFetch' = {} /\ dirty' = FALSE /\ outcomes' = <<>>
  /\ ticked' = FALSE /\ received' = FALSE
  /\ UNCHANGED <<serverVars, loc, floor, disk, statusDisk>>

-----------------------------------------------------------------------------
ServerReplies ==
  \/ \E s \in Spk : ServerPushes(s) \/ ServerAnswersHistory(s)
  \/ ServerAnswersTxs

HeaderStoreSteps == HeaderStoreValidated \/ HeaderStoreAdvances \/ HeaderStoreExtendsDown

MerkleSteps ==
  \/ \E c \in ClaimAt : MerkleAnswers(c) \/ FailPending(c)
  \/ MerkleClientGone
  \/ MerkleReconnects

ListenerSteps ==
  \/ ListenerStarts \/ ListenerDisconnects
  \/ OnStatusUnchanged \/ OnStatusChanged \/ OnStatusCleared
  \/ OnHistory \/ OnTxs

ReconcilerSteps ==
  \/ ReconcilerStarts \/ ReconcilerTicks
  \/ ReverifyReminedEntries \/ ResolvePendingClaims
  \/ \E c \in ClaimAt : FetchMerkle(c)
  \/ TakeOutcome \/ ResolveMerkleTarget \/ ApplyTxMerkle
  \/ ReadClaimedHash \/ RetryReorgedClaim
  \/ OutcomesDrained \/ StampConfirmationTimes

Disturbances ==
  \/ ServerMines \/ ServerPoolChanges
  \/ \E s \in Spk : ServerFailsHistory(s)
  \/ ClientDies \/ ListenerStops
  \/ MerkleClientEnds
  \/ \E t \in Txid : RecordBroadcast(t)
  \/ Crash

Next ==
  \/ ServerReplies \/ HeaderStoreSteps \/ MerkleSteps
  \/ ListenerSteps \/ ReconcilerSteps \/ Disturbances

Spec == Init /\ [][Next]_vars

\* Every thread keeps running, the server keeps answering, and a stopped
\* listener or a lost merkle client is started again: the consumer of the
\* library restarts both on the notification they end with.
Fairness ==
  /\ WF_vars(ServerReplies)
  /\ WF_vars(HeaderStoreSteps)
  /\ WF_vars(MerkleSteps)
  /\ WF_vars(ListenerSteps)
  /\ WF_vars(ReconcilerSteps)

FairSpec == Spec /\ Fairness

-----------------------------------------------------------------------------
(* Properties.                                                               *)

Option(S) == {{}} \cup {{x} : x \in S}

ServerTypeOK == content \in Contents /\ srv \in 1..Len(Chains) /\ pool \subseteq Txid

HeaderTypeOK ==
  loc \in 0..srv /\ floor \in Height /\ wanted \in Option(Height) /\ ready \in BOOLEAN

MerkleTypeOK ==
  /\ mclient \in {"up", "ending", "down"} /\ asked \subseteq ClaimAt
  /\ wire \in [ClaimAt -> Nat] /\ failing \subseteq ClaimAt

CoinTypeOK ==
  /\ tx \in [Txid -> TxEntry] /\ disk \in [Txid -> TxEntry]
  /\ pending \subseteq ClaimAt /\ inFlight \subseteq ClaimAt
  /\ hist \in [Spk -> History] /\ updates \subseteq Update

LinkTypeOK ==
  /\ status \in [Spk -> History] /\ statusDisk \in [Spk -> History]
  /\ listener \in BOOLEAN /\ client \in BOOLEAN
  /\ toSrv \in Seq(Request) /\ fromSrv \in Seq(Message)
  /\ seen \in [Spk -> Option(History)]

ReconTypeOK ==
  /\ pc \in Steps /\ job \in Job /\ (pc \in {"check", "apply"} => job.hash \in Block)
  /\ toFetch \subseteq ClaimAt /\ dirty \in BOOLEAN /\ outcomes \in Seq(Outcome)
  /\ ticked \in BOOLEAN /\ received \in BOOLEAN

\* The types of every variable, thread by thread.
TypeOK ==
  /\ ServerTypeOK /\ HeaderTypeOK /\ MerkleTypeOK
  /\ CoinTypeOK /\ LinkTypeOK /\ ReconTypeOK
  /\ left \in [Bounds -> Nat]

\* record_reported_heights: "a txid has AT MOST ONE pending claim", across
\* reorgs that report it at another height, and restarts.
AtMostOneClaim == \A c, d \in pending : c.txid = d.txid => c = d

\* A Verified entry names a block that held the transaction and that was the
\* validated chain's block at that height, in RAM and on disk.
OnChain(height, hash) ==
  \E k \in 1..loc : height <= Len(Chains[k]) /\ Chains[k][height] = hash

VerifiedIn(store) ==
  \A t \in Txid : store[t].inc = "verified" =>
    t \in content[store[t].hash] /\ OnChain(store[t].height, store[t].hash)

VerifiedIsMined == VerifiedIn(tx) /\ VerifiedIn(disk)

\* What makes it inductive: a proof on its way to the reconciler was built in a
\* block that holds its transaction, and the header it is held to was read from
\* the validated chain.
ProofsAreGenuine ==
  /\ \A i \in 1..Len(outcomes) :
       outcomes[i].block # NoBlock => outcomes[i].claim.txid \in content[outcomes[i].block]
  /\ pc \in {"check", "apply"} =>
       job.claim.txid \in content[job.block] /\ OnChain(job.claim.height, job.hash)

\* While a merkle client is up, an in-flight slot of an unverified entry has a
\* fetch that will end: "a requester that never hears back holds its in-flight
\* slot forever" (HeaderStore::stop).
InFlightHasFetch ==
  mclient = "up" =>
    \A c \in inFlight :
      tx[c.txid].inc = "unverified" /\ tx[c.txid].height = c.height =>
        \/ c \in toFetch \cup failing \/ wire[c] > 0
        \/ \E i \in 1..Len(outcomes) : outcomes[i].claim = c

FailureStays ==
  \A t \in Txid :
    tx[t].inc = "failed" /\ IsConfirmed(tx'[t]) => Headers[tx[t].height] # tx[t].hash

\* reverify_remined_entries: a failed proof "stays terminal" while the header at
\* its height is the one it failed against; only history takes it back.
FailedIsTerminal == [][FailureStays]_vars

\* What makes it inductive: a failure is on disk as soon as it is in memory, and
\* a proof is never applied to an entry that has failed meanwhile.
FailureIsKnown ==
  /\ \A t \in Txid : tx[t].inc = "failed" => disk[t].inc = "failed"
  /\ pc = "apply" => tx[job.claim.txid].inc # "failed"

Shown == \A t \in Txid : HasBlock(tx[t]) => view[t] = CoinView(tx)[t]

\* commit_chain_update and apply_tx_merkle end with generate(): between two holds
\* of the coin-store mutex the coin view shows every transaction the tx store
\* places in a block with the status and height it has there.
ViewIsCurrent == MutexFree => Shown

\* What makes it inductive: mid-pass, what is not shown yet is marked dirty.
ViewOrDirty == MutexFree \/ ~dirty => Shown

\* The wallet agrees with the server's chain about t.
SettledOn(t) ==
  /\ tx[t].inc = "verified" /\ tx[t].height = ReportedHeight(t)
  /\ tx[t].hash = Chains[srv][ReportedHeight(t)]
  /\ view[t] = CoinView(tx)[t]

\* Once the server stops changing, every transaction of its chain that touches
\* the wallet is verified in its block and shown so by the coin view:
\* listen_txs is "folding everything the server reports into `coin_store`".
Settled == \A s \in Spk : \A t \in Touches[s] : Mined(srv, t) => SettledOn(t)
EventuallySettled == <>[]Settled

\* refresh_unconfirmed_history: a stored transaction the wallet has a coin of is
\* not left unconfirmed by a restart or a lost connection, though its pending
\* claim was only in memory.
CoinsSettled ==
  \A s \in Spk : \A t \in Funds[s] :
    tx[t].inc # "absent" /\ Mined(srv, t) => SettledOn(t)

\* A transaction the server dropped is eventually dropped by the wallet:
\* handle_history_response is to "generate diff & drop double spent txs".
Forgotten == \A t \in Txid : tx[t].inc # "absent" => OnServer(t)

\* With a server that never serves a wrong proof no entry stays VerifyFailed: a
\* proof that meets a reorg "is not a lying server, so stay silent; the reorg
\* re-queue (reverify_remined_entries) owns recovery".
NothingFailed == \A t \in Txid : tx[t].inc # "failed"
=============================================================================
