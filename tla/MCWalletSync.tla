---------------------------- MODULE MCWalletSync ----------------------------
(* Small instances of WalletSync for TLC: three of them in the run of the    *)
(* safety properties, four in the run of what has to happen, one for the     *)
(* lost update.  The configuration gives one of the instances its values.    *)
EXTENDS WalletSync, TLC

CONSTANTS b1, b2, c2, c3, t1, t2, s1, s2

VARIABLE scene

MCBlock == {b1, b2, c2, c3}

\* A block is mined on b1, then replaced by a longer branch.
Reorg == << <<b1>>, <<b1, b2>>, <<b1, c2, c3>> >>

\* The same chain without a competing branch.
Growth == << <<b1>>, <<b1, b2>> >>

Empty == [b \in MCBlock |-> {}]

\* t1 is mined in b2; the branch mines it at the same height, one block later,
\* or not at all.
OneTx == {[Empty EXCEPT ![b2] = {t1}, ![c2] = {t1}],
          [Empty EXCEPT ![b2] = {t1}, ![c3] = {t1}],
          [Empty EXCEPT ![b2] = {t1}]}

SameHeight == {[Empty EXCEPT ![b2] = {t1}, ![c2] = {t1}]}

SameHeightOrNever == SameHeight \union {[Empty EXCEPT ![b2] = {t1}]}

NextHeight == {[Empty EXCEPT ![b2] = {t1}, ![c3] = {t1}]}

\* t1 is mined first, t2 after it or at the same time.
TwoTxs == {[Empty EXCEPT ![b1] = {t1}, ![b2] = {t2}],
           [Empty EXCEPT ![b2] = {t1, t2}]}

\* Which transactions touch the one watched script, and which fund it.
OneTouch == s1 :> {t1}
TwoTouch == s1 :> {t1, t2}
BothTouch == s1 :> {t1} @@ s2 :> {t1}

-----------------------------------------------------------------------------
(* Safety: a transaction two scripts share, through a reorg (the values of   *)
(* the configuration), and the two instances below, on the same chain.       *)

\* One script, a lost merkle client, and a branch that mines the transaction
\* where it was, one block later or not at all.
Reorged == INSTANCE WalletSync WITH
    Spk <- {s1}, Touches <- OneTouch, Funds <- OneTouch, Contents <- OneTx,
    MaxMerkleDrops <- 1

\* One script whose transaction stays at its height, while the mempool changes,
\* the server fails a request and the merkle client is lost.
Remined == INSTANCE WalletSync WITH
    Spk <- {s1}, Touches <- OneTouch, Funds <- OneTouch, Contents <- SameHeight,
    MaxPool <- 1, MaxErrors <- 1, MaxMerkleDrops <- 1

SafetyInit ==
  \/ scene = "shared" /\ Init
  \/ scene = "reorged" /\ Reorged!Init
  \/ scene = "remined" /\ Remined!Init

SafetyNext ==
  /\ scene' = scene
  /\ \/ scene = "shared" /\ Next
     \/ scene = "reorged" /\ Reorged!Next
     \/ scene = "remined" /\ Remined!Next

SafetySpec == SafetyInit /\ [][SafetyNext]_<<vars, scene>>

-----------------------------------------------------------------------------
(* What has to happen: two transactions on a growing chain, one of which the *)
(* wallet may have sent itself, with the header floor possibly above them    *)
(* (the values of the configuration), and the three instances below.         *)

\* One transaction through a reorg and a mempool change.  The branch mines it
\* at the height it had, so that its history does not change and only
\* reverify_remined_entries can put its claim right, or drops it.
Reorgs == INSTANCE WalletSync WITH
    Txid <- {t1}, Touches <- OneTouch, Funds <- OneTouch, Chains <- Reorg,
    Contents <- SameHeightOrNever, Floors <- {1}, MaxPool <- 1,
    MaxBroadcasts <- 0

\* One transaction, a restart, and a lost merkle client or a lost connection.
Restarts == INSTANCE WalletSync WITH
    Txid <- {t1}, Touches <- OneTouch, Funds <- OneTouch,
    Contents <- SameHeight, Floors <- {1}, MaxBroadcasts <- 0,
    MaxDrops <- 0, MaxMerkleDrops <- 1, MaxCrashes <- 1

Reconnects == INSTANCE WalletSync WITH
    Txid <- {t1}, Touches <- OneTouch, Funds <- OneTouch,
    Contents <- SameHeight, Floors <- {1}, MaxBroadcasts <- 0,
    MaxDrops <- 1, MaxMerkleDrops <- 0, MaxCrashes <- 1

LiveInit ==
  \/ scene = "grows" /\ Init
  \/ scene = "reorgs" /\ Reorgs!Init
  \/ scene = "restarts" /\ Restarts!Init
  \/ scene = "reconnects" /\ Reconnects!Init

In(grows, reorgs, restarts, reconnects) ==
  /\ scene' = scene
  /\ \/ scene = "grows" /\ grows
     \/ scene = "reorgs" /\ reorgs
     \/ scene = "restarts" /\ restarts
     \/ scene = "reconnects" /\ reconnects

LiveNext ==
  /\ scene' = scene
  /\ \/ scene = "grows" /\ Next
     \/ scene = "reorgs" /\ Reorgs!Next
     \/ scene = "restarts" /\ Restarts!Next
     \/ scene = "reconnects" /\ Reconnects!Next

\* WalletSync!Fairness, of the instance that runs.
LiveFairness ==
  LET all == <<vars, scene>>
  IN  /\ WF_all(In(ServerReplies, Reorgs!ServerReplies, Restarts!ServerReplies,
                   Reconnects!ServerReplies))
      /\ WF_all(In(HeaderStoreSteps, Reorgs!HeaderStoreSteps, Restarts!HeaderStoreSteps,
                   Reconnects!HeaderStoreSteps))
      /\ WF_all(In(MerkleSteps, Reorgs!MerkleSteps, Restarts!MerkleSteps,
                   Reconnects!MerkleSteps))
      /\ WF_all(In(ListenerSteps, Reorgs!ListenerSteps, Restarts!ListenerSteps,
                   Reconnects!ListenerSteps))
      /\ WF_all(In(ReconcilerSteps, Reorgs!ReconcilerSteps, Restarts!ReconcilerSteps,
                   Reconnects!ReconcilerSteps))

LiveSpec == LiveInit /\ [][LiveNext]_<<vars, scene>> /\ LiveFairness

\* Whatever happened on the way, the wallet settles once the server does: on a
\* growing chain listen_txs folds "everything the server reports", whatever a
\* claim had to wait for; across a reorg a transaction the server dropped leaves
\* the wallet (handle_history_response is to "drop double spent txs") and no
\* entry fails for good, "the reorg re-queue (reverify_remined_entries) owns
\* recovery"; through a restart and lost connections
\* refresh_unconfirmed_history asks again for what only memory knew.
WalletSettles ==
  <>[](/\ scene = "grows" => Settled
       /\ scene = "reorgs" => Reorgs!Forgotten /\ Reorgs!NothingFailed
       /\ scene = "restarts" => Restarts!CoinsSettled
       /\ scene = "reconnects" => Reconnects!CoinsSettled)

-----------------------------------------------------------------------------
(* The lost update: one transaction on a growing chain and one lost          *)
(* connection (the values of the configuration).                             *)

LostNext == scene' = scene /\ Next

LostSpec == scene = "lost" /\ Init /\ [][LostNext]_<<vars, scene>> /\ Fairness
=============================================================================
