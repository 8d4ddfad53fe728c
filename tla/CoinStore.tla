------------------------------ MODULE CoinStore ------------------------------
(***************************************************************************)
(* The part of electrum/src/coin_store.rs and electrum/src/tx_store.rs that *)
(* decides what a wallet believes about a transaction: the inclusion state  *)
(* of each entry, the history diff, the queue of pending claims and the set *)
(* of merkle fetches in flight.                                             *)
(*                                                                          *)
(* Every operator here is the body of one method run under the coin-store   *)
(* mutex, as a function of the fields it reads.  The threads that call them *)
(* are in WalletSync.                                                       *)
(*                                                                          *)
(* A history is a function from the txids a server lists for a script to    *)
(* the height it reports, 0 standing for "in the mempool" (None in Rust).   *)
(* A header view is a function from heights to block hashes, NoBlock where  *)
(* the validated chain holds no header.                                     *)
(***************************************************************************)
EXTENDS Integers, FiniteSets

CONSTANTS Txid,       \* transactions that may touch the wallet
          MaxHeight,  \* highest block height of the instance
          Block,      \* block hashes
          NoBlock     \* "no header" / "no hash" / "no timestamp"

ASSUME CoinStoreAssumption ==
  /\ Txid # {}
  /\ MaxHeight \in Nat \ {0}
  /\ NoBlock \notin Block

Height == 1..MaxHeight

BlockOrNone == Block \cup {NoBlock}

HeaderView == [Height -> BlockOrNone]

ClaimAt == [txid : Txid, height : Height]

History == UNION {[S -> 0..MaxHeight] : S \in SUBSET Txid}

NoHistory == [t \in {} |-> 0]

-----------------------------------------------------------------------------
(* Inclusion and TxEntry.  "absent" stands for a txid the store does not     *)
(* hold; `time` is the block whose time stamps the entry, NoBlock if none.   *)

Absent == [inc |-> "absent", height |-> 0, hash |-> NoBlock, time |-> NoBlock]

Unconfirmed == [inc |-> "unconfirmed", height |-> 0, hash |-> NoBlock, time |-> NoBlock]

InBlock == {"unverified", "verified", "failed"}

TxEntry ==
  {Absent, Unconfirmed}
    \cup [inc : InBlock, height : Height, hash : Block, time : BlockOrNone]

\* Inclusion::height(): a failed proof is not trusted as confirmed.
IsConfirmed(e) == e.inc \in {"unverified", "verified"}

HasBlock(e) == e.inc \in InBlock

ClaimOf(tx, t) == [txid |-> t, height |-> tx[t].height]

\* TxStore::update_inclusion to a confirmed variant: the timestamp is kept,
\* and a missing txid is a no-op.
UpdateInclusion(e, inc, height, hash) ==
  IF e.inc = "absent" THEN e
  ELSE [e EXCEPT !.inc = inc, !.height = height, !.hash = hash]

\* TxStore::update_inclusion to Unconfirmed, which also clears the timestamp.
Demote(e) == IF e.inc = "absent" THEN e ELSE Unconfirmed

\* TxStore::insert_updates: only absent txids are inserted.
InsertUpdates(tx, txids) ==
  [t \in Txid |-> IF tx[t].inc = "absent" /\ t \in txids THEN Unconfirmed ELSE tx[t]]

-----------------------------------------------------------------------------
(* SpkHistory::insert: the diff of the new history against the last one.     *)

Added(prev, new) == DOMAIN new \ DOMAIN prev

Changed(prev, new) == {t \in DOMAIN new \cap DOMAIN prev : new[t] # prev[t]}

Removed(prev, new) == DOMAIN prev \ DOMAIN new

(* update_spk_history: drop the removed, demote the changed, and free what   *)
(* both held.                                                                *)

FoldTxs(tx, prev, new) ==
  [t \in Txid |-> CASE t \in Removed(prev, new) -> Absent
                    [] t \in Changed(prev, new) -> Demote(tx[t])
                    [] OTHER -> tx[t]]

FoldPending(pending, prev, new) ==
  {c \in pending : c.txid \notin Changed(prev, new)}

FoldInFlight(inFlight, prev, new) ==
  {c \in inFlight : c.txid \notin Removed(prev, new) \cup Changed(prev, new)}

\* Update::from_diff, prefilled with the txs the store already holds.
Update == [txs : SUBSET Txid, missing : SUBSET Txid]

UpdateFor(tx, prev, new) ==
  [txs |-> Added(prev, new),
   missing |-> {t \in Added(prev, new) : tx[t].inc = "absent"}]

IncompleteUpdates(updates) == {u \in updates : u.missing # {}}

\* handle_txs_response: fill what landed in every queued update.
FillUpdates(updates, landed) ==
  {[u EXCEPT !.missing = @ \ landed] : u \in updates}

CompletedTxs(updates) == UNION {u.txs : u \in updates \ IncompleteUpdates(updates)}

UpdateInFlight(updates, t) == \E u \in updates : t \in u.txs

-----------------------------------------------------------------------------
(* Pending claims.                                                           *)

\* The reported heights of one history, captured before it is folded.
Reported(new) ==
  {[txid |-> t, height |-> new[t]] : t \in {u \in DOMAIN new : new[u] > 0}}

\* Mutant: a re-reported tx keeps its earlier claim.
PrunePendingNothing(pending, reported) == pending

\* prune_pending_claim for every reported claim.
PrunePending(pending, reported) ==
  {c \in pending : \A r \in reported : r.txid = c.txid => r.height = c.height}

RecordReportedHeights(pending, tx, reported) ==
  PrunePending(pending, reported)
    \cup {r \in reported : tx[r.txid].inc \in {"absent", "unconfirmed"}}

\* Mutant: a failed entry is asked for again like an unverified one.
ToReverifyFailedAgain(tx, inFlight, hdr) ==
  {t \in Txid :
     /\ HasBlock(tx[t])
     /\ hdr[tx[t].height] # NoBlock
     /\ IF tx[t].inc \in {"unverified", "failed"}
          THEN ClaimOf(tx, t) \notin inFlight
          ELSE hdr[tx[t].height] # tx[t].hash}

(* reverify_remined_entries.  The txids whose proof the pass asks for: an    *)
(* unverified entry with no fetch in flight, and a verified or failed entry  *)
(* whose block was replaced at its height.                                   *)
ToReverify(tx, inFlight, hdr) ==
  {t \in Txid :
     /\ HasBlock(tx[t])
     /\ hdr[tx[t].height] # NoBlock
     /\ IF tx[t].inc = "unverified"
          THEN ClaimOf(tx, t) \notin inFlight
          ELSE hdr[tx[t].height] # tx[t].hash}

ReverifyTxs(tx, inFlight, hdr) ==
  [t \in Txid |-> IF t \in ToReverify(tx, inFlight, hdr)
                    THEN UpdateInclusion(tx[t], "unverified", tx[t].height, hdr[tx[t].height])
                    ELSE tx[t]]

ReverifyClaims(tx, inFlight, hdr) ==
  {ClaimOf(tx, t) : t \in ToReverify(tx, inFlight, hdr)}

(* resolve_pending_claims, which walks the queue by ascending height.        *)
Promotable(tx, pending, hdr) ==
  {c \in pending :
     /\ tx[c.txid].inc = "unconfirmed"
     /\ hdr[c.height] # NoBlock
     /\ \A d \in pending : d.txid = c.txid /\ d.height < c.height => hdr[d.height] = NoBlock}

\* Mutant: a header at the reported height is taken for the proof.
ResolveTxsTrusting(tx, promoted, hdr) ==
  [t \in Txid |-> IF \E c \in promoted : c.txid = t
                    THEN LET c == CHOOSE c \in promoted : c.txid = t
                         IN  UpdateInclusion(tx[t], "verified", c.height, hdr[c.height])
                    ELSE tx[t]]

ResolveTxs(tx, promoted, hdr) ==
  [t \in Txid |-> IF \E c \in promoted : c.txid = t
                    THEN LET c == CHOOSE c \in promoted : c.txid = t
                         IN  UpdateInclusion(tx[t], "unverified", c.height, hdr[c.height])
                    ELSE tx[t]]

\* What stays queued: the body has not landed, or no header at the height yet.
ResolvePending(tx, pending, updates, promoted) ==
  {c \in pending :
     CASE tx[c.txid].inc = "absent" -> UpdateInFlight(updates, c.txid)
       [] tx[c.txid].inc = "unconfirmed" ->
            ~ \E p \in promoted : p.txid = c.txid /\ p.height <= c.height
       [] OTHER -> FALSE}

\* confirmed_unverified_claims: what a (re)connected merkle client is asked.
ConfirmedUnverifiedClaims(tx) ==
  {ClaimOf(tx, t) : t \in {u \in Txid : tx[u].inc = "unverified"}}

-----------------------------------------------------------------------------
\* stamp_confirmation_times: date the confirmed entries that have no time yet.
StampTxs(tx, hdr) ==
  [t \in Txid |-> IF IsConfirmed(tx[t]) /\ tx[t].time = NoBlock
                    THEN [tx[t] EXCEPT !.time = hdr[tx[t].height]]
                    ELSE tx[t]]

\* coin_status, with a header scanner: a failed proof reads as unconfirmed.
CoinStatus(e) == IF e.inc = "failed" THEN "unconfirmed" ELSE e.inc

\* What generate() derives from each entry: whether its coins exist, and their
\* status and height, which only a confirmed entry has.
CoinView(tx) ==
  [t \in Txid |-> [status |-> CoinStatus(tx[t]),
                   height |-> IF IsConfirmed(tx[t]) THEN tx[t].height ELSE 0]]

\* spks_with_unconfirmed_txs: the scripts that own a coin of the coin view
\* whose transaction is unconfirmed.
UnconfirmedTxsWithCoins(tx, view) ==
  {t \in Txid : tx[t].inc = "unconfirmed" /\ view[t].status # "absent"}
=============================================================================
