------------------------------- MODULE SpScan -------------------------------
(***************************************************************************)
(* The silent-payment scan (sp/src/scan/mod.rs) and the account's          *)
(* broadcast worker (sp/src/account/mod.rs) over the stores of SpStores.   *)
(*                                                                         *)
(* The scan thread first looks for a fork below the blocks it scanned and  *)
(* rolls the stores back to it, then runs two passes with a frontier each: *)
(* the receive pass, whose blocks are fetched by a pool and committed in   *)
(* the order they arrive, and the spend pass, which walks the blocks in    *)
(* order behind a window of prefetched filters.  A step is one critical    *)
(* section of a store or one answer of the server.  The coin and the       *)
(* transaction store are flushed inside the section that changes them, so  *)
(* what is on disk is what is in memory; the scan state is flushed in two  *)
(* writes (ScanState::try_persist), the hashes before the frontiers, and   *)
(* disk holds what the second one last wrote.                              *)
(***************************************************************************)
EXTENDS SpStores

CONSTANTS
    Txs,          \* transactions that concern the account
    Ins,          \* tx -> the coins of the account it spends
    Pays,         \* the transactions with an output paying the account
    Own,          \* the transactions the account itself broadcasts
    Birthday,     \* the first height of a wallet that never scanned
    Genesis,      \* the blocks there are before the account is opened
    MaxHeight,    \* bound: blocks of a chain
    Window,       \* filters prefetched ahead of the sweep's cursor
    Overrides,    \* the explicit starts a consumer asks for
    Kinds,        \* which of the events below happen
    MaxEvents     \* bound: calls, reorganisations, failed requests, crashes

ASSUME SpScanAssumption ==
    /\ Ins \in [Txs -> SUBSET Txs] /\ Pays \subseteq Txs /\ Own \subseteq Txs
    /\ Genesis \in Seq([branch : {0}, txs : SUBSET Txs])
    /\ \A i, j \in DOMAIN Genesis : Genesis[i].txs \cap Genesis[j].txs # {} => i = j
    /\ \A i \in DOMAIN Genesis : Genesis[i].txs \cap Own = {}
    /\ Overrides \subseteq Nat \ {0}
    /\ Birthday \in Nat \ {0} /\ Window \in Nat \ {0}
    /\ MaxHeight \in Nat /\ MaxEvents \in Nat
    /\ Kinds \subseteq {"start", "stop", "cancel", "clear", "broadcast",
                    "reorg", "fault", "crash"}

VARIABLES
    chain,     \* the server's chain: a sequence of [branch, txs]
    branch,    \* the branch new blocks belong to
    mempool,   \* our broadcast transactions
    coins, txs, st, disk,
    sc,        \* the scan thread
    stop,      \* scanner_stop
    handle,    \* scanner_handle: "none", "held", or "joining" in stop_scan
    bc,        \* the broadcast worker
    skipped,   \* history: outputs passed over because the server said spent
    lapse,      \* history: something no later scan can see (below)
    events     \* calls, reorganisations, faults and crashes so far

vars == <<chain, branch, mempool, coins, txs, st, disk, sc, stop, handle,
          bc, skipped, lapse, events>>
world == <<chain, branch, mempool, lapse>>
stores == <<coins, txs, skipped>>
scanState == <<st, disk>>
control == <<stop, handle>>

Hash(h) == <<h, chain[h].branch>>
OnChain == UNION {b.txs : b \in Range(chain)}
SpentOnChain == UNION {Ins[t] : t \in OnChain}

(***************************************************************************)
(* A scan thread that does not run.  calm is a history flag: no            *)
(* reorganisation since the last scan began.                               *)
(***************************************************************************)
IdleScan ==
    [pc |-> "idle", then |-> "idle", mode |-> "oneshot", start |-> 0,
     end |-> 0, calm |-> FALSE, known |-> <<>>, probe |-> {}, fork |-> 0,
     pending |-> {}, got |-> <<>>, done |-> <<>>, height |-> 0, outs |-> {},
     watch |-> <<>>, cursor |-> 0, next |-> 0, flight |-> {}, buf |-> <<>>,
     failed |-> {}, abort |-> FALSE, outcome |-> "none"]

NoBroadcast == [pc |-> "idle", tx |-> "none"]

Init ==
    /\ chain = Genesis /\ branch = 0 /\ mempool = {}
    /\ coins = <<>> /\ txs = <<>>
    /\ st = NewScanState /\ disk = NewScanState
    /\ sc = IdleScan /\ stop = FALSE /\ handle = "none" /\ bc = NoBroadcast
    /\ skipped = {} /\ lapse = FALSE /\ events = 0

-----------------------------------------------------------------------------
(***************************************************************************)
(* The events a behaviour is bounded by.                                   *)
(***************************************************************************)
Event(kind) ==
    /\ kind \in Kinds
    /\ events < MaxEvents
    /\ events' = events + 1

(***************************************************************************)
(* The server's chain (external).                                          *)
(***************************************************************************)
Minable(B) ==
    /\ B \cap OnChain = {}
    /\ B \cap Own \subseteq mempool
    /\ \A t \in B : /\ Ins[t] \subseteq OnChain \cup B
                    /\ Ins[t] \cap SpentOnChain = {}
                    /\ \A u \in B \ {t} : Ins[t] \cap Ins[u] = {}

(***************************************************************************)
(* lapse records what a later scan cannot make good: a reorganisation      *)
(* while a scan runs or while coins are stored above the frontier, whose   *)
(* blocks have no hash kept; a progress cleared over a reorganisation; a   *)
(* crash between the two writes of the scan state or inside a broadcast; a *)
(* broadcast mined before it is recorded.                                  *)
(***************************************************************************)
StaleHash ==
    \E h \in DOMAIN st.hashes : h > Len(chain) \/ st.hashes[h] # Hash(h)

CoinsAhead ==
    \E c \in DOMAIN coins : coins[c].height > Max({st.scanned, 0})

Mine(B) ==
    /\ Len(chain) < MaxHeight
    /\ Minable(B)
    /\ chain' = Append(chain, [branch |-> branch, txs |-> B])
    /\ lapse' = (lapse \/ bc.tx \in B)
    /\ UNCHANGED <<branch, mempool, stores, scanState, sc, control, bc, events>>

Reorg(keep) ==
    /\ Event("reorg")
    /\ chain' = SubSeq(chain, 1, keep)
    /\ branch' = branch + 1
    /\ sc' = [sc EXCEPT !.calm = FALSE]
    /\ lapse' = (lapse \/ sc.pc \notin {"idle", "loop"} \/ CoinsAhead)
    /\ UNCHANGED <<mempool, stores, scanState, control, bc>>

-----------------------------------------------------------------------------
(***************************************************************************)
(* Steps of the scan thread.  EndScan(s, o) is how a scan of a one-shot    *)
(* thread ends, and one of the continuous thread that failed or stopped; a *)
(* completed continuous scan goes back to the loop.                        *)
(***************************************************************************)
EndScan(s, o) ==
    [IdleScan EXCEPT
        !.pc = IF s.mode = "continuous" /\ o = "completed" THEN "loop"
               ELSE "idle",
        !.mode = IF o = "completed" THEN s.mode ELSE "oneshot",
        !.calm = s.calm, !.end = s.end, !.outcome = o]

(***************************************************************************)
(* ScanState::persist: the hashes are flushed, then the frontiers.         *)
(***************************************************************************)
Record(newSt, s) ==
    /\ st' = newSt
    /\ disk' = [disk EXCEPT !.hashes = newSt.hashes]
    /\ sc' = [s EXCEPT !.pc = "flush", !.then = s.pc]

FlushFrontiers ==
    /\ sc.pc = "flush"
    /\ disk' = st
    /\ sc' = [sc EXCEPT !.pc = sc.then, !.then = "idle"]
    /\ UNCHANGED <<world, stores, st, control, bc, events>>

HasWork(override) ==
    \/ override # Never
    \/ NextStart(st.scanned, Birthday) <= Len(chain)
    \/ NextStart(st.spend, Birthday) <= Len(chain)

BeginScan(s, override) ==
    [s EXCEPT
        !.pc = "fork",
        !.start = IF override = Never THEN NextStart(st.scanned, Birthday)
                  ELSE Max({override, Birthday}),
        !.end = Len(chain), !.calm = TRUE,
        !.known = st.hashes, !.probe = DOMAIN st.hashes, !.outcome = "none"]

(***************************************************************************)
(* scan_oneshot and start_continuous_scan.  One-shot is refused while a    *)
(* thread runs, continuous while a handle is held, finished or not.  A     *)
(* start that is given is at or below the resume point, a rescan.          *)
(***************************************************************************)
StartScan(mode, override) ==
    /\ sc.pc = "idle"
    /\ handle \in IF mode = "oneshot" THEN {"none", "held"} ELSE {"none"}
    /\ override <= NextStart(st.scanned, Birthday)
    /\ HasWork(override)
    /\ stop' = FALSE /\ handle' = "held"
    /\ sc' = BeginScan([IdleScan EXCEPT !.mode = mode], override)
    /\ Event("start")
    /\ UNCHANGED <<world, stores, scanState, bc>>

ContinueLoop ==
    /\ sc.pc = "loop"
    /\ \/ /\ stop
          /\ sc' = EndScan(sc, "stopped")
       \/ /\ ~stop /\ HasWork(Never)
          /\ sc' = BeginScan(sc, Never)
    /\ UNCHANGED <<world, stores, scanState, control, bc, events>>

(***************************************************************************)
(* stop_scan raises the flag and joins the thread; a consumer that cloned  *)
(* the flag (cancel_flag) only raises it.                                  *)
(***************************************************************************)
StopScan ==
    /\ handle = "held"
    /\ stop' = TRUE
    /\ handle' = "joining"
    /\ Event("stop")
    /\ UNCHANGED <<world, stores, scanState, sc, bc>>

Joined ==
    /\ handle = "joining" /\ sc.pc = "idle"
    /\ handle' = "none"
    /\ UNCHANGED <<world, stores, scanState, sc, stop, bc, events>>

Cancel ==
    /\ sc.pc # "idle" /\ ~stop
    /\ stop' = TRUE
    /\ Event("cancel")
    /\ UNCHANGED <<world, stores, scanState, sc, handle, bc>>

ClearScanState ==
    /\ sc.pc = "idle" /\ handle # "joining"
    /\ st # NewScanState
    /\ Record(NewScanState, IdleScan)
    /\ lapse' = (lapse \/ StaleHash)
    /\ Event("clear")
    /\ UNCHANGED <<chain, branch, mempool, stores, control, bc>>

(***************************************************************************)
(* A request that fails ends the scan; nothing is saved.                   *)
(***************************************************************************)
FailScan ==
    /\ sc' = EndScan(sc, "failed")
    /\ UNCHANGED <<world, stores, scanState, control, bc>>

RequestFails ==
    /\ \/ sc.pc \in {"loop", "fork", "receive"}
       \/ sc.pc = "next" /\ sc.cursor \in DOMAIN sc.buf
    /\ Event("fault")
    /\ FailScan

-----------------------------------------------------------------------------
\* Mutant: with no hash kept there is nothing to compare, and the scan is over.
FindForkOrNothing ==
    /\ sc.pc = "fork"
    /\ LET h == Max(sc.probe)
       IN  \/ /\ sc.probe = {} /\ sc.known = <<>>
              /\ sc' = EndScan(sc, "completed")
              /\ UNCHANGED <<world, stores, scanState, control, bc>>
           \/ /\ sc.probe = {} /\ sc.known # <<>>     \* ReorgTooDeep
              /\ FailScan
           \/ /\ sc.probe # {} /\ h > Len(chain)      \* no such block
              /\ FailScan
           \/ /\ sc.probe # {} /\ h <= Len(chain)
              /\ sc' = CASE Hash(h) # sc.known[h] ->
                              [sc EXCEPT !.probe = @ \ {h}]
                         [] /\ Hash(h) = sc.known[h]
                            /\ sc.probe = DOMAIN sc.known ->
                              [sc EXCEPT !.pc = "floor"]
                         [] OTHER ->
                              [sc EXCEPT !.pc = "rollCoins", !.fork = h,
                                         !.start = Min({@, h + 1})]
              /\ UNCHANGED <<world, stores, scanState, control, bc>>
    /\ UNCHANGED events

(***************************************************************************)
(* handle_reorg: find_fork asks the server for the hash of each block kept,*)
(* from the highest down; then the coins, the transactions and the scan    *)
(* state are rolled back to the highest one that still matches.            *)
(***************************************************************************)
FindFork ==
    /\ sc.pc = "fork"
    /\ LET h == Max(sc.probe)
       IN  \/ /\ sc.probe = {} /\ sc.known = <<>>
              /\ sc' = [sc EXCEPT !.pc = "floor"]
              /\ UNCHANGED <<world, stores, scanState, control, bc>>
           \/ /\ sc.probe = {} /\ sc.known # <<>>     \* ReorgTooDeep
              /\ FailScan
           \/ /\ sc.probe # {} /\ h > Len(chain)      \* no such block
              /\ FailScan
           \/ /\ sc.probe # {} /\ h <= Len(chain)
              /\ sc' = CASE Hash(h) # sc.known[h] ->
                              [sc EXCEPT !.probe = @ \ {h}]
                         [] /\ Hash(h) = sc.known[h]
                            /\ sc.probe = DOMAIN sc.known ->
                              [sc EXCEPT !.pc = "floor"]
                         [] OTHER ->
                              [sc EXCEPT !.pc = "rollCoins", !.fork = h,
                                         !.start = Min({@, h + 1})]
              /\ UNCHANGED <<world, stores, scanState, control, bc>>
    /\ UNCHANGED events

RollCoins ==
    /\ sc.pc = "rollCoins"
    /\ coins' = RollBackCoins(coins, sc.fork,
                              {sc.known[h] : h \in {h \in DOMAIN sc.known :
                                                       h > sc.fork}})
    /\ sc' = [sc EXCEPT !.pc = "rollTxs", !.pending = SpendingTxids(coins')]
    /\ UNCHANGED <<world, txs, skipped, scanState, control, bc, events>>

RollTxs ==
    /\ sc.pc = "rollTxs"
    /\ txs' = RollBackTxs(txs, sc.fork, sc.pending)
    /\ sc' = [sc EXCEPT !.pc = "rollState", !.pending = {}]
    /\ UNCHANGED <<world, coins, skipped, scanState, control, bc, events>>

RollState ==
    /\ sc.pc = "rollState"
    /\ Record(RollBackState(st, sc.fork), [sc EXCEPT !.pc = "floor"])
    /\ UNCHANGED <<world, stores, control, bc, events>>

(***************************************************************************)
(* process_scan: the spend frontier of a first scan, and which pass has    *)
(* work.                                                                   *)
(***************************************************************************)
SpendFloor ==
    /\ sc.pc = "floor"
    /\ IF st.spend = Never
       THEN Record(AdvanceSpendFrontier(st, sc.start - 1),
                   [sc EXCEPT !.pc = "work"])
       ELSE sc' = [sc EXCEPT !.pc = "work"] /\ UNCHANGED scanState
    /\ UNCHANGED <<world, stores, control, bc, events>>

ChoosePass ==
    /\ sc.pc = "work"
    /\ sc' = CASE sc.start <= sc.end -> [sc EXCEPT !.pc = "receive"]
               [] /\ sc.start > sc.end
                  /\ EffectiveSpendStart(st, sc.start) <= sc.end ->
                    [sc EXCEPT !.pc = "spend"]
               [] OTHER -> EndScan(sc, "failed")      \* InvalidRange
    /\ UNCHANGED <<world, stores, scanState, control, bc, events>>

-----------------------------------------------------------------------------
(***************************************************************************)
(* The receive pass.  A fetch worker answers any height of the range, in   *)
(* any order, unless the scan is stopped.                                  *)
(***************************************************************************)
FetchBlock(h) ==
    /\ sc.pc = "receive" /\ ~stop
    /\ h \in sc.start..sc.end
    /\ h \notin DOMAIN sc.got \cup DOMAIN sc.done
    /\ IF h <= Len(chain)
       THEN /\ sc' = [sc EXCEPT !.got = Merge(@, Entry(h, [hash |-> Hash(h),
                                                             txs |-> chain[h].txs]))]
            /\ UNCHANGED <<world, stores, scanState, control, bc>>
       ELSE FailScan
    /\ UNCHANGED events

(***************************************************************************)
(* The collector takes a block whose filter matched or not; on a match the *)
(* outputs of the block are asked for once more (scan_utxos), and those    *)
(* the server reports as spent are skipped.                                *)
(***************************************************************************)
OwnedOutputs(h, found) ==
    {t \in found \cap chain[h].txs \cap Pays : t \notin SpentOnChain}

\* candidate_match: the filter of the block against the scripts its tweaks
\* derive.  A false positive costs one request and finds no output.
Matches(b) == b.txs \cap Pays # {}

\* derive_owned, on a match only.
DeriveOwned(h, b) == IF Matches(b) THEN OwnedOutputs(h, b.txs) ELSE {}

CommitBlock(h) ==
    /\ sc.pc = "receive"
    /\ h \in DOMAIN sc.got
    /\ LET b    == sc.got[h]
           outs == DeriveOwned(h, b)
       IN  IF Matches(b) /\ h > Len(chain) THEN FailScan
           ELSE /\ coins' = InsertOutputs(coins, outs, h)
                /\ sc' = [sc EXCEPT
                            !.pc = IF outs = {} THEN "tip" ELSE "commitTxs",
                            !.got = Restrict(@, DOMAIN @ \ {h}),
                            !.done = Merge(@, Entry(h, b.hash)),
                            !.height = h, !.outs = outs]
                /\ skipped' = (skipped \ outs) \cup
                     (IF Matches(b) THEN (b.txs \cap chain[h].txs \cap Pays) \ outs
                      ELSE {})
                /\ UNCHANGED <<world, txs, scanState, control, bc>>
    /\ UNCHANGED events

CommitTxs ==
    /\ sc.pc = "commitTxs"
    /\ txs' = RecordTxs(txs, sc.outs, sc.height)
    /\ sc' = [sc EXCEPT !.pc = "tip", !.outs = {}, !.height = 0]
    /\ UNCHANGED <<world, coins, skipped, scanState, control, bc, events>>

(***************************************************************************)
(* recv_tip: the end of the contiguous blocks committed from the start, 0  *)
(* when the first one is missing.                                          *)
(***************************************************************************)
ReceiveTip ==
    IF sc.start \notin DOMAIN sc.done THEN 0
    ELSE Max({h \in DOMAIN sc.done : sc.start..h \subseteq DOMAIN sc.done})

RecordTip(s) ==
    IF ReceiveTip = 0 THEN sc' = s /\ UNCHANGED scanState
    ELSE Record(RecordFrontier(st, sc.start, ReceiveTip, sc.done), s)

(***************************************************************************)
(* After a commit: the timed checkpoint, then the stop flag.               *)
(***************************************************************************)
Checkpoint ==
    /\ sc.pc = "tip"
    /\ RecordTip([sc EXCEPT !.pc = "stopCheck", !.height = 0])
    /\ UNCHANGED <<world, stores, control, bc, events>>

StopCheck ==
    /\ sc.pc \in {"tip", "stopCheck"}
    /\ IF stop THEN RecordTip(EndScan(sc, "stopped"))
       ELSE /\ sc' = [sc EXCEPT !.pc = "receive", !.height = 0]
            /\ UNCHANGED scanState
    /\ UNCHANGED <<world, stores, control, bc, events>>

\* Mutant: done with the highest block, whatever came before it.
ReceiveDoneAtEnd ==
    /\ sc.pc = "receive" /\ sc.got = <<>>
    /\ \/ /\ sc.end \in DOMAIN sc.done
          /\ RecordTip([sc EXCEPT !.pc = "spend", !.done = <<>>])
       \/ /\ sc.end \notin DOMAIN sc.done /\ stop
          /\ RecordTip(EndScan(sc, "stopped"))
    /\ UNCHANGED <<world, stores, control, bc, events>>

ReceiveDone ==
    /\ sc.pc = "receive" /\ sc.got = <<>>
    /\ \/ /\ DOMAIN sc.done = sc.start..sc.end
          /\ RecordTip([sc EXCEPT !.pc = "spend", !.done = <<>>])
       \/ /\ DOMAIN sc.done # sc.start..sc.end /\ stop
          /\ RecordTip(EndScan(sc, "stopped"))
    /\ UNCHANGED <<world, stores, control, bc, events>>

-----------------------------------------------------------------------------
(***************************************************************************)
(* The spend pass.  Refill submits the fetches of the window ahead of the  *)
(* cursor, unless one failed.                                              *)
(***************************************************************************)
Refill(s) ==
    LET limit == Min({s.cursor + Window, s.end + 1})
    IN  IF s.abort THEN s
        ELSE [s EXCEPT !.flight = @ \cup s.next..(limit - 1),
                       !.next = Max({@, limit})]

JumpTo(s, to) ==
    Refill([s EXCEPT !.cursor = to, !.next = Max({@, to}),
                     !.buf = KeptFrom(@, to)])

SweepDone(s) == Record(AdvanceSpendFrontier(st, s.end), EndScan(s, "completed"))

BeginSweep ==
    /\ sc.pc = "spend"
    /\ LET resume == EffectiveSpendStart(st, sc.start)
           watch  == Watchable(coins, resume)
           cursor == Max({resume, WatchFloor(watch)})
       IN  IF watch = <<>> \/ cursor > sc.end
           THEN SweepDone(sc)
           ELSE /\ sc' = Refill([sc EXCEPT !.pc = "sweep", !.watch = watch,
                                           !.cursor = cursor,
                                           !.next = cursor])
                /\ UNCHANGED scanState
    /\ UNCHANGED <<world, stores, control, bc, events>>

FetchFilter(h) ==
    /\ sc.pc # "idle" /\ h \in sc.flight /\ ~sc.abort
    /\ h <= Len(chain)
    /\ sc' = [sc EXCEPT
                !.flight = @ \ {h},
                !.buf = IF h < sc.cursor THEN @
                        ELSE Merge(@, Entry(h, [hash |-> Hash(h),
                                                txs |-> chain[h].txs]))]
    /\ UNCHANGED <<world, stores, scanState, control, bc, events>>

(***************************************************************************)
(* A filter that cannot be fetched: the pool aborts and the collector is   *)
(* sent the error with its height.                                         *)
(***************************************************************************)
AbortFetches(h) ==
    /\ h \in sc.flight /\ ~sc.abort
    /\ sc' = [sc EXCEPT !.flight = @ \ {h}, !.abort = TRUE, !.failed = {h}]
    /\ UNCHANGED <<world, stores, scanState, control, bc>>

FilterMissing(h) == h > Len(chain) /\ AbortFetches(h) /\ UNCHANGED events

FilterFails(h) == h <= Len(chain) /\ AbortFetches(h) /\ Event("fault")

SweepTop ==
    /\ sc.pc = "sweep"
    /\ CASE sc.cursor > sc.end -> SweepDone(sc)
         [] sc.cursor <= sc.end /\ stop ->
              Record(AdvanceSpendFrontier(st, sc.cursor - 1),
                     EndScan(sc, "stopped"))
         [] OTHER -> /\ sc' = Refill([sc EXCEPT !.pc = "next"])
                     /\ UNCHANGED scanState
    /\ UNCHANGED <<world, stores, control, bc, events>>

(***************************************************************************)
(* BlindbitSpendScanner::next blocked on its channel: an error below the   *)
(* cursor is discarded as stale, any other ends the scan.                  *)
(***************************************************************************)
TakeFailure ==
    /\ sc.pc = "next"
    /\ \E h \in sc.failed :
          IF h < sc.cursor
          THEN /\ sc' = [sc EXCEPT !.failed = {}]
               /\ UNCHANGED <<world, stores, scanState, control, bc>>
          ELSE FailScan
    /\ UNCHANGED events

(***************************************************************************)
(* The spends of the block at the cursor: the inputs are hashed with the   *)
(* hash of the filter's block and compared with the index the server has   *)
(* now, so an index of another block matches nothing.                      *)
(***************************************************************************)
SweepBlock ==
    /\ sc.pc = "next"
    /\ sc.cursor \in DOMAIN sc.buf
    /\ LET h     == sc.cursor
           b     == sc.buf[h]
           hits  == DOMAIN sc.watch \cap UNION {Ins[t] : t \in b.txs}
           spent == IF hits # {} /\ h <= Len(chain) /\ b.hash = Hash(h)
                    THEN hits ELSE {}
       IN  IF hits # {} /\ h > Len(chain) THEN FailScan
           ELSE /\ coins' = ConfirmSpend(coins, spent, b.hash)
                /\ sc' = Refill(
                    [sc EXCEPT
                       !.pc = "sweepTxs", !.height = h, !.cursor = h + 1,
                       !.buf = Restrict(@, DOMAIN @ \ {h}),
                       !.watch = Restrict(@, DOMAIN @ \ spent),
                       !.outs = {coins[c].status.by :
                                   c \in {c \in spent \cap DOMAIN coins :
                                          coins[c].status.kind = "spent"}}])
                /\ UNCHANGED <<world, txs, skipped, scanState, control, bc>>
    /\ UNCHANGED events

SweepTxs ==
    /\ sc.pc = "sweepTxs"
    /\ txs' = ConfirmTxs(txs, sc.outs, sc.height)
    /\ sc' = [sc EXCEPT !.pc = "swept", !.outs = {}, !.height = 0]
    /\ UNCHANGED <<world, coins, skipped, scanState, control, bc, events>>

SweepCheckpoint ==
    /\ sc.pc = "swept"
    /\ Record(AdvanceSpendFrontier(st, sc.cursor - 1),
              [sc EXCEPT !.pc = "jump"])
    /\ UNCHANGED <<world, stores, control, bc, events>>

(***************************************************************************)
(* The gap up to the lowest coin still watched is recorded as swept.       *)
(***************************************************************************)
SweepJump ==
    /\ sc.pc \in {"swept", "jump"}
    /\ LET floor == WatchFloor(sc.watch)
       IN  CASE sc.watch = <<>> -> SweepDone(sc)
             [] sc.watch # <<>> /\ floor > sc.cursor ->
                  Record(AdvanceSpendFrontier(st, floor - 1),
                         JumpTo([sc EXCEPT !.pc = "sweep"], floor))
             [] OTHER -> /\ sc' = [sc EXCEPT !.pc = "sweep"]
                         /\ UNCHANGED scanState
    /\ UNCHANGED <<world, stores, control, bc, events>>

-----------------------------------------------------------------------------
(***************************************************************************)
(* BroadcastWorker: every input is resolved from the coin store, the       *)
(* transaction is sent, and only then recorded, first in the coins and     *)
(* then in the transactions.                                               *)
(***************************************************************************)
Broadcast(t) ==
    /\ bc.pc = "idle"
    /\ t \in Own \ (mempool \cup OnChain)
    /\ Ins[t] \subseteq DOMAIN coins
    /\ Ins[t] \subseteq OnChain \cup mempool /\ Ins[t] \cap SpentOnChain = {}
    /\ mempool' = mempool \cup {t}
    /\ bc' = [pc |-> "coins", tx |-> t]
    /\ Event("broadcast")
    /\ UNCHANGED <<chain, branch, lapse, stores, scanState, sc, control>>

\* Mutant: the second record is skipped while a scan holds the store.
ApplyCoinsAlone ==
    /\ bc.pc = "coins"
    /\ coins' = InjectSpend(coins, bc.tx, Ins[bc.tx], {bc.tx} \cap Pays)
    /\ bc' = IF sc.pc = "idle" THEN [bc EXCEPT !.pc = "txs"] ELSE NoBroadcast
    /\ UNCHANGED <<world, txs, skipped, scanState, sc, control, events>>

ApplyCoins ==
    /\ bc.pc = "coins"
    /\ coins' = InjectSpend(coins, bc.tx, Ins[bc.tx], {bc.tx} \cap Pays)
    /\ bc' = [bc EXCEPT !.pc = "txs"]
    /\ UNCHANGED <<world, txs, skipped, scanState, sc, control, events>>

ApplyTxs ==
    /\ bc.pc = "txs"
    /\ txs' = Merge(Entry(bc.tx, Unconfirmed), txs)
    /\ bc' = NoBroadcast
    /\ UNCHANGED <<world, coins, skipped, scanState, sc, control, events>>

(***************************************************************************)
(* The process dies and the account is opened again from its files.        *)
(***************************************************************************)
Crash ==
    /\ Event("crash")
    /\ st' = disk
    /\ lapse' = (lapse \/ sc.pc = "flush" \/ bc.pc # "idle")
    /\ sc' = IdleScan /\ bc' = NoBroadcast
    /\ stop' = FALSE /\ handle' = "none"
    /\ UNCHANGED <<chain, branch, mempool, stores, disk>>

-----------------------------------------------------------------------------
ScanStep ==
    \/ FlushFrontiers \/ ContinueLoop
    \/ FindFork \/ RollCoins \/ RollTxs \/ RollState
    \/ SpendFloor \/ ChoosePass
    \/ \E h \in DOMAIN sc.got : CommitBlock(h)
    \/ CommitTxs \/ StopCheck \/ ReceiveDone
    \/ BeginSweep \/ SweepTop \/ TakeFailure \/ SweepBlock
    \/ SweepTxs \/ SweepJump

Server == \E h \in 1..MaxHeight : FetchBlock(h) \/ FetchFilter(h) \/ FilterMissing(h)

Next ==
    \/ \E B \in SUBSET Txs : Mine(B)
    \/ \E keep \in 0..(Len(chain) - 1) : Reorg(keep)
    \/ \E mode \in {"oneshot", "continuous"}, o \in {Never} \cup Overrides :
          StartScan(mode, o)
    \/ StopScan \/ Joined \/ Cancel \/ ClearScanState \/ RequestFails
    \/ ScanStep \/ Server \/ Checkpoint \/ SweepCheckpoint
    \/ \E h \in 1..MaxHeight : FilterFails(h)
    \/ \E t \in Own : Broadcast(t)
    \/ ApplyCoins \/ ApplyTxs \/ Crash

Spec == Init /\ [][Next]_vars

FairSpec == Spec /\ WF_vars(ScanStep) /\ WF_vars(Server) /\ WF_vars(Joined)

-----------------------------------------------------------------------------
Hashes == (1..MaxHeight) \X (0..MaxEvents)
Status == [kind : {"unspent", "spent", "mined"}, by : Txs \cup {"none"},
           at : Hashes \cup {NoBlock}]

(***************************************************************************)
(* The stores hold records of their kind and every block hash is one the   *)
(* server served (SpCoinEntry, SpTxEntry, ScanState).                      *)
(***************************************************************************)
TypeOK ==
    /\ DOMAIN coins \subseteq Pays
    /\ Range(coins) \subseteq [height : 0..MaxHeight, status : Status]
    /\ DOMAIN txs \subseteq Txs /\ Range(txs) \subseteq 0..MaxHeight
    /\ \A s \in {st, disk} :
          /\ {s.scanned, s.spend} \subseteq Never..MaxHeight
          /\ Range(s.hashes) \subseteq Hashes
          /\ \A h \in DOMAIN s.hashes : s.hashes[h][1] = h

(***************************************************************************)
(* A block the scan vouches for - its hash is kept and still on the chain  *)
(* - has each of its outputs to the account in the coin store, at its      *)
(* height, however the fetches, stops, crashes, reorganisations and        *)
(* broadcasts interleaved (commit_block before record_scan_frontier); the  *)
(* outputs the server called spent excepted (scan_utxos).                  *)
(***************************************************************************)
ScannedCoinsAreStored ==
    \A h \in DOMAIN st.hashes :
       h <= Len(chain) /\ st.hashes[h] = Hash(h) =>
          \A t \in (chain[h].txs \cap Pays) \ skipped :
             t \in DOMAIN coins /\ coins[t].height = h

Agrees ==
    /\ \A c \in DOMAIN coins :
          coins[c].height \in 1..sc.end => c \in chain[coins[c].height].txs
    /\ \A h \in 1..sc.end, t \in Txs :
          t \in chain[h].txs =>
             /\ Ins[t] \cap Spendable(coins) = {}
             /\ t \in DOMAIN txs => txs[t] = h
             /\ t \in Pays \ skipped =>
                   t \in DOMAIN coins /\ coins[t].height = h

Completed ==
    sc.pc \in {"idle", "loop"} /\ sc.outcome = "completed" /\ sc.calm

(***************************************************************************)
(* After a completed scan, and until the next reorganisation, the coin     *)
(* store agrees with the chain up to the scan's end: no coin of a          *)
(* disconnected block, every output to the account, none of the coins the  *)
(* chain spends is spendable, and every transaction of the history that is *)
(* mined is confirmed (handle_reorg, then the two passes).  A sweep learns *)
(* that a coin is spent and not by what: of two transactions of ours that  *)
(* spend it, the one recorded last is confirmed.                           *)
(***************************************************************************)
CompletedScanAgrees == Completed /\ ~lapse => Agrees

(***************************************************************************)
(* The same without the exceptions: a reorganisation of fewer blocks than  *)
(* the hashes kept is handled whenever it comes (REORG_DEPTH).             *)
(***************************************************************************)
ReorgIsHandled == Completed => Agrees

(***************************************************************************)
(* A coin marked spent by a broadcast has the transaction in the history,  *)
(* before, across and after a reorganisation that unconfirms it            *)
(* (SpTxStore::roll_back keeps the transactions still pending).            *)
(***************************************************************************)
SpendsKeepTheirTx ==
    lapse \/ SpendingTxids(coins) \subseteq DOMAIN txs \cup {bc.tx}

(***************************************************************************)
(* stop_scan returns: the thread it joins ends.                            *)
(***************************************************************************)
StopReturns == handle = "joining" ~> handle # "joining"

(***************************************************************************)
(* A continuous scan that neither fails nor is stopped brings both         *)
(* frontiers to the tip of a chain that stops growing.                     *)
(***************************************************************************)
Scanning == sc.pc # "idle" /\ sc.mode = "continuous" /\ ~stop
CaughtUp == st.scanned >= Len(chain) /\ st.spend >= Len(chain)

ContinuousCatchesUp == <>[]Scanning => <>[]CaughtUp
=============================================================================
