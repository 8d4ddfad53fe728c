----------------------------- MODULE HeaderStore -----------------------------
(***************************************************************************)
(* electrum/src/header_store.rs: the block headers a wallet follows its    *)
(* server with.  The store is a map from heights to headers that anyone    *)
(* may read under its mutex; one worker thread per connection writes it,   *)
(* under the writer token of its spawn, and a replay thread checks the     *)
(* chain loaded from disk.  A consumer stops, restarts and follows the     *)
(* store, and asks it to reach further down.                               *)
(*                                                                         *)
(* A header is a model value with a parent and a work.  Its own proof of   *)
(* work, times and bits are taken to be right: what a header is checked    *)
(* for here is its place (linkage, genesis, checkpoint, and the window of  *)
(* ancestors a retarget needs).  The network is one whose genesis is       *)
(* pinned and that retargets.  A message is one of the client's            *)
(* HeaderResponses; Wake, progress events and logs are left out.           *)
(***************************************************************************)
EXTENDS Naturals, Sequences, FiniteSets, Functions

CONSTANTS
    Header,       \* headers
    Genesis,      \* the genesis of the network
    Prev,         \* Prev[b]: prev_blockhash, as the header it names
    Work,         \* Work[b]: the work of b
    Chains,       \* the server's successive best chains, [0 .. tip -> Header]
    Files,        \* the chains a file may hold when the store opens
    Checkpoints,  \* the checkpoints a consumer may open the store with
    Interval,     \* retarget_interval, also the size of a backfill batch
    WalkChunk,    \* REORG_WALK_CHUNK
    MaxDeferred,  \* MAX_DEFERRED
    Wanted,       \* the heights an extension may be asked for
    MaxRestarts,  \* bound on the writer token
    Events,       \* the faults and the consumer's calls that may happen
    MaxEvents     \* how many of them

NoHeader == [h |-> 0, b |-> "none"]
NoAsk == [start |-> 0, count |-> 0]
Subscribe == [start |-> 0, count |-> 0]
NoChain == << >>
Tokens == 0 .. MaxRestarts

ASSUME ChainsAssumption ==
    /\ Interval \in Nat \ {0}
    /\ Len(Chains) \in Nat \ {0} /\ DOMAIN Chains = 1 .. Len(Chains)
    /\ \A i \in DOMAIN Chains :
        /\ \E tip \in DOMAIN Chains[i] \cap Nat : Chains[i] \in [0 .. tip -> Header]
        /\ \A h \in DOMAIN Chains[i] \ {0} : Prev[Chains[i][h]] = Chains[i][h - 1]

\* A file holds finitely many headers, and heights are naturals.
ASSUME BoundsAssumption ==
    /\ \A file \in Files :
        /\ file \in [DOMAIN file -> Header] /\ DOMAIN file \subseteq Nat
        /\ file # NoChain => \E top \in DOMAIN file : \A h \in DOMAIN file : h <= top
    /\ \A cp \in Checkpoints : \A c \in cp : c.h \in Nat
    /\ Wanted \subseteq Nat /\ WalkChunk \in Nat \ {0} /\ MaxRestarts \in Nat

VARIABLES
    store,     \* Inner.store: a partial function from heights to headers
    disk,      \* its file: the store as it was last flushed
    valid,     \* Inner.validation_state
    snapshot,  \* what the replay thread checks
    replay,    \* the replay thread: "check", "publish" or "done"
    token,     \* writer_token
    stopped,   \* stopped
    checkpoint, \* {}, or {[h, b]} for the block the consumer vouches for
    wanted,    \* extend_down: the heights asked for, at most one
    wk,        \* wk[k]: the worker spawned under token k
    req,       \* req[k]: requests of k's connection the server has not answered
    resp,      \* resp[k]: responses k has not received
    up,        \* up[k]: k's connection is open
    merkle,    \* the merkle forwarder of the current token is running
    best,      \* the server's best chain, an index of Chains
    told,      \* told[k]: the chain last announced to k, 0 before it subscribed
    left       \* how many of Events may still happen

\* One of the bounded events happens.
Spend(event) == /\ event \in Events /\ left > 0
                /\ left' = left - 1

storeVars == <<store, disk, valid>>
openVars == <<checkpoint, snapshot, replay>>
ownVars == <<token, stopped, merkle>>
linkVars == <<req, resp, up, told>>
vars == <<store, disk, valid, checkpoint, snapshot, replay, token, stopped, wanted,
          wk, req, resp, up, merkle, best, told, left>>

-----------------------------------------------------------------------------
(* Chains of headers. *)

Min(S) == CHOOSE x \in S : \A y \in S : x <= y
Max(S) == CHOOSE x \in S : \A y \in S : x >= y

Floor(s) == Min(DOMAIN s)
Top(s) == Max(DOMAIN s)

\* How many headers a run without gaps has.
Count(s) == IF DOMAIN s = {} THEN 0 ELSE Top(s) - Floor(s) + 1

\* The headers of f, and below them those of g.
Over(f, g) ==
    [h \in DOMAIN f \cup DOMAIN g |-> IF h \in DOMAIN f THEN f[h] ELSE g[h]]

Single(h, b) == [g \in {h} |-> b]

\* What lies at the heights of S.
Part(s, S) == Restrict(s, DOMAIN s \cap S)

\* collect_ancestors, as the length of the run it returns.
Ancestors(s, h) ==
    Max({n \in 0 .. Min({h, Interval}) : \A i \in 1 .. n : h - i \in DOMAIN s})

\* validate_append: the genesis is pinned, another header links to its parent
\* and, on a retarget boundary, has a full window of ancestors.
ValidateAppend(s, h, b) ==
    IF h = 0 THEN b = Genesis
    ELSE /\ Ancestors(s, h) > 0
         /\ Prev[b] = s[h - 1]
         /\ h % Interval = 0 => Ancestors(s, h) = Interval

\* holds_checkpoint
HoldsCheckpoint(cp, h, b) == \A c \in cp : h = c.h => b = c.b

\* sanity_check
SanityCheck(cp, s) ==
    s # NoChain =>
        /\ DOMAIN s = Floor(s) .. Top(s)
        /\ Floor(s) % Interval = 0
        /\ 0 \in DOMAIN s => s[0] = Genesis
        /\ \A h \in DOMAIN s : HoldsCheckpoint(cp, h, s[h])

\* replay_validate: the lowest header is taken on its proof of work.
ReplayValidate(s) ==
    \A h \in DOMAIN s : h = 0 \/ h > Floor(s) => ValidateAppend(s, h, s[h])

\* HeaderBranch::validate: every height above the fork is there and appends.
ValidateBranch(s, fork, inc, buffer) ==
    LET combined == Over(Part(s, 0 .. fork), Part(buffer, fork + 1 .. inc))
    IN  \A h \in fork + 1 .. inc :
            /\ h \in DOMAIN buffer
            /\ ValidateAppend(Part(combined, 0 .. h - 1), h, buffer[h])

TotalWork(s) == SumFunction([h \in DOMAIN s |-> Work[s[h]]])

Above(s, fork) == Part(s, DOMAIN s \ (0 .. fork))

HasAnyWork(s, fork, branch) == TotalWork(branch) > 0

\* HeaderBranch::has_more_work_than_active
HasMoreWork(s, fork, branch) == TotalWork(branch) > TotalWork(Above(s, fork))

Snap(h) == h - (h % Interval)
BackfillFloor(tip) == IF Snap(tip) < Interval THEN 0 ELSE Snap(tip) - Interval

-----------------------------------------------------------------------------
(* The mutations of Inner, each under one hold of its mutex: the store and   *)
(* the validation state they leave, and their result.                        *)

\* One that flushes what it leaves, and one that changes nothing.
Result(s, v, res) == [store |-> s, disk |-> s, valid |-> v, res |-> res]
Untouched(res) == [store |-> store, disk |-> disk, valid |-> valid, res |-> res]

\* hold_checkpoint: another block at the checkpoint's height costs the chain.
Refused == Result(NoChain, "invalid", "checkpoint")

\* append
Append1(h, b) ==
    CASE ~ValidateAppend(store, h, b) -> Untouched("error")
      [] ValidateAppend(store, h, b) /\ ~HoldsCheckpoint(checkpoint, h, b) -> Refused
      [] OTHER -> Result(Over(Single(h, b), store),
                         IF valid = "validating"
                            \/ (valid = "invalid" /\ store # NoChain)
                         THEN valid ELSE "valid", "ok")

\* append_batch, header by header: what precedes the first one that fails
\* stays, not flushed, and the first one of an empty store is only an anchor.
AppendBatch(batch) ==
    LET start == Floor(batch)
        Before(h) == Over(Part(batch, start .. h - 1), store)
        Checks(h) == IF store = NoChain /\ h = start /\ h > 0
                     THEN h % Interval = 0
                     ELSE ValidateAppend(Before(h), h, batch[h])
        failing == {h \in DOMAIN batch :
                        ~Checks(h) \/ ~HoldsCheckpoint(checkpoint, h, batch[h])}
    IN  CASE failing = {} -> Result(Over(batch, store), "valid", "ok")
          [] failing # {} /\ ~Checks(Min(failing)) ->
                [Untouched("error") EXCEPT !.store = Before(Min(failing))]
          [] OTHER -> Refused

\* replace_branch
ReplaceBranch(fork, branch) ==
    IF \E h \in DOMAIN branch : ~HoldsCheckpoint(checkpoint, h, branch[h])
    THEN Refused
    ELSE Result(Over(branch, Part(store, 0 .. fork)), "valid", "ok")

\* prepend: all of the range, topped by the floor, or none of it.
Prepend(range, floor) ==
    LET replays == /\ floor \in DOMAIN store
                   /\ ReplayValidate(Over(range, Single(floor, store[floor])))
        holds == \A h \in DOMAIN range : HoldsCheckpoint(checkpoint, h, range[h])
    IN  CASE ~replays -> Untouched("error")
          [] replays /\ ~holds -> Refused
          [] OTHER -> Result(Over(range, store), valid, "ok")

\* wipe
Wipe == Result(NoChain, valid, "ok")

WithWriterUnchecked(k, m) == m

\* with_writer: a superseded worker's mutation is a no-op that succeeds.
WithWriter(k, m) == IF token = k THEN m ELSE Untouched("ok")

Commit(m) == /\ store' = m.store
             /\ disk' = m.disk
             /\ valid' = m.valid

-----------------------------------------------------------------------------
(* A worker.  pc is where it is in run_worker and the calls below it, inc    *)
(* the header being applied (the server's tip during a sync), first whether  *)
(* this is the sync that follows Subscribe, ask the request it waits for,    *)
(* floor the min_height a walk or an extension started from, fork the height *)
(* a branch leaves the store at, buf the headers fetched so far, todo what   *)
(* remains of a late batch, deferred the headers parked during a fetch.      *)

NoWorker == [pc |-> "none", inc |-> NoHeader, first |-> FALSE, ask |-> NoAsk,
             floor |-> 0, fork |-> 0, buf |-> NoChain, todo |-> << >>,
             deferred |-> << >>]
Spawned == [NoWorker EXCEPT !.pc = "replay", !.first = TRUE]
Dead == [NoWorker EXCEPT !.pc = "dead"]

\* is_stale
Stale(k) == stopped \/ token # k

\* The response channel is closed: every further recv fails.
Closed(k) == ~up[k] /\ resp[k] = << >>

Waiting == {"genesis", "fill", "extend", "walk", "branch"}

\* push_deferred: a full queue drops the incoming header.
PushDeferred(queue, item) ==
    IF Len(queue) >= MaxDeferred THEN queue ELSE Append(queue, item)

\* Ask for headers and wait at pc.
Ask(r, pc, start, count) ==
    [r EXCEPT !.pc = pc, !.ask = [start |-> start, count |-> count]]

At(r, pc) == [r EXCEPT !.pc = pc, !.ask = NoAsk]

\* apply_one returns: on to the rest of a late batch, or to the loop.
Applied(r) ==
    LET clean == [NoWorker EXCEPT !.deferred = r.deferred]
    IN  IF r.todo = << >> THEN [clean EXCEPT !.pc = "top"]
        ELSE [clean EXCEPT !.pc = "apply", !.inc = Head(r.todo), !.todo = Tail(r.todo)]

\* extend_down returns, to the loop or to the sync it is part of.
Extended(r) ==
    IF r.inc = NoHeader THEN Applied(r)
    ELSE [At(r, "anchor") EXCEPT !.buf = NoChain, !.floor = 0]

\* initial_sync returns false: the worker of a first sync ends.
SyncFailed(r) == IF r.first THEN Dead ELSE Applied(r)

\* The floor initial_sync wants.
SyncFloor(tip) ==
    IF checkpoint = {} THEN BackfillFloor(tip)
    ELSE (CHOOSE c \in checkpoint : TRUE).h

\* The while loop of initial_sync over a store s, and what follows it: the tip
\* itself is applied unless a first sync already reached it.
Fill(r, s) ==
    LET start == IF s = NoChain THEN SyncFloor(r.inc.h) ELSE Top(s) + 1
    IN  CASE start < r.inc.h ->
                Ask(r, "fill", start, Min({r.inc.h - start, Interval}))
          [] start > r.inc.h /\ r.first /\ s # NoChain -> Applied(r)
          [] OTHER -> [At(r, "apply") EXCEPT !.first = FALSE]

\* extend_down down to height, from the floor of the store.
ExtendFrom(r, height) ==
    IF store = NoChain THEN Extended(r)
    ELSE IF height >= Floor(store) THEN Extended(r)
    ELSE Ask([r EXCEPT !.floor = Floor(store)], "extend", Snap(height),
             Min({Floor(store) - Snap(height), Interval}))

\* One chunk of find_fork_point, whose highest height is top.
Walk(r, top) ==
    LET low == IF top < WalkChunk THEN 0 ELSE top - (WalkChunk - 1)
        start == Max({low, r.floor})
    IN  Ask(r, "walk", start, top - start + 1)

\* fetch_branch: ask for the lowest height still missing below the incoming.
Branch(r) ==
    LET missing == (r.fork + 1 .. r.inc.h) \ DOMAIN r.buf
    IN  IF missing = {} THEN At(r, "weigh")
        ELSE Ask(r, "branch", Min(missing),
                 Min({r.inc.h - Min(missing) + 1, Interval}))

\* find_fork_point after its wipe: initial_sync, then apply_one.
Resync(r) == [At(r, "sync") EXCEPT !.buf = NoChain, !.floor = 0]

\* resolve_reorg up to its first fetch.
ResolveReorg(r, s) ==
    IF s = NoChain THEN Applied(r)
    ELSE IF r.inc.h <= Floor(s) THEN Applied(r)
    ELSE Walk([r EXCEPT !.floor = Floor(s), !.buf = Single(r.inc.h, r.inc.b)], r.inc.h - 1)

\* The worker becomes r, and sends what r newly waits for.
Become(k, r) ==
    /\ wk' = [wk EXCEPT ![k] = r]
    /\ req' = IF r.pc \in Waiting /\ up[k]
              THEN [req EXCEPT ![k] = Append(@, r.ask)] ELSE req

\* The next response is the batch k waits for.
Answered(k) ==
    /\ resp[k] # << >>
    /\ Head(resp[k]).kind = "batch"
    /\ Head(resp[k]).start = wk[k].ask.start

Consume(k) == resp' = [resp EXCEPT ![k] = Tail(@)]

-----------------------------------------------------------------------------
(* The replay thread. *)

Elsewhere == <<ownVars, wanted, wk, linkVars, best, left>>

\* finish_replay_validation_success
ReplayPasses ==
    /\ replay = "check" /\ ReplayValidate(snapshot)
    /\ valid' = "valid"
    /\ replay' = "done"
    /\ UNCHANGED <<store, disk, checkpoint, snapshot, Elsewhere>>

\* The chain does not replay: clear_store, and only then
\* set_validation_state(Invalid), which lets the worker go.
ReplayWipes ==
    /\ replay = "check" /\ ~ReplayValidate(snapshot)
    /\ store' = NoChain
    /\ disk' = NoChain
    /\ replay' = "publish"
    /\ UNCHANGED <<valid, checkpoint, snapshot, Elsewhere>>

ReplayPublishes ==
    /\ replay = "publish"
    /\ valid' = "invalid"
    /\ replay' = "done"
    /\ UNCHANGED <<store, disk, checkpoint, snapshot, Elsewhere>>

-----------------------------------------------------------------------------
(* The steps of a worker. *)

Others == <<openVars, ownVars, best, up, told, left>>

NeverParked == TRUE

\* Mutant: the worker waits for a replay that succeeds.
ReplayValid == valid = "valid"

\* What wait_for_replay waits for: the worker's headers cannot be wiped.
ReplaySettled == valid # "validating"

\* wait_for_replay, then Subscribe.
Unparks(k) ==
    /\ wk[k].pc = "replay"
    /\ Stale(k) \/ ReplaySettled
    /\ IF Stale(k) \/ ~up[k]
       THEN wk' = [wk EXCEPT ![k] = Dead] /\ UNCHANGED req
       ELSE /\ wk' = [wk EXCEPT ![k].pc = "tip"]
            /\ req' = [req EXCEPT ![k] = Append(@, Subscribe)]
    /\ UNCHANGED <<storeVars, resp, wanted, Others>>

\* The loop that waits for the server's tip.
FirstTip(k) ==
    /\ wk[k].pc = "tip"
    /\ \/ /\ Closed(k)
          /\ wk' = [wk EXCEPT ![k] = Dead]
          /\ UNCHANGED resp
       \/ /\ resp[k] # << >>
          /\ wk' = [wk EXCEPT ![k] =
                IF Stale(k) THEN Dead
                ELSE IF Head(resp[k]).kind = "tip"
                THEN [@ EXCEPT !.pc = "sync", !.inc = Head(resp[k]).header]
                ELSE @]
          /\ Consume(k)
    /\ UNCHANGED <<storeVars, req, wanted, Others>>

\* initial_sync: a stored range above the wanted floor is first extended.
Sync(k) ==
    /\ wk[k].pc = "sync"
    /\ LET r == wk[k] IN
       Become(k, IF store # NoChain /\ Floor(store) <= r.inc.h
                 THEN ExtendFrom(r, SyncFloor(r.inc.h))
                 ELSE At(r, "anchor"))
    /\ UNCHANGED <<storeVars, resp, wanted, Others>>

\* A range still above it is wiped; an empty store needs the server's genesis.
Anchor(k) ==
    /\ wk[k].pc = "anchor"
    /\ LET r == wk[k]
           low == SyncFloor(r.inc.h)
           m == IF store = NoChain THEN Untouched("ok")
                ELSE IF low < Floor(store) THEN WithWriter(k, Wipe)
                ELSE Untouched("ok")
       IN  /\ Commit(m)
           /\ IF (low = 0 /\ 0 \notin DOMAIN m.store) \/ (low > 0 /\ m.store = NoChain)
              THEN Become(k, Ask(r, "genesis", 0, 1))
              ELSE Become(k, Fill(r, m.store))
    /\ UNCHANGED <<resp, wanted, Others>>

\* fetch_and_verify_genesis: stored when the chain starts at it, checked only
\* when it starts above.
GenesisAnswer(k) ==
    /\ wk[k].pc = "genesis" /\ Answered(k)
    /\ DOMAIN Head(resp[k]).raws # {}
    /\ LET r == wk[k]
           b == Head(resp[k]).raws[0]
           m == CASE b # Genesis -> WithWriter(k, Wipe)
                  [] b = Genesis /\ SyncFloor(r.inc.h) = 0 -> WithWriter(k, Append1(0, b))
                  [] OTHER -> Untouched("ok")
       IN  /\ Commit(IF m.res = "error" THEN WithWriter(k, Wipe) ELSE m)
           /\ Become(k, IF b # Genesis \/ m.res # "ok" THEN SyncFailed(r)
                        ELSE Fill(r, m.store))
    /\ Consume(k)
    /\ UNCHANGED <<wanted, Others>>

\* A batch of the backfill.
FillAnswer(k) ==
    /\ wk[k].pc = "fill" /\ Answered(k)
    /\ DOMAIN Head(resp[k]).raws # {}
    /\ \E m \in {WithWriter(k, AppendBatch(Head(resp[k]).raws))} :
        /\ Commit(m)
        /\ Become(k, IF m.res = "ok" THEN Fill(wk[k], m.store) ELSE SyncFailed(wk[k]))
    /\ Consume(k)
    /\ UNCHANGED <<wanted, Others>>

\* request_initial_headers: an error or an empty batch is asked for again.
InitialRetries(k) ==
    /\ wk[k].pc \in {"genesis", "fill"} /\ ~Stale(k)
    /\ resp[k] # << >> /\ Head(resp[k]).start = wk[k].ask.start
    /\ \/ Head(resp[k]).kind = "error"
       \/ Head(resp[k]).kind = "batch" /\ DOMAIN Head(resp[k]).raws = {}
    /\ Become(k, wk[k])
    /\ Consume(k)
    /\ UNCHANGED <<storeVars, wanted, Others>>

\* ... and a stale worker or a closed channel ends the sync.
InitialCancelled(k) ==
    /\ wk[k].pc \in {"genesis", "fill"}
    /\ Stale(k) \/ Closed(k)
    /\ Become(k, SyncFailed(wk[k]))
    /\ UNCHANGED <<storeVars, resp, wanted, Others>>

\* receive_headers: a header that arrives during a fetch is parked, an
\* unrelated batch or error dropped.
Parks(k) ==
    /\ wk[k].pc \in Waiting
    /\ resp[k] # << >>
    /\ LET msg == Head(resp[k])
       IN  \/ /\ msg.kind = "tip"
              /\ wk' = [wk EXCEPT ![k].deferred = PushDeferred(@, msg.header)]
           \/ /\ msg.kind # "tip" /\ msg.start # wk[k].ask.start
              /\ UNCHANGED wk
    /\ Consume(k)
    /\ UNCHANGED <<storeVars, req, wanted, Others>>

\* A fetch of an extension or a reorg that fails, times out, is cancelled or
\* comes back short is not tried again.
FetchFails(k) ==
    /\ wk[k].pc \in {"extend", "walk", "branch"}
    /\ \/ /\ resp[k] # << >> /\ Head(resp[k]).start = wk[k].ask.start
          /\ \/ Head(resp[k]).kind = "error"
             \/ /\ Head(resp[k]).kind = "batch"
                /\ \/ DOMAIN Head(resp[k]).raws = {}
                   \/ /\ wk[k].pc = "extend"
                      /\ Count(Head(resp[k]).raws) # wk[k].ask.count
          /\ Consume(k) /\ UNCHANGED left
       \/ /\ Closed(k)
          /\ UNCHANGED <<resp, left>>
       \/ /\ resp[k] = << >> /\ up[k]
          /\ Spend("timeout")
          /\ UNCHANGED resp
    /\ Become(k, IF wk[k].pc = "extend" THEN Extended(wk[k]) ELSE Applied(wk[k]))
    /\ UNCHANGED <<storeVars, openVars, ownVars, wanted, best, up, told>>

\* A full batch of an extension; the last one is followed by prepend.
ExtendAnswer(k) ==
    /\ wk[k].pc = "extend" /\ Answered(k)
    /\ Count(Head(resp[k]).raws) = wk[k].ask.count
    /\ LET r == wk[k]
           range == Over(Head(resp[k]).raws, r.buf)
           next == Top(range) + 1
       IN  IF next < r.floor
           THEN /\ Become(k, Ask([r EXCEPT !.buf = range], "extend", next,
                                 Min({r.floor - next, Interval})))
                /\ UNCHANGED storeVars
           ELSE /\ Commit(WithWriter(k, Prepend(range, r.floor)))
                /\ Become(k, Extended(r))
    /\ Consume(k)
    /\ UNCHANGED <<wanted, Others>>

\* apply_one: append to the tip, or resolve a reorg.
ApplyOne(k) ==
    /\ wk[k].pc = "apply"
    /\ LET r == wk[k]
           contiguous == store # NoChain =>
                r.inc.h = Top(store) + 1 /\ Prev[r.inc.b] = store[Top(store)]
           m == IF contiguous THEN WithWriter(k, Append1(r.inc.h, r.inc.b))
                ELSE Untouched("error")
       IN  /\ Commit(m)
           /\ Become(k, IF m.res = "error" THEN ResolveReorg(r, store) ELSE Applied(r))
    /\ UNCHANGED <<resp, wanted, Others>>

\* find_fork_point: the highest height of the chunk where the store and the
\* server agree; below it all, the store is wiped and synced anew.
WalkAnswer(k) ==
    /\ wk[k].pc = "walk" /\ Answered(k)
    /\ DOMAIN Head(resp[k]).raws # {}
    /\ LET r == wk[k]
           raws == Head(resp[k]).raws
           common == {h \in DOMAIN raws \cap DOMAIN store : raws[h] = store[h]}
           seen == Over(Part(raws, Max(common \cup {0}) .. Top(raws)), r.buf)
       IN  \/ /\ common # {}
              /\ Become(k, Branch([r EXCEPT !.fork = Max(common), !.buf = seen]))
              /\ UNCHANGED storeVars
           \/ /\ common = {} /\ r.ask.start > r.floor
              /\ Become(k, Walk([r EXCEPT !.buf = seen], r.ask.start - 1))
              /\ UNCHANGED storeVars
           \/ /\ common = {} /\ r.ask.start <= r.floor
              /\ Commit(WithWriter(k, Wipe))
              /\ Become(k, Resync(r))
    /\ Consume(k)
    /\ UNCHANGED <<wanted, Others>>

\* fetch_branch receives a batch.
BranchAnswer(k) ==
    /\ wk[k].pc = "branch" /\ Answered(k)
    /\ DOMAIN Head(resp[k]).raws # {}
    /\ Become(k, Branch([wk[k] EXCEPT !.buf = Over(Head(resp[k]).raws, @)]))
    /\ Consume(k)
    /\ UNCHANGED <<storeVars, wanted, Others>>

\* resolve_reorg weighs the branch against the chain it read (raw_map) ...
Weigh(k) ==
    /\ wk[k].pc = "weigh"
    /\ LET r == wk[k]
           branch == Part(r.buf, r.fork + 1 .. r.inc.h)
       IN  wk' = [wk EXCEPT ![k] =
                    IF /\ ValidateBranch(store, r.fork, r.inc.h, r.buf)
                       /\ HasMoreWork(store, r.fork, branch)
                    THEN [r EXCEPT !.pc = "switch", !.buf = branch]
                    ELSE Applied(r)]
    /\ UNCHANGED <<storeVars, req, resp, wanted, Others>>

\* ... and then, in another hold of the mutex, replaces the suffix by it.
Switch(k) ==
    /\ wk[k].pc = "switch"
    /\ Commit(WithWriter(k, ReplaceBranch(wk[k].fork, wk[k].buf)))
    /\ wk' = [wk EXCEPT ![k] = Applied(@)]
    /\ UNCHANGED <<req, resp, wanted, Others>>

\* The top of the steady loop: a parked header, then a wanted extension, then
\* the channel.  Only the parked header is preceded by a check of the token.
LoopTop(k) ==
    /\ wk[k].pc = "top"
    /\ LET r == wk[k] IN
       IF r.deferred # << >>
       THEN /\ wk' = [wk EXCEPT ![k] =
                    IF Stale(k) THEN Dead
                    ELSE [r EXCEPT !.pc = "apply", !.inc = Head(r.deferred),
                                   !.deferred = Tail(r.deferred)]]
            /\ UNCHANGED <<req, wanted>>
       ELSE IF wanted # {}
       THEN /\ Become(k, ExtendFrom(r, CHOOSE h \in wanted : TRUE))
            /\ wanted' = {}
       ELSE /\ wk' = [wk EXCEPT ![k].pc = "recv"]
            /\ UNCHANGED <<req, wanted>>
    /\ UNCHANGED <<storeVars, resp, Others>>

\* The loop's recv_timeout returns: a message, a closed channel, or a timeout
\* or Woken, which matter when the worker is stale or an extension is wanted.
Receive(k) ==
    /\ wk[k].pc = "recv"
    /\ \/ /\ resp[k] # << >>
          /\ LET msg == Head(resp[k])
                 late == [i \in 1 .. Count(msg.raws) |->
                            [h |-> msg.start + i - 1, b |-> msg.raws[msg.start + i - 1]]]
             IN  wk' = [wk EXCEPT ![k] =
                    CASE Stale(k) -> Dead
                      [] ~Stale(k) /\ msg.kind = "tip" ->
                            [@ EXCEPT !.pc = "apply", !.inc = msg.header]
                      [] ~Stale(k) /\ msg.kind = "batch" ->
                            Applied([@ EXCEPT !.todo = late])
                      [] OTHER -> [@ EXCEPT !.pc = "top"]]
          /\ Consume(k)
       \/ /\ resp[k] = << >>
          /\ ~up[k] \/ Stale(k) \/ wanted # {}
          /\ wk' = [wk EXCEPT ![k] =
                    IF ~up[k] \/ Stale(k) THEN Dead ELSE [@ EXCEPT !.pc = "top"]]
          /\ UNCHANGED resp
    /\ UNCHANGED <<storeVars, req, wanted, Others>>

Worker(k) ==
    \/ Unparks(k) \/ FirstTip(k) \/ Sync(k) \/ Anchor(k) \/ GenesisAnswer(k)
    \/ FillAnswer(k) \/ InitialRetries(k) \/ InitialCancelled(k) \/ Parks(k)
    \/ FetchFails(k) \/ ExtendAnswer(k) \/ ApplyOne(k) \/ WalkAnswer(k)
    \/ BranchAnswer(k) \/ Weigh(k) \/ Switch(k) \/ LoopTop(k) \/ Receive(k)

-----------------------------------------------------------------------------
(* The server and the connections to it. *)

BestTip == LET c == Chains[best] IN [h |-> Top(c), b |-> c[Top(c)]]

\* A message that is no batch carries no headers, so every message has a start.
TipMsg == [kind |-> "tip", start |-> Top(Chains[best]) + 1, raws |-> NoChain,
           header |-> BestTip]
BatchMsg(ask) ==
    [kind |-> "batch", start |-> ask.start, header |-> NoHeader,
     raws |-> Part(Chains[best], ask.start .. ask.start + ask.count - 1)]
ErrorMsg(ask) ==
    [kind |-> "error", start |-> ask.start, raws |-> NoChain, header |-> NoHeader]

Quiet == <<storeVars, openVars, ownVars, wanted, wk>>

ServerMines ==
    /\ best < Len(Chains)
    /\ best' = best + 1
    /\ UNCHANGED <<Quiet, linkVars, left>>

ServerNotifies(k) ==
    /\ up[k] /\ told[k] # 0 /\ told[k] # best
    /\ resp' = [resp EXCEPT ![k] = Append(@, TipMsg)]
    /\ told' = [told EXCEPT ![k] = best]
    /\ UNCHANGED <<Quiet, req, up, best, left>>

ServerAnswers(k) ==
    /\ up[k] /\ req[k] # << >>
    /\ IF Head(req[k]) = Subscribe
       THEN /\ resp' = [resp EXCEPT ![k] = Append(@, TipMsg)]
            /\ told' = [told EXCEPT ![k] = best]
       ELSE /\ resp' = [resp EXCEPT ![k] = Append(@, BatchMsg(Head(req[k])))]
            /\ UNCHANGED told
    /\ req' = [req EXCEPT ![k] = Tail(@)]
    /\ UNCHANGED <<Quiet, up, best, left>>

ServerErrs(k) ==
    /\ up[k] /\ req[k] # << >> /\ Head(req[k]) # Subscribe
    /\ resp' = [resp EXCEPT ![k] = Append(@, ErrorMsg(Head(req[k])))]
    /\ req' = [req EXCEPT ![k] = Tail(@)]
    /\ Spend("error")
    /\ UNCHANGED <<Quiet, up, told, best>>

\* A connection closes: what was not answered never is.
Close(k) == /\ up' = [up EXCEPT ![k] = FALSE]
            /\ req' = [req EXCEPT ![k] = << >>]

\* The server's end of both connections of a pair closes.
ConnectionDrops ==
    /\ up[token]
    /\ Close(token)
    /\ merkle' = FALSE
    /\ Spend("drop")
    /\ UNCHANGED <<storeVars, openVars, token, stopped, wanted, wk, resp, told, best>>

-----------------------------------------------------------------------------
(* The consumer. *)

\* running
Running == ~stopped /\ (wk[token].pc \notin {"none", "dead"} \/ merkle)

\* stop
StopStore ==
    /\ ~stopped
    /\ stopped' = TRUE
    /\ Close(token)
    /\ merkle' = FALSE
    /\ Spend("stop")
    /\ UNCHANGED <<storeVars, openVars, token, wanted, wk, resp, told, best>>

\* restart: the previous pair is closed, the token bumped and a pair spawned,
\* unless the connection is refused.
Restart(connects) ==
    /\ token < MaxRestarts
    /\ stopped' = FALSE
    /\ token' = token + 1
    /\ up' = [up EXCEPT ![token] = FALSE, ![token + 1] = connects]
    /\ req' = [req EXCEPT ![token] = << >>]
    /\ merkle' = connects
    /\ wk' = IF connects THEN [wk EXCEPT ![token + 1] = Spawned] ELSE wk
    /\ UNCHANGED <<storeVars, openVars, wanted, resp, told, best>>

\* HeaderFollower::follow, to the server it was opened on.
Follow == ~Running /\ Restart(TRUE) /\ UNCHANGED left

\* HeaderFollower::reconnect, whatever the store believes, and either of the
\* two against a server that refuses the connection.
Reconnect ==
    /\ Spend("reconnect")
    /\ \E connects \in BOOLEAN : Restart(connects)

\* request_extend_down
RequestExtendDown ==
    \E h \in Wanted :
        /\ store # NoChain /\ h < Floor(store)
        /\ \A lowest \in wanted : h < lowest
        /\ wanted' = {h}
        /\ Spend("extend")
        /\ UNCHANGED <<storeVars, openVars, ownVars, wk, linkVars, best>>

\* start_or_open on a file: start_replay_validation, then spawn_worker.
Open(cp, file) ==
    LET sane == SanityCheck(cp, file)
        replays == sane /\ file # NoChain
    IN  [store |-> IF sane THEN file ELSE NoChain,
         valid |-> IF replays THEN "validating" ELSE IF sane THEN "valid" ELSE "invalid",
         snapshot |-> IF replays THEN file ELSE NoChain,
         replay |-> IF replays THEN "check" ELSE "done"]

\* The process ends anywhere; the next one opens the file as it was flushed,
\* possibly with another checkpoint.
Crash ==
    /\ Spend("crash")
    /\ \E cp \in Checkpoints :
        /\ checkpoint' = cp
        /\ store' = Open(cp, disk).store
        /\ disk' = Open(cp, disk).store
        /\ valid' = Open(cp, disk).valid
        /\ snapshot' = Open(cp, disk).snapshot
        /\ replay' = Open(cp, disk).replay
    /\ token' = 0 /\ stopped' = FALSE /\ merkle' = TRUE /\ wanted' = {}
    /\ wk' = [k \in Tokens |-> IF k = 0 THEN Spawned ELSE NoWorker]
    /\ req' = [k \in Tokens |-> << >>]
    /\ resp' = [k \in Tokens |-> << >>]
    /\ up' = [k \in Tokens |-> k = 0]
    /\ told' = [k \in Tokens |-> 0]
    /\ UNCHANGED best

-----------------------------------------------------------------------------
Init ==
    /\ \E cp \in Checkpoints, file \in Files :
        /\ checkpoint = cp
        /\ store = Open(cp, file).store
        /\ disk = Open(cp, file).store
        /\ valid = Open(cp, file).valid
        /\ snapshot = Open(cp, file).snapshot
        /\ replay = Open(cp, file).replay
    /\ token = 0 /\ stopped = FALSE /\ merkle = TRUE /\ wanted = {}
    /\ wk = [k \in Tokens |-> IF k = 0 THEN Spawned ELSE NoWorker]
    /\ req = [k \in Tokens |-> << >>]
    /\ resp = [k \in Tokens |-> << >>]
    /\ up = [k \in Tokens |-> k = 0]
    /\ told = [k \in Tokens |-> 0]
    /\ best = 1
    /\ left = MaxEvents

Next ==
    \/ ReplayPasses \/ ReplayWipes \/ ReplayPublishes
    \/ \E k \in Tokens : Worker(k)
    \/ ServerMines \/ ConnectionDrops
    \/ \E k \in Tokens : ServerNotifies(k) \/ ServerAnswers(k) \/ ServerErrs(k)
    \/ StopStore \/ Follow \/ Reconnect \/ RequestExtendDown \/ Crash

Spec == Init /\ [][Next]_vars

-----------------------------------------------------------------------------
Steps == {"none", "replay", "tip", "sync", "anchor", "apply", "weigh", "switch",
          "top", "recv", "dead"} \cup Waiting

\* Type correctness of the store, its threads and its connections.
TypeOK ==
    /\ \A s \in {store, disk} : DOMAIN s \subseteq Nat /\ Range(s) \subseteq Header
    /\ valid \in {"validating", "valid", "invalid"}
    /\ replay \in {"check", "publish", "done"}
    /\ token \in Tokens /\ stopped \in BOOLEAN /\ merkle \in BOOLEAN
    /\ wanted \subseteq Wanted /\ Cardinality(wanted) <= 1
    /\ \A k \in Tokens : wk[k].pc \in Steps /\ Len(wk[k].deferred) <= MaxDeferred
    /\ up \in [Tokens -> BOOLEAN]
    /\ left \in 0 .. MaxEvents
    /\ told \in [Tokens -> 0 .. best] /\ best \in DOMAIN Chains

\* A chain that reloads: one run of linked headers that starts on a retarget
\* boundary, holds the genesis if it starts at it, and holds the checkpoint.
IsChain(s) ==
    /\ SanityCheck(checkpoint, s)
    /\ \A h \in DOMAIN s : h > Floor(s) => Prev[s[h]] = s[h - 1]

\* Once the replay thread is done the store is one chain, and so is its file,
\* whatever workers, superseded ones included, do to it: append, append_batch,
\* replace_branch, prepend and wipe leave what the next start accepts.
StoreIsAChain == replay = "done" => IsChain(store) /\ IsChain(disk)

\* While the replay thread may still wipe, the store holds only what was
\* loaded: no worker's header is there to be lost (wait_for_replay).
ReplayErasesNoSync ==
    replay # "done" =>
        \A h \in DOMAIN store : h \in DOMAIN snapshot /\ store[h] = snapshot[h]

\* Every header of s is in t, at its height.
Keeps(s, t) == \A h \in DOMAIN s : h \in DOMAIN t /\ t[h] = s[h]

\* t leaves s at fork, for more work than s has above it.
Outweighs(s, t, fork) ==
    /\ Part(t, 0 .. fork) = Part(s, 0 .. fork)
    /\ TotalWork(Above(t, fork)) > TotalWork(Above(s, fork))

Gains(s, t) ==
    s # NoChain /\ t # NoChain =>
        Keeps(s, t) \/ \E fork \in DOMAIN s : Outweighs(s, t, fork)

\* Short of a wipe, no step takes work from the store: it keeps every header it
\* has, or all that it has above some height gives way to more work.  Neither a
\* late batch, a parked tip of a chain the server left, another worker between
\* has_more_work_than_active and replace_branch, nor a start on a file behind
\* the store costs a header otherwise.
WorkNeverDrops == [][Gains(store, store')]_store

\* A worker of the current token that has not ended.
Alive == ~stopped /\ wk[token].pc \notin {"none", "dead"}

FollowsServer == store # NoChain /\ store[Top(store)] = BestTip.b

Fairness ==
    /\ WF_vars(ReplayPasses) /\ WF_vars(ReplayWipes) /\ WF_vars(ReplayPublishes)
    /\ \A k \in Tokens : /\ WF_vars(Worker(k))
                         /\ WF_vars(ServerAnswers(k))
                         /\ WF_vars(ServerNotifies(k))
    /\ WF_vars(Follow)

FairSpec == Spec /\ Fairness

\* As long as it lives, the worker brings the store to the server's tip.
AliveFollows == <>[](Alive => FollowsServer)

=============================================================================
