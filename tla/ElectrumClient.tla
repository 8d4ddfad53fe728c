--------------------------- MODULE ElectrumClient ---------------------------
(***************************************************************************)
(* The Electrum client (electrum/src/client): the loop the transaction     *)
(* listener and the header listener share, over one connection to a server *)
(* that may drop a request while it is busy, answer late and answer twice  *)
(* what was sent twice; and the blocking calls on the same client.         *)
(*                                                                         *)
(* The consumer's requests are a plan, a sequence of [kind, items].  Every *)
(* item becomes one Electrum request with an id of its own.  A line from   *)
(* the server is a set of answers [id, ok].                                *)
(***************************************************************************)
EXTENDS Integers, Sequences, FiniteSets, FiniteSetsExt, Functions, TLC

CONSTANTS Plans,        \* [role, asks, kinds]: the role of the client, the
                        \* consumer's requests and the kinds of fault
          MaxFaults     \* bound: drops, errors, stalls, losses, pings

VARIABLES plan,
          todo,         \* requests the consumer has not sent yet
          open,         \* the consumer keeps its channel ends
          inbox,        \* requests in the channel and in `inbox`
          lastId,       \* last_id
          index,        \* index: id -> [kind, item, ask]; never pruned
          tracked,      \* the ids in the req_id_* maps
          subscribed,   \* subscribe_id is set, or sh_spk is not empty
          pending,      \* last_request: the ids not answered yet
          up,           \* the listener runs
          server,       \* id -> how often the server holds the request
          lines,        \* lines on their way back
          out,          \* what the consumer was sent
          faults

vars == <<plan, todo, open, inbox, lastId, index, tracked, subscribed,
          pending, up, server, lines, out, faults>>

ids == DOMAIN index

Fault(kind) ==
    kind \in plan.kinds /\ faults < MaxFaults /\ faults' = faults + 1

Init ==
    /\ plan \in Plans
    /\ todo = plan.asks
    /\ open = TRUE
    /\ inbox = << >>
    /\ lastId = 0
    /\ index = << >>
    /\ tracked = {}
    /\ subscribed = FALSE
    /\ pending = {}
    /\ up = TRUE
    /\ server = << >>
    /\ lines = << >>
    /\ out = << >>
    /\ faults = 0

(***************************************************************************)
(* The consumer.                                                           *)
(***************************************************************************)
Ask ==
    /\ open
    /\ todo # << >>
    /\ inbox' = Append(inbox, Head(todo))
    /\ todo' = Tail(todo)
    /\ UNCHANGED <<plan, open, lastId, index, tracked, subscribed, pending, up,
                   server, lines, out, faults>>

Leave ==
    /\ open
    /\ Fault("leave")
    /\ open' = FALSE
    /\ UNCHANGED <<plan, todo, inbox, lastId, index, tracked, subscribed,
                   pending, up, server, lines, out>>

(***************************************************************************)
(* Sending.  `Sent` puts ids on the wire once more.                        *)
(***************************************************************************)
Sent(new) ==
    [i \in DOMAIN server \cup new |->
        (IF i \in DOMAIN server THEN server[i] ELSE 0) +
        (IF i \in new THEN 1 ELSE 0)]

Emit(what) == out' = IF open THEN Append(out, what) ELSE out

\* register, for every item of a request
Register(ask) ==
    LET n == Cardinality(ask.items)
        order == CHOOSE f \in [1..n -> ask.items] : IsInjective(f)
        no == Len(plan.asks) - Len(todo) - Len(inbox) + 1
    IN  /\ lastId' = lastId + n
        /\ index' = index @@
             [i \in lastId + 1 .. lastId + n |->
                [kind |-> ask.kind, item |-> order[i - lastId], ask |-> no]]

NewIds(ask) == lastId + 1 .. lastId + Cardinality(ask.items)

\* The kinds whose id is in a map until its answer comes.
Once == {"history", "merkle", "header", "headers"}

\* dispatch_tx and dispatch_header, when there is no pending batch
CanDispatch(kinds) ==
    /\ up
    /\ pending = {}
    /\ inbox # << >>
    /\ Head(inbox).kind \in kinds
    /\ inbox' = Tail(inbox)

Dispatch ==
    /\ CanDispatch({"subscribe", "txs"} \cup Once)
    /\ Register(Head(inbox))
    /\ pending' = NewIds(Head(inbox))
    /\ tracked' = tracked \cup
         (IF Head(inbox).kind \in Once THEN NewIds(Head(inbox)) ELSE {})
    /\ subscribed' = (subscribed \/ Head(inbox).kind = "subscribe")
    /\ \/ server' = Sent(NewIds(Head(inbox))) /\ UNCHANGED <<out, faults>>
       \/ \* send_with_retry gives up: reported, and pending all the same
          /\ Fault("send")
          /\ Emit([ids |-> {}, failed |-> NewIds(Head(inbox)), what |-> "send"])
          /\ UNCHANGED server
    /\ UNCHANGED <<plan, todo, open, up, lines>>

\* Subscribe of the header listener is sent once and not kept pending; a
\* second one is refused.
DispatchTip ==
    /\ CanDispatch({"tip"})
    /\ IF subscribed
       THEN UNCHANGED <<lastId, index, server>>
       ELSE Register(Head(inbox)) /\ server' = Sent(NewIds(Head(inbox)))
    /\ subscribed' = TRUE
    /\ UNCHANGED <<plan, todo, open, tracked, pending, up, lines, out, faults>>

\* Wake answers at once; Stop ends the listener.
DispatchLocal ==
    /\ CanDispatch({"wake", "stop"})
    /\ Emit([ids |-> {}, failed |-> {}, what |-> Head(inbox).kind])
    /\ up' = (Head(inbox).kind # "stop" /\ open)
    /\ UNCHANGED <<plan, todo, open, lastId, index, tracked, subscribed,
                   pending, server, lines, faults>>

\* STALL_RESEND_AFTER passed with no answer.
Resend ==
    /\ up
    /\ pending # {}
    /\ lines = << >>
    /\ pending \cap DOMAIN server = {}
    /\ server' = Sent(pending)
    /\ UNCHANGED <<plan, todo, open, inbox, lastId, index, tracked, subscribed,
                   pending, up, lines, out, faults>>

\* ... though the server was only slow
ResendEarly ==
    /\ Fault("stall")
    /\ up
    /\ pending # {}
    /\ server' = Sent(pending)
    /\ UNCHANGED <<plan, todo, open, inbox, lastId, index, tracked, subscribed,
                   pending, up, lines, out>>

Ping ==
    /\ Fault("ping")
    /\ up
    /\ Register([kind |-> "ping", items |-> {"ping"}])
    /\ server' = Sent({lastId + 1})
    /\ UNCHANGED <<plan, todo, open, inbox, tracked, subscribed, pending, up,
                   lines, out>>

\* A disconnect is seen whenever the channel is drained.
SeesDisconnect ==
    /\ up
    /\ ~open
    /\ up' = FALSE
    /\ UNCHANGED <<plan, todo, open, inbox, lastId, index, tracked, subscribed,
                   pending, server, lines, out, faults>>

\* A read or a ping that fails ends the listener with one error.
ConnectionLost ==
    /\ up
    /\ Fault("loss")
    /\ up' = FALSE
    /\ Emit([ids |-> {}, failed |-> {}, what |-> "transport"])
    /\ UNCHANGED <<plan, todo, open, inbox, lastId, index, tracked, subscribed,
                   pending, server, lines>>

(***************************************************************************)
(* Reading one line: the pending batch, then the answers.                  *)
(***************************************************************************)
Answered(line) == {r.id : r \in line}

\* The map entries an answer takes: an error leaves that of a history.
Untracked(line) ==
    {r.id : r \in {q \in line : q.ok \/ (q.id # 0 /\ index[q.id].kind # "history")}}

\* What an answer is good for: a map entry, or nothing to look up.
Known(i) == i \in tracked \/ index[i].kind \notin Once

HandledAgain(line) ==
    [ids |-> {r.id : r \in {q \in line : q.id # 0 /\ q.ok
                                /\ index[q.id].kind # "ping"}},
     failed |-> {r.id : r \in {q \in line : q.id # 0 /\ ~q.ok}},
     what |-> "answer"]

Handled(line) ==
    LET known == {r \in line : r.id # 0 /\ Known(r.id)
                                /\ index[r.id].kind # "ping"}
        good == {r.id : r \in {q \in known : q.ok}}
        \* an error with an id of no map is reported as the server's
        bad == {r.id : r \in {q \in line : q.id # 0 /\ ~q.ok}}
    IN  [ids |-> good, failed |-> bad,
         what |-> IF \E r \in line : r.id = 0 /\ subscribed THEN "notice"
                  ELSE "answer"]

Read ==
    /\ up
    /\ lines # << >>
    /\ LET line == Head(lines)
           h == Handled(line)
       IN  /\ pending' = pending \ Answered(line)
           /\ tracked' = tracked \ Untracked(line)
           /\ IF h.ids = {} /\ h.failed = {} /\ h.what = "answer"
              THEN UNCHANGED out
              ELSE Emit(h)
    /\ lines' = Tail(lines)
    /\ up' = open
    /\ UNCHANGED <<plan, todo, open, inbox, lastId, index, subscribed, server,
                   faults>>

(***************************************************************************)
(* The server.                                                             *)
(***************************************************************************)
Took(some) ==
    [i \in {j \in DOMAIN server : j \notin some \/ server[j] > 1} |->
        IF i \in some THEN server[i] - 1 ELSE server[i]]

Answer ==
    /\ server # << >>
    /\ \E some \in {{i} : i \in DOMAIN server} \cup {DOMAIN server} :
         /\ server' = Took(some)
         /\ \/ /\ lines' = Append(lines, {[id |-> i, ok |-> TRUE] : i \in some})
               /\ UNCHANGED faults
            \/ /\ Fault("error")
               /\ lines' = Append(lines, {[id |-> i, ok |-> FALSE] : i \in some})
    /\ UNCHANGED <<plan, todo, open, inbox, lastId, index, tracked, subscribed,
                   pending, up, out>>

Drop ==
    /\ Fault("drop")
    /\ \E i \in DOMAIN server : server' = Took({i})
    /\ UNCHANGED <<plan, todo, open, inbox, lastId, index, tracked, subscribed,
                   pending, up, lines, out>>

Notify ==
    /\ Fault("notice")
    /\ lines' = Append(lines, {[id |-> 0, ok |-> TRUE]})
    /\ UNCHANGED <<plan, todo, open, inbox, lastId, index, tracked, subscribed,
                   pending, up, server, out>>

Listener ==
    \/ Dispatch \/ DispatchTip \/ DispatchLocal \/ Resend \/ SeesDisconnect
    \/ Read

Next ==
    \/ Ask \/ Leave
    \/ Listener \/ ResendEarly \/ Ping \/ ConnectionLost
    \/ Answer \/ Drop \/ Notify

Fairness == WF_vars(Ask) /\ WF_vars(Listener) /\ WF_vars(Answer)

Spec == Init /\ [][Next]_vars /\ Fairness

-----------------------------------------------------------------------------

\* The loop, the connection and the channels have their types.
TypeOK ==
    /\ open \in BOOLEAN /\ up \in BOOLEAN /\ subscribed \in BOOLEAN
    /\ ids = 1..lastId
    /\ tracked \subseteq {i \in ids : index[i].kind \in Once}
    /\ pending \subseteq ids
    /\ DOMAIN server \subseteq ids
    /\ \A n \in 1..Len(lines) : Answered(lines[n]) \subseteq ids \cup {0}

Emissions(i) == {n \in 1..Len(out) : i \in out[n].ids}

\* However often a batch is resent, a history, a proof or a header the
\* consumer asked for reaches it once.
AnsweredOnce ==
    \A i \in ids : index[i].kind \in Once => Cardinality(Emissions(i)) <= 1

First(i) == Min({n \in 1..Len(out) : i \in out[n].ids \cup out[n].failed})

Replied(i) == \E n \in 1..Len(out) : i \in out[n].ids \cup out[n].failed

\* Answers come in the order of the requests: when the consumer has one to a
\* request, it has all of every request it made before.
AnswersInOrder ==
    \A i, j \in ids :
        /\ index[i].kind # "ping" /\ index[j].kind \notin {"ping", "tip"}
        /\ index[j].ask < index[i].ask
        /\ Replied(i)
        => Replied(j) /\ First(j) <= First(i)

Asked(n) == Len(plan.asks) - Len(todo) >= n

\* All of request n was answered, with a result or an error.
Satisfied(n) ==
    LET mine == {i \in ids : index[i].ask = n /\ index[i].kind # "ping"}
    IN  Cardinality(mine) = Cardinality(plan.asks[n].items)
        /\ \A i \in mine : Replied(i)

Gated == {"subscribe", "txs"} \cup Once

\* Request n was sent, is not answered yet and may still be: the listener
\* runs and the consumer listens.
Unanswered(n) ==
    /\ n <= Len(plan.asks) /\ plan.asks[n].kind \in Gated
    /\ Asked(n) /\ ~Satisfied(n) /\ up /\ open

\* A request the consumer made is answered in full, although the server drops
\* some of it: unless the listener ends or the consumer leaves.
EveryAskIsAnswered == []<>(\A n \in 1..3 : ~Unanswered(n))
=============================================================================
