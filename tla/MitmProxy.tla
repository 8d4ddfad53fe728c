------------------------------- MODULE MitmProxy -------------------------------
(***************************************************************************)
(* The counting proxy of the mitm crate: an acceptor, two workers per      *)
(* connection, one for each direction, the attribution of every JSON-RPC   *)
(* line to a method, and the metrics a snapshot reads.                     *)
(*                                                                         *)
(* A line is its elements (requests going up, answers and notifications    *)
(* coming down), each one byte long, `pad` bytes of batch syntax, and its  *)
(* newline; it travels as two chunks so that a read can end inside it.     *)
(* A step is one read, one write, one hold of a connection's attributor,   *)
(* or one operation on the shared registry.                                *)
(***************************************************************************)
EXTENDS Naturals, Integers, Sequences, SequencesExt

CONSTANTS Conns,       \* client connections, at most
          Batches,     \* sizes of the lines a client sends, in elements
          MaxLines,    \* bound: lines a client sends
          MaxNotes     \* bound: notifications the server sends

VARIABLES conn,       \* the sockets, workers and attributor of a connection
          metrics,    \* Metrics::conns
          registry,   \* the connections shutdown ends
          acceptor,   \* the acceptor thread
          stopping    \* the thread that called Mitm::shutdown

proxyVars == <<conn, metrics, registry, acceptor, stopping>>

Dirs == {"up", "down"}

Head1(l) == [line |-> l, last |-> FALSE]
Tail1(l) == [line |-> l, last |-> TRUE]
Chunks(l) == <<Head1(l), Tail1(l)>>
Lines(chunks) == [i \in 1..Len(SelectSeq(chunks, LAMBDA c : c.last)) |->
                    SelectSeq(chunks, LAMBDA c : c.last)[i].line]
LineBytes(l) == Len(l.els) + l.pad + 1

-----------------------------------------------------------------------------
(* Metrics *)

NewMetrics == [bytes |-> [d \in Dirs |-> 0], framing |-> [d \in Dirs |-> 0],
               largest |-> [d \in Dirs |-> 0], unmatched |-> 0,
               outOfOrder |-> 0, roundTrips |-> 0, last |-> "none",
               close |-> "open"]

\* ConnMetrics::count_round_trip
RoundTrip(m, d) ==
    [m EXCEPT !.roundTrips = @ + (IF d = "up" /\ m.last # "up" THEN 1 ELSE 0),
              !.last = d]

\* ConnMetrics::apply_element, for an element resolved to `how`.
ApplyElement(m, d, how) ==
    RoundTrip([m EXCEPT !.bytes[d] = @ + 1,
                        !.unmatched = @ + (IF how = -1 THEN 1 ELSE 0),
                        !.outOfOrder = @ + (IF how > 0 THEN 1 ELSE 0)], d)

\* Attributor::on_line: what a batch's brackets and commas and the newline
\* that was stripped take on the wire.
FramingOfBatch(l) == IF l.pad = 0 THEN 1 ELSE l.pad
Framing(l) == l.pad + 1

\* Metrics::apply_line, under one lock; nothing when a reset forgot the
\* connection.
ApplyLine(m, d, l, hows) ==
    LET sized == [m EXCEPT !.largest[d] = IF LineBytes(l) - 1 > @
                                          THEN LineBytes(l) - 1 ELSE @]
    IN  [FoldLeft(LAMBDA x, how : ApplyElement(x, d, how), sized, hows)
           EXCEPT !.framing[d] = @ + Framing(l)]

-----------------------------------------------------------------------------
(* Attribution *)

\* Attributor::resolve_order: how far from the oldest unanswered request.
Displacement(order, id) ==
    IF \E i \in DOMAIN order : order[i] = id
    THEN (CHOOSE i \in DOMAIN order : order[i] = id) - 1 ELSE 0

\* Attributor::attribute: a request is remembered, an answer takes its request
\* out, a notification (id 0) names its own method.  Yields -1 for an answer
\* no request is known for.
Attribute(a, d, id) ==
    IF id = 0 THEN [a |-> a, how |-> 0]
    ELSE IF d = "up"
         THEN [a |-> [a EXCEPT !.pending = @ \cup {id},
                               !.order = Append(@, id)], how |-> 0]
    ELSE IF id \notin a.pending THEN [a |-> a, how |-> -1]
    ELSE [a |-> [a EXCEPT !.pending = @ \ {id},
                          !.order = SelectSeq(@, LAMBDA i : i # id)],
          how |-> Displacement(a.order, id)]

\* Attributor::feed: the lines that are now complete, element by element.
RECURSIVE Elements(_, _, _, _)
Elements(a, d, els, hows) ==
    IF els = << >> THEN [a |-> a, hows |-> hows]
    ELSE LET r == Attribute(a, d, Head(els))
         IN  Elements(r.a, d, Tail(els), Append(hows, r.how))

RECURSIVE Feed(_, _, _, _)
Feed(a, m, d, chunks) ==
    IF chunks = << >> THEN [a |-> a, m |-> m]
    ELSE IF ~Head(chunks).last THEN Feed(a, m, d, Tail(chunks))
    ELSE LET l == Head(chunks).line
             r == Elements(a, d, l.els, << >>)
         IN  Feed(r.a, ApplyLine(m, d, l, r.hows), d, Tail(chunks))

-----------------------------------------------------------------------------
(* The two workers of a connection *)

NewWorker == [at |-> "read", buf |-> << >>, side |-> "none"]

NewConn == [sock |-> [s \in {"client", "server"} |-> "new"],
            in |-> [d \in Dirs |-> << >>], out |-> [d \in Dirs |-> << >>],
            worker |-> [d \in Dirs |-> [NewWorker EXCEPT !.at = "none"]],
            attributor |-> [pending |-> {}, order |-> << >>],
            closed |-> FALSE, sent |-> 0, notes |-> 0,
            asked |-> {}]

Source(d) == IF d = "up" THEN "client" ELSE "server"
Sink(d) == IF d = "up" THEN "server" ELSE "client"

\* The order of a worker's work on a chunk: up accounts, then forwards, so that
\* the request is known before it can be answered; down forwards first.
Steps(d) == IF d = "up" THEN <<"read", "account", "write">>
            ELSE <<"read", "write", "account">>
After(d, at) == LET i == CHOOSE i \in 1..3 : Steps(d)[i] = at
                IN  Steps(d)[1 + (i % 3)]

Set(c, d, w) == conn' = [conn EXCEPT ![c].worker[d] = w]

Read(c, d) ==
    LET w == conn[c].worker[d] IN
    /\ w.at = "read"
    /\ conn[c].in[d] # << >> /\ conn[c].sock[Source(d)] # "shut"
    /\ \E n \in 1..Len(conn[c].in[d]) :
         conn' = [conn EXCEPT
                    ![c].worker[d] = [w EXCEPT !.at = After(d, "read"),
                                        !.buf = SubSeq(conn[c].in[d], 1, n)],
                    ![c].in[d] = SubSeq(@, n + 1, Len(@))]
    /\ UNCHANGED <<metrics, registry, acceptor, stopping>>

\* An end of file or an error of the read ends the worker.
ReadEnds(c, d) ==
    LET w == conn[c].worker[d] IN
    /\ w.at = "read"
    /\ \/ conn[c].sock[Source(d)] = "shut"
       \/ conn[c].sock[Source(d)] = "eof" /\ conn[c].in[d] = << >>
    /\ Set(c, d, [w EXCEPT !.at = "shutdown", !.side = Source(d)])
    /\ UNCHANGED <<metrics, registry, acceptor, stopping>>

Write(c, d) ==
    LET w == conn[c].worker[d] IN
    /\ w.at = "write"
    /\ conn' =
         IF conn[c].sock[Sink(d)] = "open"
         THEN [conn EXCEPT ![c].worker[d].at = After(d, "write"),
                           ![c].out[d] = @ \o w.buf]
         ELSE [conn EXCEPT ![c].worker[d] =
                             [w EXCEPT !.at = "shutdown", !.side = Sink(d)]]
    /\ UNCHANGED <<metrics, registry, acceptor, stopping>>

Account(c, d) ==
    LET w == conn[c].worker[d]
        r == Feed(conn[c].attributor, metrics[c], d, w.buf)
    IN  /\ w.at = "account"
        /\ conn' = [conn EXCEPT ![c].worker[d].at = After(d, "account"),
                                ![c].attributor = r.a]
        /\ metrics' = [metrics EXCEPT ![c] = r.m]
        /\ UNCHANGED <<registry, acceptor, stopping>>

\* Both sockets are shut before the closing is recorded.
ShutdownBoth(c, d) ==
    LET w == conn[c].worker[d] IN
    /\ w.at = "shutdown"
    /\ conn' = [conn EXCEPT ![c].worker[d].at = "close",
                            ![c].sock = [s \in DOMAIN @ |-> "shut"]]
    /\ UNCHANGED <<metrics, registry, acceptor, stopping>>

\* closed.swap: the first of the two workers records the closing and takes the
\* connection off the registry.
Close(c, d) ==
    LET w == conn[c].worker[d] IN
    /\ w.at = "close"
    /\ conn' = [conn EXCEPT ![c].worker[d].at = "done", ![c].closed = TRUE]
    /\ metrics' = IF conn[c].closed THEN metrics
                  ELSE [metrics EXCEPT ![c].close = w.side]
    /\ registry' = IF conn[c].closed THEN registry ELSE registry \ {c}
    /\ UNCHANGED <<acceptor, stopping>>

-----------------------------------------------------------------------------
(* Acceptor and shutdown *)

\* accept_loop and spawn_connection.  The connection is registered before its
\* workers run; without an upstream the client is turned away.
Accept(c) ==
    /\ acceptor = "accepting"
    /\ conn[c].sock["client"] = "waiting"
    /\ IF stopping # "none"
       THEN acceptor' = "done" /\ UNCHANGED <<conn, metrics, registry>>
       ELSE \/ /\ conn' = [conn EXCEPT
                             ![c].sock = [s \in DOMAIN @ |-> "open"],
                             ![c].worker = [d \in Dirs |-> NewWorker]]
               /\ registry' = registry \cup {c}
               /\ UNCHANGED <<metrics, acceptor>>
            \/ /\ conn' = [conn EXCEPT ![c].sock["client"] = "shut"]
               /\ metrics' = [metrics EXCEPT ![c].close = "server"]
               /\ UNCHANGED <<registry, acceptor>>
    /\ UNCHANGED stopping

\* Mitm::shutdown: the flag, a dial that wakes the acceptor, its join; then
\* every registered connection is shut, and every worker joined.
Stop == /\ stopping = "none"
        /\ stopping' = "flagged"
        /\ UNCHANGED <<conn, metrics, registry, acceptor>>
Wake == /\ stopping # "none" /\ acceptor = "accepting"
        /\ acceptor' = "done"
        /\ UNCHANGED <<conn, metrics, registry, stopping>>
EndRegisteredEarly ==
    /\ stopping = "none"
    /\ stopping' = "joining"
    /\ conn' = [c \in Conns |-> IF c \in registry
                  THEN [conn[c] EXCEPT !.sock = [s \in DOMAIN @ |-> "shut"]]
                  ELSE conn[c]]
    /\ registry' = {}
    /\ UNCHANGED <<metrics, acceptor>>
EndRegistered ==
    /\ stopping = "flagged" /\ acceptor = "done"
    /\ stopping' = "joining"
    /\ conn' = [c \in Conns |-> IF c \in registry
                  THEN [conn[c] EXCEPT !.sock = [s \in DOMAIN @ |-> "shut"]]
                  ELSE conn[c]]
    /\ registry' = {}
    /\ UNCHANGED <<metrics, acceptor>>
Joined ==
    /\ stopping = "joining" /\ acceptor = "done"
    /\ \A c \in Conns, d \in Dirs : conn[c].worker[d].at \in {"none", "done"}
    /\ stopping' = "returned"
    /\ UNCHANGED <<conn, metrics, registry, acceptor>>

-----------------------------------------------------------------------------
(* The wallet and the server *)

Connect(c) ==
    /\ conn[c].sock["client"] = "new"
    /\ conn' = [conn EXCEPT ![c].sock["client"] = "waiting"]
    /\ UNCHANGED <<metrics, registry, acceptor, stopping>>

\* Every request carries an id of its own.
ClientSends(c, n) ==
    LET used == conn[c].sent
        line == [els |-> [i \in 1..n |-> used + i], pad |-> IF n > 1 THEN n + 1 ELSE 0]
    IN  /\ conn[c].sock["client"] = "open"
        /\ used + n <= MaxLines
        /\ conn' = [conn EXCEPT ![c].in["up"] = @ \o Chunks(line),
                                ![c].sent = @ + n]
        /\ UNCHANGED <<metrics, registry, acceptor, stopping>>

Received(c) == UNION {ToSet(l.els) : l \in ToSet(Lines(conn[c].out["up"]))}

\* The server answers requests it has received, in any order.
ServerAnswers(c, id) ==
    /\ conn[c].sock["server"] = "open"
    /\ id \in Received(c) \ conn[c].asked
    /\ conn' = [conn EXCEPT ![c].in["down"] = @ \o Chunks([els |-> <<id>>, pad |-> 0]),
                            ![c].asked = @ \cup {id}]
    /\ UNCHANGED <<metrics, registry, acceptor, stopping>>

ServerNotifies(c) ==
    /\ conn[c].sock["server"] = "open"
    /\ conn[c].notes < MaxNotes
    /\ conn' = [conn EXCEPT ![c].in["down"] = @ \o Chunks([els |-> <<0>>, pad |-> 0]),
                            ![c].notes = @ + 1]
    /\ UNCHANGED <<metrics, registry, acceptor, stopping>>

Hangup(c, s) ==
    /\ conn[c].sock[s] = "open"
    /\ conn' = [conn EXCEPT ![c].sock[s] = "eof"]
    /\ UNCHANGED <<metrics, registry, acceptor, stopping>>

-----------------------------------------------------------------------------

ProxyInit ==
    /\ conn = [c \in Conns |-> NewConn]
    /\ metrics = [c \in Conns |-> NewMetrics]
    /\ registry = {}
    /\ acceptor = "accepting"
    /\ stopping = "none"

Worker(c, d) == Read(c, d) \/ ReadEnds(c, d) \/ Write(c, d) \/ Account(c, d)
                \/ ShutdownBoth(c, d) \/ Close(c, d)

ProxyNext ==
    \/ \E c \in Conns : \/ Connect(c) \/ Accept(c) \/ ServerNotifies(c)
                        \/ \E n \in Batches : ClientSends(c, n)
                        \/ \E id \in 1..MaxLines : ServerAnswers(c, id)
                        \/ \E s \in {"client", "server"} : Hangup(c, s)
                        \/ \E d \in Dirs : Worker(c, d)
    \/ Stop \/ Wake \/ EndRegistered \/ Joined

\* Threads that can run do; the wallet and the server owe nothing.
ProxyFairness ==
    /\ \A c \in Conns, d \in Dirs : WF_proxyVars(Worker(c, d))
    /\ WF_proxyVars(Wake \/ EndRegistered \/ Joined)

ProxySpec == ProxyInit /\ [][ProxyNext]_proxyVars /\ ProxyFairness

-----------------------------------------------------------------------------
(* Properties *)

\* No answer is left without its request: the up worker accounts a request
\* before it forwards it, so an answer cannot race it to the attributor.
AnswersAreMatched == \A c \in Conns : metrics[c].unmatched = 0

Total(lines) == FoldLeft(LAMBDA n, l : n + LineBytes(l), 0, lines)

\* Every byte of every whole line forwarded is counted once, as part of an
\* element or as framing: between two chunks of a worker, what it counted is
\* what went out, however reads cut the lines and whatever the other did.
BytesAddUp ==
    \A c \in Conns, d \in Dirs : conn[c].worker[d].at = "read" =>
        metrics[c].bytes[d] + metrics[c].framing[d]
            = Total(Lines(conn[c].out[d]))

\* A shutdown returns: the acceptor is woken, and every connection it accepted
\* is registered by the time the registry is emptied, so every worker ends.
ShutdownReturns == stopping # "none" ~> stopping = "returned"
=============================================================================
