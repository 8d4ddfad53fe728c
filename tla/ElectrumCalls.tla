---------------------------- MODULE ElectrumCalls ----------------------------
(***************************************************************************)
(* The blocking calls of the Electrum client (electrum/src/client/mod.rs): *)
(* get_tx, get_coins_at, get_coins_tx_at, broadcast and broadcast_tx, one  *)
(* after another on one connection.  A server that is busy sends an empty  *)
(* line, which does not parse; the answer comes later, and stays in the    *)
(* connection when the call has given up.                                  *)
(***************************************************************************)
EXTENDS Integers, Sequences

CONSTANTS Calls,        \* the kinds of call made
          MaxCalls,     \* bound: calls made
          MaxEmpty      \* bound: empty lines

VARIABLES last,         \* last_id
          call,         \* the call being made: [n, kind, id]
          index,        \* the ids in the index
          asked,        \* requests at the server: [n, id]
          lines,        \* lines on their way: [n, id, ok], n = 0: empty
          results,      \* what each call returned: [kind, got], got = the
                        \* number of the call answered, 0: an error
          late,         \* broadcast_tx is past its deadline
          empties

cvars == <<last, call, index, asked, lines, results, late, empties>>

Gets == {"get_tx", "get_coins_at", "get_coins_tx_at"}
NoCall == [n |-> 0, kind |-> "none", id |-> 0]

CallsInit ==
    /\ last = 0
    /\ call = NoCall
    /\ index = {}
    /\ asked = << >>
    /\ lines = << >>
    /\ results = << >>
    /\ late = FALSE
    /\ empties = 0

RequestIdFixed(kind) == 0

\* A get takes a new id; a broadcast keeps the 0 of Request::new.
RequestId(kind) == IF kind \in Gets THEN last + 1 ELSE 0

Start(kind) ==
    /\ call = NoCall
    /\ Len(results) < MaxCalls
    /\ last' = IF kind \in Gets THEN last + 1 ELSE last
    /\ LET id == RequestId(kind)
           n == Len(results) + 1
       IN  /\ call' = [n |-> n, kind |-> kind, id |-> id]
           /\ index' = index \cup {id}
           /\ asked' = Append(asked, [n |-> n, id |-> id])
    /\ late' = FALSE
    /\ UNCHANGED <<lines, results, empties>>

Return(got) ==
    /\ results' = Append(results, [kind |-> call.kind, got |-> got])
    /\ call' = NoCall
    /\ index' = index \ {call.id}
    /\ UNCHANGED <<last, asked, late, empties>>

Parses(line) == line.n # 0 /\ (~line.ok \/ line.id \in index)

Mine(line) == Parses(line) /\ line.id = call.id

\* One line is read; whatever it is, the call ends.
ReadOnce ==
    /\ call.kind \in Gets \cup {"broadcast"}
    /\ lines # << >>
    /\ Return(IF Mine(Head(lines)) /\ Head(lines).ok THEN Head(lines).n ELSE 0)
    /\ lines' = Tail(lines)

\* broadcast_tx reads on until its answer or its deadline.
ReadBroadcast ==
    /\ call.kind = "broadcast_tx"
    /\ lines # << >>
    /\ lines' = Tail(lines)
    /\ IF Mine(Head(lines))
       THEN Return(IF Head(lines).ok THEN Head(lines).n ELSE 0)
       ELSE IF late THEN Return(0)
       ELSE UNCHANGED <<last, call, index, asked, results, late, empties>>

Deadline ==
    /\ call.kind = "broadcast_tx"
    /\ ~late
    /\ late' = TRUE
    /\ UNCHANGED <<last, call, index, asked, lines, results, empties>>

ServerAnswers ==
    /\ asked # << >>
    /\ \E ok \in BOOLEAN :
         lines' = Append(lines, [n |-> Head(asked).n, id |-> Head(asked).id,
                                 ok |-> ok])
    /\ asked' = Tail(asked)
    /\ UNCHANGED <<last, call, index, results, late, empties>>

ServerBusy ==
    /\ asked # << >>
    /\ empties < MaxEmpty
    /\ empties' = empties + 1
    /\ lines' = Append(lines, [n |-> 0, id |-> 0, ok |-> TRUE])
    /\ UNCHANGED <<last, call, index, asked, results, late>>

CallsNext ==
    \/ \E kind \in Calls : Start(kind)
    \/ ReadOnce \/ ReadBroadcast \/ Deadline
    \/ ServerAnswers \/ ServerBusy

CallsSpec == CallsInit /\ [][CallsNext]_cvars

-----------------------------------------------------------------------------

\* A get that returns a transaction or a history returns the answer to its
\* own request, also when an earlier call left its answer in the connection.
GetsOwnAnswer ==
    \A n \in 1..Len(results) :
        results[n].kind \in Gets => results[n].got \in {0, n}
=============================================================================
