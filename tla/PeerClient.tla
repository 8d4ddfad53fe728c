------------------------------ MODULE PeerClient ------------------------------
(***************************************************************************)
(* The p2p crate's client of one bitcoin peer: the version handshake, the  *)
(* listener thread that answers pings and hands on blocks, addresses and   *)
(* requests for data, and the blocking calls get_block, get_addr and       *)
(* broadcast_tx over the listener's channel.                               *)
(*                                                                         *)
(* A step is one message read by the listener, one message taken off the   *)
(* channel by a call, or one message of the peer.  A call's deadline may   *)
(* pass whenever the channel holds nothing for it.                         *)
(***************************************************************************)
EXTENDS Naturals, Sequences, FiniteSets

CONSTANTS Blocks,     \* block hashes the consumer asks for
          Txs,        \* transactions it broadcasts
          MaxCalls,   \* bound: calls of the consumer
          MaxPeer     \* bound: messages the peer sends

VARIABLES hand,     \* the handshake, then "up" or "failed"
          stop,     \* Client::stop, shared with the listener
          listener, \* "off", "on" or "dead"
          wire,     \* what the peer sent and the listener has not read
          channel,  \* what the listener handed on
          toPeer,   \* what was written to the stream, oldest first
          call,     \* the call in progress
          done,     \* the last call that returned, and what it returned
          calls, sent

peerVars == <<hand, stop, listener, wire, channel, toPeer, call, done,
              calls, sent>>

Msg(kind, what) == [kind |-> kind, what |-> what]
Idle == [kind |-> "none", what |-> 0, at |-> 0]

-----------------------------------------------------------------------------
(* connection::connect: our version, theirs and their verack in either       *)
(* order, our verack.  Anything else they say meanwhile is dropped.          *)

PeerHandshake(m) ==
    /\ hand \in SUBSET {"version", "verack"}
    /\ LET got == hand \cup ({m.kind} \cap {"version", "verack"}) IN
       IF got = {"version", "verack"}
       THEN /\ hand' = {"up"}
            /\ toPeer' = Append(toPeer, Msg("verack", 0))
            /\ listener' = "on"
       ELSE hand' = got /\ UNCHANGED <<toPeer, listener>>
    /\ UNCHANGED <<stop, wire, channel, call, done, calls, sent>>

HandshakeFails ==
    /\ hand \in SUBSET {"version", "verack"}
    /\ hand' = {"failed"}
    /\ UNCHANGED <<stop, listener, wire, channel, toPeer, call, done,
                   calls, sent>>

-----------------------------------------------------------------------------
(* Client::listen *)

\* What a message makes the listener write, and hand on.
Reply(m) == IF m.kind = "ping" THEN <<Msg("pong", m.what)>> ELSE << >>
HandedOn(m) == IF m.kind \in {"block", "addr", "getdata"} THEN <<m>> ELSE << >>

\* The stop flag is looked at only after a message: a listener told to stop
\* still handles the one that wakes it.
Listen ==
    /\ listener = "on" /\ wire # << >>
    /\ LET m == Head(wire) IN
       /\ wire' = Tail(wire)
       /\ toPeer' = toPeer \o Reply(m)
       /\ channel' = channel \o HandedOn(m)
       /\ stop' = (stop \/ m.kind = "garbage")
       /\ listener' = IF stop' THEN "off" ELSE "on"
    /\ UNCHANGED <<hand, call, done, calls, sent>>

-----------------------------------------------------------------------------
(* The consumer's calls *)

Request(kind, what) ==
    /\ hand = {"up"} /\ call = Idle
    /\ calls < MaxCalls
    /\ calls' = calls + 1
    /\ call' = [kind |-> kind, what |-> what, at |-> Len(toPeer) + 1]
    /\ toPeer' = Append(toPeer, Msg(kind, what))
    /\ UNCHANGED <<hand, stop, listener, wire, channel, done, sent>>

GetBlock(b) == Request("getblock", b)
GetAddr == Request("getaddr", 0)
BroadcastTx(t) == Request("inv", t)

Return(result) == /\ done' = [call |-> call, result |-> result]
                  /\ call' = Idle

\* The one message a call waits for; every other one it takes is dropped.
AwaitsAny(c, m) ==
    \/ c.kind = "getblock" /\ m.kind = "block"
    \/ c.kind = "getaddr" /\ m.kind = "addr"
    \/ c.kind = "inv" /\ m.kind = "getdata"
Awaits(c, m) ==
    \/ c.kind = "getblock" /\ m.kind = "block"
    \/ c.kind = "getaddr" /\ m.kind = "addr"
    \/ c.kind = "inv" /\ m.kind = "getdata" /\ m.what = c.what

\* A broadcast hands over the transaction its peer asked for.
Take ==
    /\ call # Idle /\ channel # << >>
    /\ LET m == Head(channel) IN
       /\ channel' = Tail(channel)
       /\ IF Awaits(call, m)
          THEN /\ Return(m)
               /\ toPeer' = IF call.kind = "inv"
                            THEN Append(toPeer, Msg("tx", call.what))
                            ELSE toPeer
          ELSE UNCHANGED <<call, done, toPeer>>
    /\ UNCHANGED <<hand, stop, listener, wire, calls, sent>>

\* The deadline passed, or the listener stopped, and the message the call took
\* last, if there was one, was not for it.
Nothing == channel # << >> => ~Awaits(call, Head(channel))
GiveUp ==
    /\ call # Idle /\ Nothing
    /\ Return(Msg("none", 0))
    /\ channel' = IF channel = << >> THEN channel ELSE Tail(channel)
    /\ UNCHANGED <<hand, stop, listener, wire, toPeer, calls, sent>>

Stop ==
    /\ hand = {"up"} /\ call = Idle
    /\ ~stop
    /\ stop' = TRUE
    /\ hand' = {"failed"}
    /\ UNCHANGED <<listener, wire, channel, toPeer, call, done,
                   calls, sent>>

-----------------------------------------------------------------------------
(* The peer *)

\* It answers what it was asked, once and in order of its choosing, and may
\* ping, ask for a transaction it heard of, or send what cannot be decoded.
Answer(m) ==
    CASE m.kind = "getblock" -> Msg("block", m.what)
      [] m.kind = "getaddr"  -> Msg("addr", 0)
      [] m.kind = "inv"      -> Msg("getdata", m.what)

PeerAnswers ==
    /\ hand = {"up"} /\ sent < MaxPeer
    /\ \E i \in DOMAIN toPeer :
         /\ toPeer[i].kind \in {"getblock", "getaddr", "inv"}
         /\ wire' = Append(wire, Answer(toPeer[i]))
    /\ sent' = sent + 1
    /\ UNCHANGED <<hand, stop, listener, channel, toPeer, call, done,
                   calls>>

PeerSends(kind, what) ==
    /\ hand = {"up"} /\ sent < MaxPeer
    /\ wire' = Append(wire, Msg(kind, what))
    /\ sent' = sent + 1
    /\ UNCHANGED <<hand, stop, listener, channel, toPeer, call, done,
                   calls>>

-----------------------------------------------------------------------------

PeerInit ==
    /\ hand = {}
    /\ stop = FALSE
    /\ listener = "off"
    /\ wire = << >> /\ channel = << >>
    /\ toPeer = <<Msg("version", 0)>>
    /\ call = Idle
    /\ done = [call |-> Idle, result |-> Msg("none", 0)]
    /\ calls = 0 /\ sent = 0

PeerNext ==
    \/ \E k \in {"version", "verack", "other"} : PeerHandshake(Msg(k, 0))
    \/ HandshakeFails \/ Listen \/ Take \/ GiveUp \/ Stop \/ GetAddr
    \/ \E b \in Blocks : GetBlock(b)
    \/ \E t \in Txs : BroadcastTx(t)
    \/ PeerAnswers \/ PeerSends("garbage", 0)
    \/ \E n \in {1, 2} : PeerSends("ping", n)

PeerFairness == WF_peerVars(Listen) /\ WF_peerVars(Take) /\ WF_peerVars(GiveUp)

PeerSpec == PeerInit /\ [][PeerNext]_peerVars /\ PeerFairness

-----------------------------------------------------------------------------
(* Properties *)

\* A broadcast that succeeds had its own transaction asked for, and handed it
\* over after announcing it: the request of another transaction, which an
\* earlier call may have left in the channel, does not pass for it
\* (broadcast_tx).
BroadcastWasAskedFor ==
    done.call.kind = "inv" /\ done.result.kind # "none" =>
        /\ done.result = Msg("getdata", done.call.what)
        /\ \E i \in DOMAIN toPeer : /\ i > done.call.at
                                    /\ toPeer[i] = Msg("tx", done.call.what)

\* Every call returns: with what it waited for, at its deadline, or when the
\* listener stopped, however many other messages the listener hands on.
CallsReturn == call # Idle ~> call = Idle
=============================================================================
