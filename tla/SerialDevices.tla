---------------------------- MODULE SerialDevices ----------------------------
(***************************************************************************)
(* The hardware wallets on a serial port: Jade (hwi/src/jade) and Specter  *)
(* (hwi/src/specter.rs).  A request holds the port's mutex, writes, and    *)
(* reads until it has an answer or the port times out; a Jade's answer to  *)
(* sign_psbt comes in parts, each asked for by a request of its own.  The  *)
(* threads of several callers share the port.                              *)
(*                                                                         *)
(* One step is one write, one read or one answer of the device.  What was  *)
(* answered after its request had timed out stays in the port and is read  *)
(* by the next request.                                                    *)
(***************************************************************************)
EXTENDS Integers, Sequences, SequencesExt

CONSTANTS Callers, None,
          Kind,         \* "jade" or "specter"
          Parts,        \* parts of a signed PSBT on a Jade
          MaxRequests,  \* bound: requests written
          MaxTimeouts   \* bound: requests given up

VARIABLES lock,      \* the caller that holds the port
          port,      \* pieces of answers not read yet
          device,    \* external: requests to answer, the PSBT in parts
          call,      \* what each caller asks for and has got
          sent,      \* requests written: the number of the last one
          timeouts

vars == <<lock, port, device, call, sent, timeouts>>

NoCall == [op |-> "none", at |-> "idle", req |-> 0, first |-> 0, buf |-> <<>>,
           got |-> <<>>, result |-> "none"]
NoParts == [of |-> 0, next |-> 0]

SerialInit ==
    /\ lock = None
    /\ port = <<>>
    /\ device = [inbox |-> <<>>, parts |-> NoParts]
    /\ call = [c \in Callers |-> NoCall]
    /\ sent = 0
    /\ timeouts = 0

-----------------------------------------------------------------------------
\* A caller signs a PSBT or registers a wallet.
Start(c, op) ==
    /\ call[c].at = "idle"
    /\ call' = [call EXCEPT ![c] = [NoCall EXCEPT !.op = op, !.at = "ask"]]
    /\ UNCHANGED <<lock, port, device, sent, timeouts>>

\* exchange: the port is locked and the request written.  Every request of
\* the process carries the same id.
Write(c) ==
    /\ call[c].at = "ask"
    /\ lock = None
    /\ sent < MaxRequests
    /\ lock' = c
    /\ sent' = sent + 1
    /\ call' = [call EXCEPT ![c].at = "read", ![c].req = sent + 1,
                            ![c].buf = <<>>,
                            ![c].first = IF call[c].got = <<>> THEN sent + 1
                                         ELSE @]
    /\ device' = [device EXCEPT !.inbox = Append(@,
                    [req |-> sent + 1,
                     op |-> IF call[c].got = <<>> THEN call[c].op
                            ELSE "get_extended_data"])]
    /\ UNCHANGED <<port, timeouts>>

\* External: the device answers the oldest request.  It keeps the rest of a
\* PSBT for the requests that follow and drops it at any other.
Reply(req, type, of, seq, len) ==
    [req |-> req, type |-> type, of |-> of, seq |-> seq, len |-> len]
Answers ==
    /\ device.inbox # <<>>
    /\ LET r == Head(device.inbox)
           p == device.parts
           error == Reply(r.req, "error", 0, 0, 0)
           answer ==
               IF r.op = "get_extended_data"
               THEN IF p.of = 0 THEN error
                    ELSE Reply(r.req, "bytes", p.of, p.next, Parts)
               ELSE IF p.of # 0 THEN error
               ELSE IF r.op = "sign" THEN Reply(r.req, "bytes", r.req, 1,
                        IF Kind = "jade" THEN Parts ELSE 1)
               ELSE Reply(r.req, "bool", r.req, 1, 1)
       IN  \E a \in {answer, error} :
            /\ port' = port \o <<[half |-> 1, of |-> a], [half |-> 2, of |-> a]>>
            /\ device' = [inbox |-> Tail(device.inbox),
                          parts |-> IF a.type = "bytes" /\ a.seq < a.len
                                    THEN [of |-> a.of, next |-> a.seq + 1]
                                    ELSE NoParts]
    /\ UNCHANGED <<lock, call, sent, timeouts>>

-----------------------------------------------------------------------------
\* What the bytes read make.  Jade: a response once they are exactly one of
\* the type asked for, or an error.  Specter: the second line, whatever it
\* answers.
Wanted(c) == IF call[c].op = "register" THEN "bool" ELSE "bytes"
Parsed(c, buf) ==
    /\ Len(buf) = 2
    /\ Kind = "jade" => /\ buf[1].of = buf[2].of
                        /\ buf[1].half = 1 /\ buf[2].half = 2
                        /\ buf[2].of.type \in {Wanted(c), "error"}

Finish(c, result) ==
    /\ call' = [call EXCEPT ![c].at = "idle", ![c].result = result,
                            ![c].buf = <<>>]
    /\ lock' = None

\* sign_tx and register_wallet go on with a response: a PSBT that is not
\* whole is asked on, and the port is free in between.
Take(c, buf) ==
    LET r == buf[2].of
    IN  IF r.type # Wanted(c) \/ buf[2].half # 2 THEN Finish(c, "error")
        ELSE LET whole == r.seq >= r.len
             IN  /\ call' = [call EXCEPT
                        ![c].at = IF whole THEN "idle" ELSE "ask",
                        ![c].result = IF whole THEN "ok" ELSE @,
                        ![c].got = Append(@, r),
                        ![c].buf = <<>>]
                 /\ lock' = None

\* read_stream and read_line: a read returns one piece or more.
Read(c) ==
    /\ lock = c
    /\ port # <<>>
    /\ \E n \in 1..Len(port) :
          LET buf == call[c].buf \o SubSeq(port, 1, n)
          IN  /\ port' = SubSeq(port, n + 1, Len(port))
              /\ IF Parsed(c, buf) THEN Take(c, buf)
                 ELSE /\ call' = [call EXCEPT ![c].buf = buf]
                      /\ UNCHANGED lock
    /\ UNCHANGED <<device, sent, timeouts>>

\* The port times out.
Timeout(c) ==
    /\ lock = c
    /\ port = <<>>
    /\ timeouts < MaxTimeouts
    /\ timeouts' = timeouts + 1
    /\ Finish(c, "error")
    /\ UNCHANGED <<port, device, sent>>

SerialNext ==
    \/ \E c \in Callers :
          \/ \E op \in {"sign", "register"} : Start(c, op)
          \/ Write(c) \/ Read(c) \/ Timeout(c)
    \/ Answers

SerialSpec == SerialInit /\ [][SerialNext]_vars

-----------------------------------------------------------------------------
\* While no request has been given up, what a caller takes for its answer is
\* the device's: the first part answers its own request, the parts come in
\* order and to the end, and they are all of the PSBT it asked for unless
\* another caller's request came between them (sign_tx, exchange,
\* read_stream).
AnswerIsOwn ==
    timeouts = 0 =>
        \A c \in Callers :
            call[c].result = "ok" =>
                LET got == call[c].got
                    alone == \A k \in DOMAIN got :
                                got[k].req = call[c].first + k - 1
                IN  /\ Len(got) = got[1].len
                    /\ got[1].of = call[c].first
                    /\ \A k \in DOMAIN got :
                          /\ got[k].seq = k
                          /\ got[k].type = Wanted(c)
                          /\ alone => got[k].of = call[c].first
=============================================================================
