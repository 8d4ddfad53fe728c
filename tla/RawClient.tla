------------------------------ MODULE RawClient ------------------------------
(***************************************************************************)
(* The raw electrum client: a TCP or TLS endpoint, the connection its      *)
(* clones share behind one mutex, and the newline framing over a byte      *)
(* stream that arrives in arbitrary chunks.  One step is one system call   *)
(* on the socket, or one call that makes none.                             *)
(*                                                                         *)
(* A line is two bytes, its text and its newline.  The peer is external:   *)
(* it writes lines byte by byte, and may close in the middle of one.       *)
(***************************************************************************)
EXTENDS Naturals, Sequences, SequencesExt

CONSTANTS Handles,     \* the clients the program holds
          SelfSigned,  \* BOOLEAN: no trusted authority signed the peer's certificate
          MaxConns, MaxLines, MaxRequests, MaxCalls

VARIABLES clients, conns, calls

rawVars == <<clients, conns, calls>>

Checks == {"Validate", "DangerAcceptInvalid"}
Line(n) == <<[line |-> n, end |-> FALSE], [line |-> n, end |-> TRUE]>>
Lines(n) == FlattenSeq([i \in 1 .. n |-> Line(i)])

RawInit ==
  /\ clients = [h \in Handles |->
                 [kind |-> "None", check |-> "Validate", stream |-> 0]]
  /\ conns = << >>
  /\ calls = 0

Calls == calls < MaxCalls /\ calls' = calls + 1

\* Every call on a client borrows it until it returns.
Free(h) == clients[h].stream # 0 => conns[clients[h].stream].by # h

\* A connection as the handshake leaves it.  `by` is the handle that holds the
\* mutex and `doing` what for; `got` is what the reads returned, `sent` and
\* `received` what the peer wrote and was sent.
Fresh(check) ==
  [check |-> check, open |-> TRUE, peer |-> TRUE, blocking |-> TRUE,
   doing |-> "nothing", by |-> 0, buf |-> << >>, wire |-> << >>,
   sent |-> 0, got |-> << >>, asked |-> 0, received |-> << >>]

(***************************************************************************)
(* Configuring, connecting, cloning, closing.                              *)
(***************************************************************************)
NewSslMaybe(h, kind) ==
  /\ Calls
  /\ clients[h].kind = "None"
  /\ clients' = [clients EXCEPT ![h].kind = kind]
  /\ UNCHANGED conns

\* Refused on a connected client, and dropped on a plain TCP one.
CertificateCheck(h, check) ==
  /\ Calls
  /\ clients[h].kind # "None" /\ clients[h].stream = 0
  /\ clients' = [clients EXCEPT
       ![h].check = IF clients[h].kind = "Ssl" THEN check ELSE @]
  /\ UNCHANGED conns

\* A connected client opens a second connection only to drop it with
\* AlreadyConnected.
TryConnect(h) ==
  /\ Calls
  /\ clients[h].kind # "None" /\ clients[h].stream = 0
  /\ Len(conns) < MaxConns
  /\ clients[h].kind = "Ssl" =>
       (SelfSigned => clients[h].check = "DangerAcceptInvalid")
  /\ conns' = Append(conns, Fresh(clients[h].check))
  /\ clients' = [clients EXCEPT ![h].stream = Len(conns) + 1]

Clone(h, k) ==
  /\ Calls /\ Free(h)
  /\ clients[h].kind # "None" /\ clients[k].kind = "None"
  /\ clients' = [clients EXCEPT ![k] = clients[h]]
  /\ UNCHANGED conns

\* The stream leaves the client first; the socket is shut down only when no
\* clone holds the mutex.  Dropping a client closes it the same way.
Close(h, dropped) ==
  LET c == clients[h].stream IN
  /\ Calls /\ Free(h)
  /\ clients[h].kind # "None" /\ (dropped \/ c # 0)
  /\ clients' = [clients EXCEPT ![h] =
       IF dropped THEN [kind |-> "None", check |-> "Validate", stream |-> 0]
       ELSE [@ EXCEPT !.stream = 0]]
  /\ conns' = IF c = 0 \/ conns[c].doing # "nothing" THEN conns
              ELSE [conns EXCEPT ![c].open = FALSE, ![c].wire = << >>]

(***************************************************************************)
(* Sending and receiving hold the mutex of the connection throughout.      *)
(***************************************************************************)
Unlocked(conn) == [conn EXCEPT !.doing = "nothing", !.by = 0]

TakeLineAlone(bytes) ==
  LET ends == {i \in 1 .. Len(bytes) : bytes[i].end} IN
  IF ends = {} THEN [line |-> << >>, rest |-> bytes]
  ELSE LET pos == CHOOSE i \in ends : \A j \in ends : i <= j IN
       [line |-> SubSeq(bytes, 1, pos), rest |-> << >>]

\* The bytes up to the first newline, and the rest for the next read.
TakeLine(bytes) ==
  LET ends == {i \in 1 .. Len(bytes) : bytes[i].end} IN
  IF ends = {} THEN [line |-> << >>, rest |-> bytes]
  ELSE LET pos == CHOOSE i \in ends : \A j \in ends : i <= j IN
       [line |-> SubSeq(bytes, 1, pos), rest |-> SubSeq(bytes, pos + 1, Len(bytes))]

\* The call returns a line when the buffer holds one, and reads on otherwise.
Returned(conn, bytes) ==
  LET taken == TakeLine(bytes) IN
  IF taken.line = << >> THEN [conn EXCEPT !.buf = bytes]
  ELSE [Unlocked(conn) EXCEPT !.buf = taken.rest, !.blocking = TRUE,
                              !.got = Append(@, taken.line)]

\* recv_str looks at the buffer before it reads, and so does try_recv_str.
Recv(h) ==
  LET c == clients[h].stream IN
  /\ Calls
  /\ c # 0 /\ conns[c].doing = "nothing"
  /\ conns' = [conns EXCEPT ![c] =
       Returned([@ EXCEPT !.doing = "recv", !.by = h], @.buf)]
  /\ UNCHANGED clients

TryRecv(h) ==
  LET c == clients[h].stream IN
  /\ Calls
  /\ c # 0 /\ conns[c].doing = "nothing"
  /\ conns' = [conns EXCEPT ![c] =
       Returned([@ EXCEPT !.doing = "try_recv", !.by = h, !.blocking = FALSE],
                @.buf)]
  /\ UNCHANGED clients

\* A read returns any first part of what has arrived.
Read(c) ==
  /\ conns[c].doing \in {"recv", "try_recv"}
  /\ \E n \in 1 .. Len(conns[c].wire) :
       conns' = [conns EXCEPT ![c] =
         Returned([@ EXCEPT !.wire = SubSeq(@, n + 1, Len(@))],
                  @.buf \o SubSeq(@.wire, 1, n))]
  /\ UNCHANGED <<clients, calls>>

\* Nothing has arrived: try_recv_str returns None on a blocking socket again.
WouldBlock(c) ==
  /\ conns[c].doing = "try_recv" /\ conns[c].wire = << >>
  /\ conns[c].peer /\ conns[c].open
  /\ conns' = [conns EXCEPT ![c] = [Unlocked(@) EXCEPT !.blocking = TRUE]]
  /\ UNCHANGED <<clients, calls>>

\* End of stream: recv_str hands out what is left of a line, try_recv_str
\* keeps it and errors.
EndOfStream(c) ==
  /\ conns[c].doing \in {"recv", "try_recv"} /\ conns[c].wire = << >>
  /\ ~(conns[c].peer /\ conns[c].open)
  /\ conns' = [conns EXCEPT ![c] =
       IF @.doing = "recv" /\ @.buf # << >>
       THEN [Unlocked(@) EXCEPT !.got = Append(@, conns[c].buf), !.buf = << >>]
       ELSE [Unlocked(@) EXCEPT !.blocking = TRUE]]
  /\ UNCHANGED <<clients, calls>>

\* The text of the request, then its newline.  A socket that does not block
\* may take the text in part and fail with WouldBlock.
TrySendStr(h) ==
  LET c == clients[h].stream IN
  /\ c # 0 /\ conns[c].asked < MaxRequests
  /\ conns[c].doing = "nothing"
  /\ Calls
  /\ conns' = [conns EXCEPT ![c].doing = "send", ![c].by = h,
                            ![c].asked = @ + 1,
                            ![c].received = Append(@, Line(conns[c].asked + 1)[1])]
  /\ UNCHANGED clients

SendNewline(c) ==
  /\ conns[c].doing = "send"
  /\ conns[c].open /\ conns[c].peer
  /\ conns' = [conns EXCEPT ![c] =
       [Unlocked(@) EXCEPT !.received = Append(@, Line(conns[c].asked)[2])]]
  /\ UNCHANGED <<clients, calls>>

SendFails(c) ==
  /\ conns[c].doing = "send"
  /\ ~(conns[c].open /\ conns[c].peer) \/ ~conns[c].blocking
  /\ conns' = [conns EXCEPT ![c] = Unlocked(@)]
  /\ UNCHANGED <<clients, calls>>

(***************************************************************************)
(* The peer (external).                                                    *)
(***************************************************************************)
PeerWrites(c) ==
  /\ conns[c].peer /\ conns[c].open /\ conns[c].sent < 2 * MaxLines
  /\ conns' = [conns EXCEPT
       ![c].sent = @ + 1,
       ![c].wire = Append(@, Lines(MaxLines)[conns[c].sent + 1])]
  /\ UNCHANGED <<clients, calls>>

PeerCloses(c) ==
  /\ conns[c].peer
  /\ conns' = [conns EXCEPT ![c].peer = FALSE]
  /\ UNCHANGED <<clients, calls>>

RawNext ==
  \/ \E h \in Handles :
       \/ \E kind \in {"Tcp", "Ssl"} : NewSslMaybe(h, kind)
       \/ \E check \in Checks : CertificateCheck(h, check)
       \/ \E dropped \in BOOLEAN : Close(h, dropped)
       \/ \E k \in Handles : Clone(h, k)
       \/ TryConnect(h) \/ Recv(h) \/ TryRecv(h) \/ TrySendStr(h)
  \/ \E c \in 1 .. Len(conns) :
       \/ Read(c) \/ WouldBlock(c) \/ EndOfStream(c)
       \/ SendNewline(c) \/ SendFails(c)
       \/ PeerWrites(c) \/ PeerCloses(c)

RawSpec == RawInit /\ [][RawNext]_rawVars

\* Whatever the chunks the bytes arrive in, and whichever clones read with
\* recv_str or try_recv_str, the reads of one connection return the peer's
\* lines one by one, in order, none lost and none twice; only the last may be
\* cut short, by the end of the stream.
LinesArriveWhole ==
  \A c \in 1 .. Len(conns) :
    LET got == conns[c].got IN
    \A i \in 1 .. Len(got) :
      got[i] = Line(i) \/ (i = Len(got) /\ got[i] = <<Line(i)[1]>>
                           /\ ~(conns[c].peer /\ conns[c].open))

\* Two clones sending at once, after polls that found nothing, never run
\* their requests together on the wire: while the connection stands the peer
\* receives whole lines, in the order the mutex was taken.
RequestsAreWhole ==
  \A c \in 1 .. Len(conns) :
    conns[c].open /\ conns[c].peer =>
      LET whole == Lines(conns[c].asked) IN
      conns[c].received = IF conns[c].doing = "send"
                          THEN SubSeq(whole, 1, 2 * conns[c].asked - 1)
                          ELSE whole

\* The policy a client reports is the one its connection shook hands under,
\* through clones, failed closes and reconnections.
PolicyIsTheHandshakes ==
  \A h \in Handles :
    clients[h].stream # 0 => clients[h].check = conns[clients[h].stream].check
=============================================================================
