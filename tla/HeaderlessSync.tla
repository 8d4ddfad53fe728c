--------------------------- MODULE HeaderlessSync ---------------------------
(***************************************************************************)
(* A scan run without a header scanner: one connection of listen_txs, which *)
(* confirms the claims of its histories itself, against the headers the     *)
(* same server returns.  The coin-store operators are those of CoinStore,   *)
(* and one step is one message taken from the client thread.                *)
(*                                                                          *)
(* The server is external.  It lists every transaction in the history of    *)
(* one script, answers requests in order from what it knows then, and       *)
(* announces a status whenever that history changes.                        *)
(***************************************************************************)
EXTENDS CoinStore, Sequences

CONSTANTS MaxMoves,   \* changes of the server's chain
          MaxErrors   \* header requests it fails

VARIABLES tx, hist, updates, pending,  \* the coin store
          headers,                     \* ServerHeaders of this connection
          status,                      \* the history the stored status stands for
          toSrv, fromSrv,              \* requests and answers under way
          server, chain, dropped, moves, errors

storeVars == <<tx, hist, updates, pending>>
serverVars == <<server, chain, dropped, moves, errors>>
headerlessVars == <<storeVars, headers, status, toSrv, fromSrv, serverVars>>

Unasked == [asked |-> FALSE, block |-> NoBlock]
AskedFor == [asked |-> TRUE, block |-> NoBlock]
Landed(b) == [asked |-> TRUE, block |-> b]

HeaderlessInit ==
  /\ tx = [t \in Txid |-> Absent]
  /\ hist = NoHistory /\ status = NoHistory /\ server = NoHistory
  /\ updates = {} /\ pending = {}
  /\ headers = [h \in Height |-> Unasked]
  /\ toSrv = << >> /\ fromSrv = << >>
  /\ chain \in [Height -> Block]
  /\ dropped = {} /\ moves = 0 /\ errors = 0

-----------------------------------------------------------------------------
(* The listener.                                                             *)

ClaimEndsInFlight(t, store, inUpdates) == TRUE

\* A claim whose tx bytes have not landed waits for a later pass; one whose
\* tx is gone or already promoted is dead.
ClaimEnds(t, store, inUpdates) ==
  ~(store[t].inc = "absent" /\ UpdateInFlight(inUpdates, t))

\* confirm_pending_claims, for every height whose header has landed.
Promoted(store, claims, hdr) ==
  [t \in Txid |->
     IF store[t].inc = "unconfirmed"
        /\ \E c \in claims : c.txid = t /\ hdr[c.height].block # NoBlock
     THEN LET c == CHOOSE c \in claims : c.txid = t /\ hdr[c.height].block # NoBlock
              b == hdr[c.height].block
          IN  [UpdateInclusion(store[t], "unverified", c.height, b) EXCEPT !.time = b]
     ELSE store[t]]

Remaining(store, claims, inUpdates, hdr) ==
  {c \in claims : hdr[c.height].block = NoBlock
                  \/ ~ClaimEnds(c.txid, store, inUpdates)}

\* confirm_reported: promote what has a header, and ask for the heights nobody
\* asked for yet.  `asking` is what the handler already sent.
ConfirmReported(store, claims, inUpdates, hdr, asking) ==
  LET missing == {h \in Height : ~hdr[h].asked /\ \E c \in claims : c.height = h}
  IN  /\ tx' = Promoted(store, claims, hdr)
      /\ pending' = Remaining(store, claims, inUpdates, hdr)
      /\ headers' = [h \in Height |-> IF h \in missing THEN AskedFor ELSE hdr[h]]
      /\ toSrv' = asking \o (IF missing = {} THEN << >>
                             ELSE <<[kind |-> "headers", ids |-> missing]>>)

Receives(kind) == fromSrv # << >> /\ Head(fromSrv).kind = kind

\* handle_status_response: a new history is asked for, an emptied one folded.
OnStatus ==
  /\ Receives("status")
  /\ LET new == Head(fromSrv).hist IN
     /\ status' = new
     /\ IF new = status THEN UNCHANGED <<storeVars, toSrv>>
        ELSE IF new # NoHistory
        THEN /\ toSrv' = Append(toSrv, [kind |-> "history", ids |-> {}])
             /\ UNCHANGED storeVars
        ELSE /\ tx' = FoldTxs(tx, hist, new)
             /\ pending' = FoldPending(pending, hist, new)
             /\ hist' = new
             /\ UNCHANGED <<updates, toSrv>>
  /\ fromSrv' = Tail(fromSrv)
  /\ UNCHANGED <<headers, serverVars>>

\* handle_history_response_msg, then confirm_reported.
OnHistory ==
  /\ Receives("history")
  /\ LET new == Head(fromSrv).hist
         folded == FoldTxs(tx, hist, new)
         upd == UpdateFor(folded, hist, new)
         queued == updates \cup IncompleteUpdates({upd})
         claims == RecordReportedHeights(FoldPending(pending, hist, new), folded,
                                         Reported(new))
     IN  /\ hist' = new
         /\ updates' = queued
         /\ ConfirmReported(folded, claims, queued, headers,
              IF upd.missing = {} THEN toSrv
              ELSE Append(toSrv, [kind |-> "txs", ids |-> upd.missing]))
  /\ fromSrv' = Tail(fromSrv)
  /\ UNCHANGED <<status, serverVars>>

\* handle_txs_response: the bytes a claim waited for may have landed.
OnTxs ==
  /\ Receives("txs")
  /\ LET filled == FillUpdates(updates, Head(fromSrv).ids) IN
     /\ updates' = IncompleteUpdates(filled)
     /\ ConfirmReported(InsertUpdates(tx, CompletedTxs(filled)), pending,
                        updates', headers, toSrv)
  /\ fromSrv' = Tail(fromSrv)
  /\ UNCHANGED <<hist, status, serverVars>>

OnHeaders ==
  /\ Receives("headers")
  /\ LET m == Head(fromSrv) IN
     ConfirmReported(tx, pending, updates,
       [h \in Height |-> IF h \in m.ids THEN Landed(m.view[h]) ELSE headers[h]],
       toSrv)
  /\ fromSrv' = Tail(fromSrv)
  /\ UNCHANGED <<hist, updates, status, serverVars>>

\* A failed fetch is forgotten; nothing asks again until another answer comes.
OnHeaderError ==
  /\ Receives("error")
  /\ headers' = [h \in Height |->
       IF h \in Head(fromSrv).ids THEN Unasked ELSE headers[h]]
  /\ fromSrv' = Tail(fromSrv)
  /\ UNCHANGED <<storeVars, status, toSrv, serverVars>>

-----------------------------------------------------------------------------
(* The server (external).                                                    *)

Answer ==
  /\ toSrv # << >>
  /\ LET m == Head(toSrv) IN
     fromSrv' = Append(fromSrv,
       IF m.kind = "history" THEN [kind |-> "history", hist |-> server]
       ELSE IF m.kind = "txs" THEN m
       ELSE [kind |-> "headers", ids |-> m.ids, view |-> chain])
  /\ toSrv' = Tail(toSrv)
  /\ UNCHANGED <<storeVars, headers, status, serverVars>>

FailHeaders ==
  /\ toSrv # << >> /\ Head(toSrv).kind = "headers" /\ errors < MaxErrors
  /\ fromSrv' = Append(fromSrv, [kind |-> "error", ids |-> Head(toSrv).ids])
  /\ toSrv' = Tail(toSrv)
  /\ errors' = errors + 1
  /\ UNCHANGED <<storeVars, headers, status, server, chain, dropped, moves>>

\* A transaction appears, is mined, is moved by a reorg of block h, or is
\* dropped from the list.
Move(new, h, b) ==
  /\ moves < MaxMoves /\ new # server
  /\ moves' = moves + 1
  /\ server' = new
  /\ dropped' = dropped \cup (DOMAIN server \ DOMAIN new)
  /\ chain' = [chain EXCEPT ![h] = b]
  /\ fromSrv' = Append(fromSrv, [kind |-> "status", hist |-> new])
  /\ UNCHANGED <<storeVars, headers, status, toSrv, errors>>

HeaderlessNext ==
  \/ OnStatus \/ OnHistory \/ OnTxs \/ OnHeaders \/ OnHeaderError
  \/ Answer \/ FailHeaders
  \/ \E new \in History, h \in Height, b \in Block : Move(new, h, b)

HeaderlessSpec == HeaderlessInit /\ [][HeaderlessNext]_headerlessVars

-----------------------------------------------------------------------------

AgreesWithServer(t) ==
  IF server[t] = 0 THEN tx[t].inc = "unconfirmed"
  ELSE tx[t].inc = "unverified" /\ tx[t].height = server[t]

Quiet == toSrv = << >> /\ fromSrv = << >>

\* Once every answer is in, every transaction the server never dropped is held
\* as it lists it, confirmed at the height it reports, however histories, tx
\* bytes, headers and reorgs interleave; only one whose header fetch failed may
\* still wait, and then its claim is still queued for the next pass.
ReportedIsConfirmed ==
  Quiet => \A t \in DOMAIN server \ dropped :
    \/ AgreesWithServer(t)
    \/ /\ tx[t].inc = "unconfirmed"
       /\ \E c \in pending : c.txid = t /\ c.height = server[t]
                             /\ ~headers[c.height].asked
=============================================================================
