------------------------------ MODULE MCSpScan ------------------------------
(***************************************************************************)
(* A payment to the account, and a transaction of the account that spends  *)
(* it and pays the change back.                                            *)
(***************************************************************************)
EXTENDS SpScan

MCTxs == {"pay", "send"}
MCIns == [pay |-> {}, send |-> {"pay"}]
MCPays == {"pay", "send"}
MCOwn == {"send"}
NoGenesis == <<>>
=============================================================================
