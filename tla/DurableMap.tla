----------------------------- MODULE DurableMap -----------------------------
(***************************************************************************)
(* What a persisted store promises its owner: a map in memory, of which a  *)
(* flush makes a durable copy, all of it or nothing, and to which the      *)
(* owner returns when it starts again.                                     *)
(***************************************************************************)
CONSTANTS Keys, Vals, Absent

VARIABLES mem, durable

Maps == [Keys -> Vals \cup {Absent}]

DurableInit == mem \in Maps /\ durable = mem

Write ==
    /\ \E k \in Keys, v \in Vals \cup {Absent} : mem' = [mem EXCEPT ![k] = v]
    /\ durable' = durable

Commit == durable' = mem /\ mem' = mem

Restart == mem' = durable /\ durable' = durable

DurableNext == Write \/ Commit \/ Restart

DurableSpec == DurableInit /\ [][DurableNext]_<<mem, durable>>
=============================================================================
