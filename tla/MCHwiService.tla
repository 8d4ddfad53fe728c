---------------------------- MODULE MCHwiService ----------------------------
EXTENDS HwiService, TLC

\* One device, or a device and the simulator of its make; a consumer that
\* restarts the service while a listener is still alive.
MCBenches ==
    [make : {"dev" :> k : k \in {"jade", "bitbox"}} \cup
            {[dev |-> k, sim |-> k] : k \in {"ledger", "specter"}},
     kinds : {{"plug", "fault"}}] \cup
    [make : {"dev" :> "coldcard", "sim" :> "specter"},
     kinds : {{"plug", "stop"}}]
=============================================================================
