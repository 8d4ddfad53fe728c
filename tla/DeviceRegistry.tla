--------------------------- MODULE DeviceRegistry ---------------------------
(***************************************************************************)
(* What the hardware-wallet service promises its consumer: a device map    *)
(* that other threads change at any time, and an Update message after      *)
(* every change.  A change is owed an Update until the thread that made it *)
(* has sent it.                                                            *)
(***************************************************************************)
EXTENDS Integers

CONSTANTS Ids, Entries

VARIABLES devices,  \* the shared device map
          owed,     \* changes whose Update is still to be sent
          queued,   \* an Update is in the channel
          view      \* the list the consumer took at its last Update

rvars == <<devices, owed, queued, view>>

Maps == UNION {[S -> Entries] : S \in SUBSET Ids}

RegistryInit ==
    /\ devices = << >>
    /\ owed = 0
    /\ queued = FALSE
    /\ view = << >>

Change ==
    /\ devices' \in Maps
    /\ owed' = owed + 1
    /\ UNCHANGED <<queued, view>>

ChangeAndSend ==
    /\ devices' \in Maps
    /\ queued' = TRUE
    /\ UNCHANGED <<owed, view>>

Send ==
    /\ owed > 0
    /\ owed' = owed - 1
    /\ queued' = TRUE
    /\ UNCHANGED <<devices, view>>

List ==
    /\ queued
    /\ queued' = FALSE
    /\ view' = devices
    /\ UNCHANGED <<devices, owed>>

RegistryNext == Change \/ ChangeAndSend \/ Send \/ List

RegistrySpec == RegistryInit /\ [][RegistryNext]_rvars
=============================================================================
