--------------------------- MODULE BitBoxPairing ---------------------------
(***************************************************************************)
(* Pairing with BitBox02 devices and the encrypted link that follows       *)
(* (hwi/src/bitbox/api).  The service connects each device it finds on a   *)
(* thread of its own; the threads share one pairing configuration, the     *)
(* file bitbox.json, which holds the key the application generated for     *)
(* itself and the keys of the devices it has paired with.                  *)
(*                                                                         *)
(* One step is one access to the file, or one exchange with a device.      *)
(* Keys of the application are numbered as they are generated, a device's  *)
(* key is its name.                                                        *)
(***************************************************************************)
EXTENDS Integers, FiniteSets

CONSTANTS Devices,
          MaxKeys,      \* bound: keys the application generates
          MaxSessions,  \* bound: times devices are connected
          MaxQueries,   \* bound: requests of a session
          MaxFaults     \* bound: failed exchanges, unplugs and crashes

VARIABLES file,       \* bitbox.json: [st, key, known]
          session,    \* the thread of each device: where it is, its copy of
                      \* the configuration, and its end of the link
          device,     \* external: the application key each device confirmed,
                      \* its end of the link and the requests it ran
          paired,     \* history: the application key under which each
                      \* device's pairing was last stored, 0 for none
          confirmed,  \* history: devices whose code the user confirmed
          used        \* budgets: [keys, sessions, faults]

vars == <<file, session, device, paired, confirmed, used>>

NoSession == [at |-> "off", key |-> 0, known |-> {}, copy |-> 0,
              sent |-> 0, recv |-> 0, q |-> "idle", ok |-> 0, failed |-> 0,
              faults |-> 0]

PairingInit ==
    /\ file = [st |-> "absent", key |-> 0, known |-> {}]
    /\ session = [d \in Devices |-> NoSession]
    /\ device = [d \in Devices |-> [app |-> 0, got |-> 0, sent |-> 0,
                                    ran |-> 0]]
    /\ paired = [d \in Devices |-> 0]
    /\ confirmed = {}
    /\ used = [keys |-> 0, sessions |-> 0, faults |-> 0]

At(d, where) == session[d].at = where
Goes(d, where) == session' = [session EXCEPT ![d].at = where]
Drops(d) == session' = [session EXCEPT ![d] = NoSession]

\* read_config: a file that was created and not yet written does not parse.
Readable == file.st # "empty"

-----------------------------------------------------------------------------
\* A thread is spawned for the device, and unlock_and_pair unlocks it.
Unlock(d) ==
    /\ At(d, "off")
    /\ used.sessions < MaxSessions
    /\ used' = [used EXCEPT !.sessions = @ + 1]
    /\ Goes(d, "unlocked")
    /\ UNCHANGED <<file, device, paired, confirmed>>

\* pair: the application's key is read, or generated and stored.
ReadConfig(d) ==
    /\ At(d, "unlocked")
    /\ IF ~Readable
       THEN Drops(d) /\ UNCHANGED used
       ELSE IF file.key # 0
       THEN /\ session' = [session EXCEPT ![d].at = "handshake",
                                          ![d].key = file.key]
            /\ UNCHANGED used
       ELSE /\ used.keys < MaxKeys
            /\ used' = [used EXCEPT !.keys = @ + 1]
            /\ session' = [session EXCEPT ![d].at = "create key",
                                          ![d].key = used.keys + 1,
                                          ![d].known = file.known]
    /\ UNCHANGED <<file, device, paired, confirmed>>

\* store_config: File::create empties the file, write_all fills it.
CreateFile(d) ==
    /\ \/ At(d, "create key") /\ Goes(d, "write key")
       \/ At(d, "create known") /\ Goes(d, "write known")
    /\ file' = [file EXCEPT !.st = "empty"]
    /\ UNCHANGED <<device, paired, confirmed, used>>

WriteFile(d) ==
    /\ \/ At(d, "write key") /\ Goes(d, "handshake") /\ UNCHANGED paired
       \/ /\ At(d, "write known")
          /\ Goes(d, "paired")
          /\ paired' = [paired EXCEPT ![d] = session[d].key]
    /\ file' = [st |-> "data",
                key |-> IF At(d, "write key") THEN session[d].key
                        ELSE session[d].copy,
                known |-> session[d].known]
    /\ UNCHANGED <<device, confirmed, used>>

\* The Noise handshake; the device's last message says whether it wants the
\* code confirmed, which it does for an application key it does not know.
Handshake(d) ==
    /\ At(d, "handshake")
    /\ Goes(d, IF device[d].app = session[d].key THEN "known" ELSE "unknown")
    /\ device' = [device EXCEPT ![d].got = 0, ![d].sent = 0, ![d].ran = 0]
    /\ UNCHANGED <<file, paired, confirmed, used>>

\* The rest of pair: a code is shown when the application or the device
\* wants one.
ShowCode(d) ==
    /\ At(d, "known") \/ At(d, "unknown")
    /\ IF ~Readable THEN Drops(d)
       ELSE Goes(d, IF d \notin file.known \/ At(d, "unknown")
                    THEN "code" ELSE "paired")
    /\ UNCHANGED <<file, device, paired, confirmed, used>>

\* wait_confirm: the device answers what the user chose.
ConfirmRemembersFirst(d) ==
    /\ At(d, "code")
    /\ Goes(d, "reread")
    /\ \/ /\ confirmed' = confirmed \cup {d}
          /\ device' = [device EXCEPT ![d].app = session[d].key]
       \/ UNCHANGED <<confirmed, device>>
    /\ UNCHANGED <<file, paired, used>>
Confirm(d) ==
    /\ At(d, "code")
    /\ \/ /\ Goes(d, "reread")
          /\ confirmed' = confirmed \cup {d}
          /\ device' = [device EXCEPT ![d].app = session[d].key]
       \/ Drops(d) /\ UNCHANGED <<confirmed, device>>
    /\ UNCHANGED <<file, paired, used>>

\* ... and the device's key is added to the configuration read again; `copy`
\* carries the application key of that copy.
Remember(d) ==
    /\ At(d, "reread")
    /\ IF ~Readable THEN Drops(d)
       ELSE session' = [session EXCEPT ![d].at = "create known",
                                       ![d].known = file.known \cup {d},
                                       ![d].copy = file.key]
    /\ UNCHANGED <<file, device, paired, confirmed, used>>

-----------------------------------------------------------------------------
\* query_proto: the request is encrypted under the next number, then sent.
Encrypt(d) ==
    /\ At(d, "paired")
    /\ session[d].q = "idle"
    /\ session[d].sent < MaxQueries
    /\ session' = [session EXCEPT ![d].sent = @ + 1, ![d].q = "new"]
    /\ UNCHANGED <<file, device, paired, confirmed, used>>

\* The device runs a request whose number it expects and refuses another.
Runs(d) == session[d].sent = device[d].got + 1
Ran(d) == device' = [device EXCEPT ![d].got = @ + 1, ![d].sent = @ + 1,
                                   ![d].ran = @ + 1]

\* The answer is decrypted under the number the host expects, or not at all.
Fails(d) == session' = [session EXCEPT ![d].q = "idle", ![d].failed = @ + 1]
Answered(d, sent) ==
    IF sent # session[d].recv + 1 THEN Fails(d)
    ELSE session' = [session EXCEPT ![d].q = "idle", ![d].recv = @ + 1,
                                    ![d].ok = @ + 1]

\* HwwCommunication::query sends the request: it is answered at once, is
\* outstanding, or was encrypted under a number the device does not expect.
\* A busy device drops it and it is sent again, which changes nothing.
SendNew(d) ==
    /\ session[d].q = "new"
    /\ IF ~Runs(d) THEN Fails(d) /\ UNCHANGED device
       ELSE /\ Ran(d)
            /\ \/ Answered(d, device[d].sent + 1)
               \/ session' = [session EXCEPT ![d].q = "poll"]
    /\ UNCHANGED <<file, paired, confirmed, used>>

\* ... and asks for the answer to the outstanding one.
RetryResends(d) ==
    /\ session[d].q = "poll"
    /\ Fails(d)
    /\ UNCHANGED <<file, device, paired, confirmed, used>>
Retry(d) ==
    /\ session[d].q = "poll"
    /\ Answered(d, device[d].sent)
    /\ UNCHANGED <<file, device, paired, confirmed, used>>

\* An exchange fails: not acknowledged, or not written or read.
ExchangeFails(d) ==
    /\ session[d].q # "idle"
    /\ used.faults < MaxFaults
    /\ used' = [used EXCEPT !.faults = @ + 1]
    /\ session' = [session EXCEPT ![d].q = "idle", ![d].failed = @ + 1,
                                  ![d].faults = @ + 1]
    /\ UNCHANGED <<file, device, paired, confirmed>>

-----------------------------------------------------------------------------
\* The device is unplugged: its thread's next exchange fails.
Unplug(d) ==
    /\ ~At(d, "off")
    /\ session[d].at \notin {"create key", "write key",
                             "create known", "write known"}
    /\ Drops(d)
    /\ UNCHANGED <<file, device, paired, confirmed, used>>

\* The process ends and is started again.
Crash ==
    /\ used.faults < MaxFaults
    /\ used' = [used EXCEPT !.faults = @ + 1]
    /\ session' = [d \in Devices |-> NoSession]
    /\ UNCHANGED <<file, device, paired, confirmed>>

PairingNext ==
    \/ \E d \in Devices :
          \/ Unlock(d) \/ ReadConfig(d) \/ CreateFile(d) \/ WriteFile(d)
          \/ Handshake(d) \/ ShowCode(d) \/ Confirm(d) \/ Remember(d)
          \/ Encrypt(d) \/ SendNew(d) \/ Retry(d) \/ ExchangeFails(d)
          \/ Unplug(d)
    \/ Crash

PairingSpec == PairingInit /\ [][PairingNext]_vars

-----------------------------------------------------------------------------
\* A device is paired, and kept in the configuration, only after the user
\* confirmed its code once, whatever the threads of other devices store in
\* between (pair, wait_confirm).
PairedIsConfirmed ==
    /\ file.known \subseteq confirmed
    /\ \A d \in Devices : At(d, "paired") => d \in confirmed

\* While no exchange of a session failed, every request it finished was
\* answered, and the device ran each request once (query, query_proto).
QuietLinkServes ==
    \A d \in Devices :
        At(d, "paired") /\ session[d].faults = 0 =>
            /\ session[d].failed = 0
            /\ session[d].q = "idle" => device[d].ran = session[d].ok
=============================================================================
