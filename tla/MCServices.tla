----------------------------- MODULE MCServices -----------------------------
(***************************************************************************)
(* The components that keep a file, a socket, a device link or a draft, in *)
(* one run: the initial state picks a component, and only its steps are    *)
(* taken from there.  The components share the variables x1 .. x13.        *)
(***************************************************************************)
EXTENDS Integers, Sequences, FiniteSets, TLC

CONSTANT None

VARIABLES scene, x1, x2, x3, x4, x5, x6, x7, x8, x9, x10, x11, x12, x13

vars == <<scene, x1, x2, x3, x4, x5, x6, x7, x8, x9, x10, x11, x12, x13>>

-----------------------------------------------------------------------------
(* Files.                                                                  *)

\* headers.bin of three heights and two headers.
HeaderRows == INSTANCE HeaderFile WITH
    rows <- x1, dirty <- x2, removed <- x3, file <- x4, writing <- x5,
    put <- x6, failed <- x7, changes <- x8, faults <- x9,
    Heights <- {0, 1, 2}, Headers <- {"a", "b"}, MaxChanges <- 3, MaxFaults <- 1

\* config.json of an account with two mnemonics.
Config == INSTANCE ConfigFile WITH
    config <- x1, file <- x2, tmp <- x3, saving <- x4, saved <- x5,
    edits <- x6, faults <- x7,
    Seeds <- {"m1", "m2"}, MaxEdits <- 4, MaxFaults <- 2

-----------------------------------------------------------------------------
(* Connections.                                                            *)

\* Two clients of one peer whose certificate nobody signed.
Raw == INSTANCE RawClient WITH
    clients <- x1, conns <- x2, calls <- x3,
    Handles <- {1, 2}, SelfSigned <- TRUE, MaxConns <- 2, MaxLines <- 2,
    MaxRequests <- 2, MaxCalls <- 5

\* Three blocking calls and an empty line.
Blocking == INSTANCE ElectrumCalls WITH
    last <- x1, call <- x2, index <- x3, asked <- x4, lines <- x5,
    results <- x6, late <- x7, empties <- x8,
    Calls <- {"get_tx", "get_coins_at", "broadcast", "broadcast_tx"}, MaxCalls <- 3,
    MaxEmpty <- 1

\* Two transactions, two heights, one block a height.
Headerless == INSTANCE HeaderlessSync WITH
    tx <- x1, hist <- x2, updates <- x3, pending <- x4, headers <- x5,
    status <- x6, toSrv <- x7, fromSrv <- x8, server <- x9, chain <- x10,
    dropped <- x11, moves <- x12, errors <- x13,
    Txid <- {"t1", "t2"}, MaxHeight <- 2, Block <- {"a"}, NoBlock <- None,
    MaxMoves <- 2, MaxErrors <- 1

-----------------------------------------------------------------------------
(* The silent-payment account and the transaction builder.                 *)

E(server, insecure) == [server |-> server, insecure |-> insecure]

\* An account of its own headers with one sub-account, and one without that
\* shares another's or has none.
Configs ==
    {[endpoint |-> e, key |-> "k1", headers |-> "own", persists |-> TRUE,
      subs |-> <<[endpoint |-> E("s2", i), key |-> None]>>] :
        e \in {E(None, FALSE), E("s1", TRUE)}, i \in BOOLEAN}
    \cup
    {[endpoint |-> E("s1", FALSE), key |-> None, headers |-> h,
      persists |-> FALSE, subs |-> <<>>] : h \in {"shared", "none"}}

Account == INSTANCE SpAccount WITH
    config <- x1, saved <- x2, subs <- x3, signers <- x4, headers <- x5,
    broadcast <- x6, todo <- x7, calls <- x8,
    Servers <- {"s1", "s2"}, Keys <- {"k1"}, Configs <- Configs, MaxSubs <- 2,
    MaxCalls <- 3, MaxAnswers <- 2

Coin(id, value, wu) == [id |-> id, value |-> value, wu |-> wu]

\* Two wallets; an output and the change weigh 172 units.
Builder == INSTANCE TxBuilder WITH
    source <- x1, tpl <- x2, last <- x3, steps <- x4,
    Sources <- {<<Coin(1, 20000, 66), Coin(2, 60000, 66)>>,
                <<Coin(1, 20000, 66), Coin(2, 20000, 66), Coin(3, 75000, 272)>>},
    Amounts <- {14500, 19600}, Rates <- {1000, 3000}, Fees <- {0, 700},
    OutputWu <- 172, Dusts <- {5000}, Wrap <- 1073741824, MaxSteps <- 2

-----------------------------------------------------------------------------
(* Devices.                                                                *)

\* A PSBT whose values take one, two and three answers, and proofs of two
\* hashes an answer.
LedgerPsbts ==
    {[global |-> << >>,
      inputs |-> <<(<<1, 0>> :> 43) @@ (<<6, 1>> :> 16) @@ (<<7, 0>> :> 300)
                   @@ (<<10, 0>> :> 700)>>,
      outputs |-> << << >> >>]}

Ledger == INSTANCE LedgerClient WITH
    psbt <- x1, intpr <- x2, device <- x3, call <- x4,
    Psbts <- LedgerPsbts, Policy <- [keys |-> <<110, 252, 111>>, template |-> 255],
    Apdu <- 255, MoreRoom <- 253, ProofFirst <- 2, MaxAsks <- 3

\* Two devices, two generated keys, one failed exchange, unplug or crash.
Pairing == INSTANCE BitBoxPairing WITH
    file <- x1, session <- x2, device <- x3, paired <- x4, confirmed <- x5,
    used <- x6,
    Devices <- {"b1", "b2"}, MaxKeys <- 2, MaxSessions <- 3, MaxQueries <- 1,
    MaxFaults <- 1

Key(fg, key, leaves) == [fg |-> fg, key |-> key, leaves |-> leaves, account |-> key % 2]

Input(spks, taps, bips, prevs) ==
    {[spk |-> s, tap |-> t, internal |-> 11, bip32 |-> b, prev |-> p, sigs |-> {}] :
        s \in spks, t \in taps, b \in bips, p \in prevs}

\* The device's fingerprint is 1; inputs carry keys of it, of another device,
\* of both or of neither, in the key path, in leaves and outside taproot.
Inputs == Input({"wpkh", "tr", "wsh"},
                {<<>>, <<Key(2, 11, 1), Key(1, 12, 1)>>, <<Key(1, 12, 2)>>},
                {<<>>, <<Key(2, 21, 0), Key(1, 22, 0)>>}, {0, 1})
SecondInputs == Input({"sh_wpkh", "tr"}, {<<>>, <<Key(1, 11, 0)>>},
                      {<<>>, <<Key(1, 21, 0)>>}, {1})

Sign == INSTANCE BitBoxSign WITH
    psbt <- x1, policy <- x2, tx <- x3, device <- x4, host <- x5, result <- x6,
    Psbts <- [inputs : {<<i>> : i \in Inputs} \cup (Inputs \X SecondInputs),
              outputs : {<<[spk |-> "wpkh", tap |-> <<>>, internal |-> 0,
                            bip32 |-> b]>> : b \in {<<>>, <<Key(1, 23, 0)>>}}],
    Ours <- 1

\* Two callers on one port.
Serial(Kind) == INSTANCE SerialDevices WITH
    lock <- x1, port <- x2, device <- x3, call <- x4, sent <- x5,
    timeouts <- x6,
    Callers <- {"c1", "c2"}, Parts <- 2, MaxRequests <- 4, MaxTimeouts <- 1

-----------------------------------------------------------------------------
\* A scene uses the first n of the shared variables.
Rest(n) ==
    /\ n < 4 => x4 = 0
    /\ n < 5 => x5 = 0
    /\ n < 6 => x6 = 0
    /\ n < 7 => x7 = 0
    /\ n < 8 => x8 = 0
    /\ n < 9 => x9 = 0
    /\ n < 13 => x10 = 0 /\ x11 = 0 /\ x12 = 0 /\ x13 = 0

Init ==
    \/ scene = "header file" /\ HeaderRows!HeaderFileInit /\ Rest(9)
    \/ scene = "config file" /\ Config!ConfigFileInit /\ Rest(7)
    \/ scene = "raw client" /\ Raw!RawInit /\ Rest(3)
    \/ scene = "calls" /\ Blocking!CallsInit /\ Rest(8)
    \/ scene = "headerless" /\ Headerless!HeaderlessInit
    \/ scene = "account" /\ Account!SpAccountInit /\ Rest(8)
    \/ scene = "builder" /\ Builder!Init /\ Rest(4)
    \/ scene = "ledger" /\ Ledger!LedgerInit /\ Rest(4)
    \/ scene = "pairing" /\ Pairing!PairingInit /\ Rest(6)
    \/ scene = "bitbox" /\ Sign!BitBoxInit /\ Rest(6)
    \/ scene = "jade" /\ Serial("jade")!SerialInit /\ Rest(6)
    \/ scene = "specter" /\ Serial("specter")!SerialInit /\ Rest(6)

Keep(n) ==
    /\ scene' = scene
    /\ n < 4 => x4' = x4
    /\ n < 5 => x5' = x5
    /\ n < 6 => x6' = x6
    /\ n < 7 => x7' = x7
    /\ n < 8 => x8' = x8
    /\ n < 9 => x9' = x9
    /\ n < 13 => UNCHANGED <<x10, x11, x12, x13>>

Next ==
    \/ scene = "header file" /\ HeaderRows!HeaderFileNext /\ Keep(9)
    \/ scene = "config file" /\ Config!ConfigFileNext /\ Keep(7)
    \/ scene = "raw client" /\ Raw!RawNext /\ Keep(3)
    \/ scene = "calls" /\ Blocking!CallsNext /\ Keep(8)
    \/ scene = "headerless" /\ Headerless!HeaderlessNext /\ Keep(13)
    \/ scene = "account" /\ Account!SpAccountNext /\ Keep(8)
    \/ scene = "builder" /\ Builder!Next /\ Keep(4)
    \/ scene = "ledger" /\ Ledger!LedgerNext /\ Keep(4)
    \/ scene = "pairing" /\ Pairing!PairingNext /\ Keep(6)
    \/ scene = "bitbox" /\ Sign!BitBoxNext /\ Keep(6)
    \/ scene = "jade" /\ Serial("jade")!SerialNext /\ Keep(6)
    \/ scene = "specter" /\ Serial("specter")!SerialNext /\ Keep(6)

Spec == Init /\ [][Next]_vars

-----------------------------------------------------------------------------
(* What the scenes are checked for; each property is stated in its module.  *)

\* What a start reads is what was stored last: a record of headers.bin at the
\* height it was stored for, although only its position says so, and after a
\* flush all of memory (write_map, load_map); a configuration that was saved in
\* whole, without the seeds when SQLite keeps them (FileConfigStore::save,
\* for_persistence); every sub-account on the server it points at
\* (set_electrum_settings, persist_config).
LoadsWhatWasStored ==
    /\ scene = "header file" =>
         HeaderRows!RecordsKeepTheirHeight /\ HeaderRows!FlushedIsStored
    /\ scene = "config file" => Config!SaveIsAtomic /\ Config!KeepsSeedsOffDisk
    /\ scene = "account" => Account!ReopensOnItsServer

\* Lines cross the socket whole: reads return the peer's one by one whatever
\* chunks they arrive in and whichever clone reads (recv_str, try_recv_str), and
\* clones that send after polls never run their requests together (send_str).
LinesArriveWhole ==
    scene = "raw client" => Raw!LinesArriveWhole /\ Raw!RequestsAreWhole

\* Trusting any certificate is what was chosen, for that server and that
\* connection: the policy a client reports is its handshake's (try_connect), and
\* it is not carried over to another server (set_electrum_settings).
PolicyWasChosen ==
    /\ scene = "raw client" => Raw!PolicyIsTheHandshakes
    /\ scene = "account" => Account!InsecureWasChosen

\* Whoever asks takes its own answer, whole: a blocking get although an earlier
\* call left one in the connection (get_tx, get_coins_at); a broadcast its one
\* report (broadcast); an honest Ledger what it asked for, to the end
\* (ClientCommandInterpreter::execute, get_more_elements); each input of a PSBT
\* the signature made for it by a BitBox (btc_sign); a caller of a Jade or a
\* Specter the device's, while no request was given up (exchange, read_stream).
AnswersAreOwn ==
    /\ scene = "calls" => Blocking!GetsOwnAnswer
    /\ scene = "account" => Account!BroadcastsAreReported
    /\ scene = "ledger" => Ledger!HonestDeviceIsServed /\ Ledger!WholeAnswer
    /\ scene = "bitbox" => Sign!EveryInputIsSigned
    /\ scene = "jade" => Serial("jade")!AnswerIsOwn
    /\ scene = "specter" => Serial("specter")!AnswerIsOwn

\* Without a header scanner, once every answer is in, what the server lists is
\* held at the height it reports (confirm_reported).
ReportedIsConfirmed == scene = "headerless" => Headerless!ReportedIsConfirmed

\* A sub-account is served whatever is added, changed or stopped beside it: a
\* reconciler pass misses nothing its scanner recorded (open, add_sub_account),
\* the signer of its mnemonic keeps its descriptor (register_sub_signer) or it
\* has one to fall back to (push_descriptor_maybe), and a header store of the
\* account's own follows the account's server (follow_header_target).
SubAccountsAreServed ==
    /\ scene = "account" =>
         /\ Account!NothingRecordedIsMissed
         /\ Account!EverySubIsSignedFor
         /\ Account!HeadersFollowTheAccount
    /\ scene = "config file" => Config!SubsAreSignable

\* A transaction spends its inputs on its outputs and its fee, pays its rate
\* and gives away no more than dust and a change output (process_fees), whatever
\* calls were made on its builder before (pay, new_template).
TransactionBalances ==
    scene = "builder" => Builder!TransactionBalances /\ Builder!PayForgetsHistory

\* A BitBox is paired only after the user confirmed its code, whatever other
\* devices' threads store meanwhile (wait_confirm).
PairedIsConfirmed == scene = "pairing" => Pairing!PairedIsConfirmed

\* While no exchange of a session fails, the BitBox runs each request once and
\* answers it (query_proto).
QuietLinkServes == scene = "pairing" => Pairing!QuietLinkServes
=============================================================================
