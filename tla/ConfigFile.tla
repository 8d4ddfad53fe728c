----------------------------- MODULE ConfigFile -----------------------------
(***************************************************************************)
(* The configuration of a silent-payment account                           *)
(* (sp/src/account/config.rs) and the FileConfigStore it is saved through  *)
(* (persist/src/config_store.rs).  The account's setters take it           *)
(* exclusively, so one save runs at a time; the process can end between    *)
(* any two system calls of it, and a call can fail.                        *)
(***************************************************************************)
EXTENDS Naturals, Sequences

CONSTANTS Seeds,        \* the mnemonics
          None,
          MaxEdits, MaxFaults

VARIABLES config,       \* the running account's, or None
          file, tmp,    \* config.json and config.json.tmp
          saving,       \* the step of the save that runs
          saved,        \* the configurations a load may answer
          edits, faults

configFileVars == <<config, file, tmp, saving, saved, edits, faults>>

\* A file that was created and not written.
Torn == [kind |-> None, persistence |-> None, mnemonic |-> None,
         keys |-> None, subs |-> << >>, url |-> None]

ConfigFileInit ==
    /\ config = None
    /\ file = None
    /\ tmp = None
    /\ saving = "no"
    /\ saved = {None}
    /\ edits = 0
    /\ faults = 0

Edit ==
    /\ saving = "no"
    /\ edits < MaxEdits
    /\ edits' = edits + 1

-----------------------------------------------------------------------------

\* Config::new and Config::from_keys, with_persistence.
New ==
    /\ config = None
    /\ file = None
    /\ Edit
    /\ \E p \in {"json", "sqlite"}, m \in Seeds \cup {None} :
        config' = [kind |-> "config", persistence |-> p, mnemonic |-> m,
                   keys |-> IF m = None THEN "keys" ELSE None,
                   subs |-> << >>, url |-> None]
    /\ UNCHANGED <<file, tmp, saving, saved, faults>>

\* push_descriptor_maybe: a descriptor is there once.
PushDescriptorMaybe(c, m, script, own) ==
    IF \E i \in DOMAIN c.subs : c.subs[i].descriptor = <<m, script>>
    THEN c
    ELSE [c EXCEPT !.subs = Append(@, [descriptor |-> <<m, script>>,
                                       mnemonic |-> own])]

\* add_default_*_sub_account, which keeps no seed of its own, and
\* add_*_sub_account_from_mnemonic.
AddSubAccount ==
    /\ config # None
    /\ Edit
    /\ \E script \in {"segwit", "taproot"} :
        \/ /\ config.mnemonic # None
           /\ config' = PushDescriptorMaybe(config, config.mnemonic, script, None)
        \/ \E m \in Seeds : config' = PushDescriptorMaybe(config, m, script, m)
    /\ UNCHANGED <<file, tmp, saving, saved, faults>>

\* The part of a configuration that lands on disk.
ForPersistence(c) ==
    IF c.persistence = "sqlite"
    THEN [c EXCEPT !.mnemonic = None, !.keys = None,
                   !.subs = [i \in DOMAIN @ |-> [@[i] EXCEPT !.mnemonic = None]]]
    ELSE c

\* A setter of the account, and the save it ends with: the temporary file is
\* created, ...
SetUrl ==
    /\ config # None
    /\ Edit
    /\ \E url \in {"u1", "u2"} : config' = [config EXCEPT !.url = url]
    /\ tmp' = Torn
    /\ saving' = "write"
    /\ UNCHANGED <<file, saved, faults>>

\* ... written and synced, ...
Write ==
    /\ saving = "write"
    /\ tmp' = ForPersistence(config)
    /\ saving' = "rename"
    /\ UNCHANGED <<config, file, saved, edits, faults>>

\* ... and renamed over the old one.
Rename ==
    /\ saving = "rename"
    /\ file' = tmp
    /\ tmp' = None
    /\ saving' = "no"
    /\ saved' = {ForPersistence(config)}
    /\ UNCHANGED <<config, edits, faults>>

\* A step of the save fails: the account logs it and goes on.
SaveFails ==
    /\ saving # "no"
    /\ faults < MaxFaults
    /\ faults' = faults + 1
    /\ saving' = "no"
    /\ UNCHANGED <<config, file, tmp, saved, edits>>

\* The process ends; the next one loads the file, and the consumer supplies
\* the signer material that it does not hold.
Reopen ==
    /\ faults < MaxFaults
    /\ faults' = faults + 1
    /\ file # Torn
    /\ saving' = "no"
    /\ config' =
         IF file = None \/ config = None THEN file
         ELSE [file EXCEPT !.mnemonic = config.mnemonic, !.keys = config.keys,
                           !.subs = [i \in DOMAIN @ |-> config.subs[i]]]
    /\ UNCHANGED <<file, tmp, saved, edits>>

ConfigFileNext ==
    New \/ AddSubAccount \/ SetUrl \/ Write \/ Rename \/ SaveFails \/ Reopen

ConfigFileSpec == ConfigFileInit /\ [][ConfigFileNext]_configFileVars

-----------------------------------------------------------------------------

\* Wherever a save ends or fails, a load answers the last configuration that
\* was saved in whole, never a part of one.
SaveIsAtomic == file \in saved

\* Under SQLite no file of the configuration, a temporary one that a dead
\* process left included, holds signer material.
KeepsSeedsOffDisk ==
    \A f \in {file, tmp} :
        (f # None /\ f.persistence = "sqlite")
            => /\ f.mnemonic = None /\ f.keys = None
               /\ \A i \in DOMAIN f.subs : f.subs[i].mnemonic = None

\* A sub-account that keeps no seed of its own is one of the account's seed:
\* the signer it falls back to is the one its descriptor was made from.
SubsAreSignable ==
    config # None =>
        \A i \in DOMAIN config.subs :
            LET sub == config.subs[i] IN
            sub.descriptor[1] = IF sub.mnemonic = None THEN config.mnemonic
                                ELSE sub.mnemonic
=============================================================================
