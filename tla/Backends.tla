------------------------------ MODULE Backends ------------------------------
(***************************************************************************)
(* The persistence backends under the stores (persist/src/backend): a      *)
(* directory with a version file and one file of rows per store (JSON), or *)
(* one database (SQLite).  Every store belongs to a RamStore with a mutex  *)
(* of its own; they share one backend and flush from different threads.    *)
(* Processes of several binary versions open the directory one at a time   *)
(* and may end at any step.                                                *)
(*                                                                         *)
(* The grain is one file-system operation that another thread or a crash   *)
(* can see: the create, the write and the rename of the version file, and  *)
(* the rename of a store file (its temporary file is private to the store  *)
(* that writes it).  A SQLite transaction is one step.                     *)
(***************************************************************************)
EXTENDS Naturals

CONSTANTS Keys, Vals, Absent,
          Stores, Watched,      \* the stores, and an arbitrary one of them
          Versions,             \* the DB_VERSION of each binary
          Media,                \* the backends: "json", "sqlite"
          Torn                  \* a version file created and not written yet

ASSUME AbsentAssumption == Absent \notin Vals
ASSUME WatchedAssumption == Watched \in Stores
ASSUME VersionsAssumption == Versions \subseteq Nat \ {0}
ASSUME TornAssumption == Torn \notin Nat

VARIABLES
    medium,
    owner,              \* DB_VERSION of the process with the lock, 0: nobody
    stamped,            \* the flag `stamped` of its backend
    cache, dirty, removed,      \* the RamStores of its stores
    pc, merged,         \* where a flush of each store is, and what it writes
    handle,             \* the file the stamp of each store has open
    rows, format,       \* the rows on disk, and the version that wrote them
    vfile, vtmp         \* the version file and its temporary file

ram == <<cache, dirty, removed>>
stamping == <<stamped, handle, vfile, vtmp>>
vars == <<medium, owner, ram, pc, merged, rows, format, stamping>>

None == 0           \* no file; also the version of a fresh directory

Values == Vals \cup {Absent}
Maps == [Keys -> Values]

Init ==
    /\ medium \in Media
    /\ owner = 0
    /\ stamped = FALSE
    /\ rows = [s \in Stores |-> [k \in Keys |-> Absent]]
    /\ cache = rows
    /\ dirty = [s \in Stores |-> {}]
    /\ removed = [s \in Stores |-> {}]
    /\ pc = [s \in Stores |-> "idle"]
    /\ merged = rows
    /\ handle = [s \in Stores |-> "none"]
    /\ format = [s \in Stores |-> 0]
    /\ vfile = None
    /\ vtmp = None

-----------------------------------------------------------------------------

\* check_version: a version that does not parse, or one newer than the binary's,
\* is refused.
CheckVersion(v) == vfile # Torn /\ vfile <= v

\* open: the directory's lock, then check_version; the RamStores load their
\* rows (Crash has put them there).
Open(v) ==
    /\ owner = 0
    /\ CheckVersion(v)
    /\ owner' = v
    /\ stamped' = (vfile = v)
    /\ UNCHANGED <<medium, ram, pc, merged, rows, format, handle, vfile, vtmp>>

\* The process ends, in the middle of any call: the memory and the lock go,
\* the files stay.
Crash ==
    /\ owner # 0
    /\ owner' = 0
    /\ stamped' = FALSE
    /\ cache' = rows
    /\ dirty' = [s \in Stores |-> {}]
    /\ removed' = [s \in Stores |-> {}]
    /\ pc' = [s \in Stores |-> "idle"]
    /\ merged' = rows
    /\ handle' = [s \in Stores |-> "none"]
    /\ UNCHANGED <<medium, rows, format, vfile, vtmp>>

\* The owner of a RamStore changes it: insert, modify and remove.
Put(s, k, v) ==
    /\ owner # 0
    /\ pc[s] = "idle"
    /\ cache' = [cache EXCEPT ![s][k] = v]
    /\ dirty' = [dirty EXCEPT ![s] = @ \cup {k}]
    /\ removed' = [removed EXCEPT ![s] = @ \ {k}]
    /\ UNCHANGED <<medium, owner, pc, merged, rows, format, stamping>>

RemoveUnflushed(s, k) ==
    /\ owner # 0
    /\ pc[s] = "idle"
    /\ cache[s][k] # Absent
    /\ cache' = [cache EXCEPT ![s][k] = Absent]
    /\ dirty' = [dirty EXCEPT ![s] = @ \ {k}]
    /\ removed' = [removed EXCEPT ![s] = IF k \in dirty[s] THEN @ ELSE @ \cup {k}]
    /\ UNCHANGED <<medium, owner, pc, merged, rows, format, stamping>>

Remove(s, k) ==
    /\ owner # 0
    /\ pc[s] = "idle"
    /\ cache[s][k] # Absent
    /\ cache' = [cache EXCEPT ![s][k] = Absent]
    /\ dirty' = [dirty EXCEPT ![s] = @ \ {k}]
    /\ removed' = [removed EXCEPT ![s] = @ \cup {k}]
    /\ UNCHANGED <<medium, owner, pc, merged, rows, format, stamping>>

-----------------------------------------------------------------------------

\* What flush_batch makes of the rows: the removed keys go, then the dirty
\* ones are written over.
MergedRows(s) ==
    [k \in Keys |-> IF k \in dirty[s] /\ cache[s][k] # Absent
                    THEN cache[s][k]
                    ELSE IF k \in removed[s] THEN Absent ELSE rows[s][k]]

MustFlush(s) ==
    /\ owner # 0
    /\ pc[s] = "idle"
    /\ dirty[s] # {} \/ removed[s] # {}

MarksCleared(s) ==
    /\ dirty' = [dirty EXCEPT ![s] = {}]
    /\ removed' = [removed EXCEPT ![s] = {}]
    /\ cache' = cache

\* JsonBackend::flush_batch reads the store and merges, ...
Merge(s) ==
    /\ medium = "json"
    /\ MustFlush(s)
    /\ merged' = [merged EXCEPT ![s] = MergedRows(s)]
    /\ pc' = [pc EXCEPT ![s] = "stamp"]
    /\ UNCHANGED <<medium, owner, ram, rows, format, stamping>>

AlreadyStampedByAny(s) ==
    /\ pc[s] = "stamp"
    /\ stamped \/ vfile # None
    /\ pc' = [pc EXCEPT ![s] = "write"]
    /\ UNCHANGED <<medium, owner, ram, merged, rows, format, stamping>>

\* ... stamps the version if this backend has not, ...
AlreadyStamped(s) ==
    /\ pc[s] = "stamp"
    /\ stamped
    /\ pc' = [pc EXCEPT ![s] = "write"]
    /\ UNCHANGED <<medium, owner, ram, merged, rows, format, stamping>>

StampCreate(s) ==
    /\ pc[s] = "stamp"
    /\ ~stamped
    /\ vtmp' = Torn
    /\ handle' = [handle EXCEPT ![s] = "tmp"]
    /\ pc' = [pc EXCEPT ![s] = "fill"]
    /\ UNCHANGED <<medium, owner, ram, merged, rows, format, stamped, vfile>>

StampFill(s) ==
    /\ pc[s] = "fill"
    /\ vtmp' = IF handle[s] = "tmp" THEN owner ELSE vtmp
    /\ vfile' = IF handle[s] = "file" THEN owner ELSE vfile
    /\ handle' = [handle EXCEPT ![s] = "none"]
    /\ pc' = [pc EXCEPT ![s] = "rename"]
    /\ UNCHANGED <<medium, owner, ram, merged, rows, format, stamped>>

\* (the file another thread still has open is now the version file)
StampRename(s) ==
    /\ pc[s] = "rename"
    /\ vtmp # None
    /\ vfile' = vtmp
    /\ vtmp' = None
    /\ handle' = [t \in Stores |-> IF handle[t] = "tmp" THEN "file"
                                   ELSE handle[t]]
    /\ pc' = [pc EXCEPT ![s] = "flag"]
    /\ UNCHANGED <<medium, owner, ram, merged, rows, format, stamped>>

StampFlag(s) ==
    /\ pc[s] = "flag"
    /\ stamped' = TRUE
    /\ pc' = [pc EXCEPT ![s] = "write"]
    /\ UNCHANGED <<medium, owner, ram, merged, rows, format, handle, vfile, vtmp>>

\* ... and replaces the file of the store.
Replace(s) ==
    /\ pc[s] = "write"
    /\ rows' = [rows EXCEPT ![s] = merged[s]]
    /\ format' = [format EXCEPT ![s] = owner]
    /\ MarksCleared(s)
    /\ pc' = [pc EXCEPT ![s] = "idle"]
    /\ UNCHANGED <<medium, owner, merged, stamping>>

\* A step of it fails: an I/O error, or the temporary file was renamed by
\* another thread.  The RamStore keeps its marks.
FlushFails(s) ==
    /\ pc[s] # "idle"
    /\ pc' = [pc EXCEPT ![s] = "idle"]
    /\ handle' = [handle EXCEPT ![s] = "none"]
    /\ merged' = [merged EXCEPT ![s] = rows[s]]
    /\ UNCHANGED <<medium, owner, ram, rows, format, stamped, vfile, vtmp>>

\* SqliteBackend::flush_batch: the stamp, the deletes and the inserts in one
\* transaction.
Transact(s) ==
    /\ medium = "sqlite"
    /\ MustFlush(s)
    /\ rows' = [rows EXCEPT ![s] = MergedRows(s)]
    /\ format' = [format EXCEPT ![s] = owner]
    /\ vfile' = owner
    /\ stamped' = TRUE
    /\ MarksCleared(s)
    /\ merged' = [merged EXCEPT ![s] = MergedRows(s)]
    /\ UNCHANGED <<medium, owner, pc, handle, vtmp>>

FlushStep(s) ==
    \/ Merge(s)
    \/ AlreadyStamped(s) \/ StampCreate(s) \/ StampFill(s)
    \/ StampRename(s) \/ StampFlag(s)
    \/ Replace(s)
    \/ FlushFails(s)
    \/ Transact(s)

Next ==
    \/ \E v \in Versions : Open(v)
    \/ Crash
    \/ \E s \in Stores, k \in Keys :
        Remove(s, k) \/ \E v \in Vals : Put(s, k, v)
    \/ \E s \in Stores : FlushStep(s)

Spec == Init /\ [][Next]_vars

-----------------------------------------------------------------------------

VersionValues == Versions \cup {None, Torn}

\* The memory, the flushes and the files have their types.
TypeOK ==
    /\ medium \in Media
    /\ owner \in Versions \cup {0}
    /\ stamped \in BOOLEAN
    /\ cache \in [Stores -> Maps]
    /\ dirty \in [Stores -> SUBSET Keys]
    /\ removed \in [Stores -> SUBSET Keys]
    /\ pc \in [Stores -> {"idle", "stamp", "fill", "rename", "flag", "write"}]
    /\ merged \in [Stores -> Maps]
    /\ handle \in [Stores -> {"none", "tmp", "file"}]
    /\ rows \in [Stores -> Maps]
    /\ format \in [Stores -> Versions \cup {0}]
    /\ vfile \in VersionValues
    /\ vtmp \in VersionValues

\* A binary never opens rows that a newer one wrote: whatever the two left
\* behind when they ended, the version file refuses them ("data without
\* version" does not happen).
NoNewerData ==
    owner # 0 => \A s \in Stores : format[s] <= owner

Ram == INSTANCE RamStore
       WITH cache <- cache[Watched], dirty <- dirty[Watched],
            removed <- removed[Watched], rows <- rows[Watched]

\* Every store flushes as if in one step, whatever the other stores' threads
\* do at the same time and wherever a flush fails or the process ends.
ImplementsRamStore == Ram!Spec

\* So every store is a durable map: a flush that returns Ok made the rows
\* equal to the cache, one that did not changed no row, and opening again
\* gives the last rows flushed.
ImplementsDurableMap == Ram!ImplementsDurableMap
=============================================================================
