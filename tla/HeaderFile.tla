----------------------------- MODULE HeaderFile -----------------------------
(***************************************************************************)
(* The header cache on disk (persist/src/backend/headers.rs) under the     *)
(* HeaderStore's RamStore: a file with the height of its first record and  *)
(* one fixed-size record per height.  One record more is written in place; *)
(* any other change rewrites the file where it is, by a truncation and     *)
(* writes that can fail or be cut off.                                     *)
(*                                                                         *)
(* The grain is one system call on the file.  Every mutation of the        *)
(* HeaderStore flushes before it returns, so the next one starts when the  *)
(* flush is over.                                                          *)
(***************************************************************************)
EXTENDS Integers, FiniteSets, Sequences, TLC, Functions, FiniteSetsExt,
        SequencesExt

CONSTANTS Heights,      \* an interval
          Headers,
          MaxChanges, MaxFaults

VARIABLES rows, dirty, removed,     \* the RamStore
          file,
          writing,                  \* the body write_map is writing, or Idle
          put,                      \* the <<height, header>> ever stored
          failed,                   \* a write failed since the file was loaded
          changes, faults

ram == <<rows, dirty, removed>>
headerFileVars == <<ram, file, writing, put, failed, changes, faults>>

Empty == [h \in {} |-> {}]
Top(m) == Max(DOMAIN m)
Bottom(m) == Min(DOMAIN m)

\* A file of whole records from `min` up, and perhaps part of one more; a
\* file shorter than its prefix has no `min`.
NoFile == [kind |-> "none"]
Truncated == [kind |-> "short"]
Cache(min, body, tail) ==
    [kind |-> "cache", min |-> min, body |-> body, tail |-> tail]
Idle == [step |-> "idle"]

\* What load_map reads; it removes a file it cannot read.
Loads(f) == f.kind = "cache" /\ ~f.tail
LoadMap(f) ==
    IF Loads(f)
    THEN [h \in f.min..(f.min + Len(f.body) - 1) |-> f.body[h - f.min + 1]]
    ELSE Empty
AfterLoad(f) == IF Loads(f) THEN f ELSE NoFile

HeaderFileInit ==
    /\ rows = Empty
    /\ dirty = {}
    /\ removed = {}
    /\ file = NoFile
    /\ writing = Idle
    /\ put = {}
    /\ failed = FALSE
    /\ changes = 0
    /\ faults = 0

-----------------------------------------------------------------------------

\* A mutation of the HeaderStore: it removes `gone`, inserts `new`, and
\* flushes unless a later header of the same call was refused.
Change(new, gone, whole) ==
    /\ writing = Idle
    /\ changes < MaxChanges
    /\ changes' = changes + 1
    /\ rows' = new @@ Restrict(rows, DOMAIN rows \ gone)
    /\ dirty' = (dirty \ gone) \cup DOMAIN new
    /\ removed' = (removed \cup gone) \ DOMAIN new
    /\ put' = put \cup {<<h, new[h]>> : h \in DOMAIN new}
    /\ writing' = IF whole THEN [step |-> "flush"] ELSE Idle
    /\ UNCHANGED <<file, failed, faults>>

\* append and append_batch: from the anchor of an empty store or the header
\* above the highest.
AppendHeaders ==
    \E lo \in Heights, v \in Headers, whole \in BOOLEAN :
        \E hi \in {h \in Heights : h >= lo} :
            /\ rows # Empty => lo = Top(rows) + 1
            /\ Change([h \in lo..hi |-> v], {}, whole)

\* replace_branch: the headers above the fork go, the branch comes.
ReplaceBranch ==
    \E fork \in DOMAIN rows, v \in Headers, whole \in BOOLEAN :
        \E top \in {h \in Heights : h > fork} :
            Change([h \in (fork + 1)..top |-> v],
                   {h \in DOMAIN rows : h > fork}, whole)

\* prepend: older headers below the lowest.
Prepend ==
    /\ rows # Empty
    /\ \E low \in Heights, v \in Headers :
        /\ low < Bottom(rows)
        /\ Change([h \in low..(Bottom(rows) - 1) |-> v], {}, TRUE)

\* clear_inner
Clear == rows # Empty /\ Change(Empty, DOMAIN rows, TRUE)

-----------------------------------------------------------------------------

ContiguousAlways(m) == TRUE

Contiguous(m) == m = Empty \/ Cardinality(DOMAIN m) = Top(m) - Bottom(m) + 1

\* write_map, up to the fs::write: rows with a gap are an error.
WriteMap(m) ==
    /\ file' = AfterLoad(file)
    /\ writing' = IF Contiguous(m) THEN [step |-> "create", map |-> m] ELSE Idle

\* put_row_positional
InPlace(h) ==
    LET disk == LoadMap(file) IN
    /\ dirty = {h}
    /\ removed = {}
    /\ disk # Empty
    /\ h >= Bottom(disk)
    /\ h <= Top(disk) + 1

Flushed ==
    /\ dirty' = {}
    /\ removed' = {}
    /\ rows' = rows

\* flush: one insert and nothing else goes in place; anything else, the one
\* insert into an empty cache or away from its rows included, is merged into
\* the rows of the file and written anew.
FlushInPlace ==
    /\ writing = [step |-> "flush"]
    /\ \E h \in dirty :
        /\ InPlace(h)
        /\ file' = [file EXCEPT !.body =
                        LET at == h - file.min + 1 IN
                        IF at > Len(@) THEN @ \o <<rows[h]>>
                        ELSE [@ EXCEPT ![at] = rows[h]]]
    /\ Flushed
    /\ writing' = Idle
    /\ UNCHANGED <<put, failed, changes, faults>>

FlushMerged ==
    /\ writing = [step |-> "flush"]
    /\ \A h \in dirty : ~InPlace(h)
    /\ LET disk == LoadMap(file) IN
        WriteMap(Restrict(rows, dirty)
                 @@ Restrict(disk, DOMAIN disk \ (removed \cup dirty)))
    /\ UNCHANGED <<ram, put, failed, changes, faults>>

Body(m) ==
    LET heights == SetToSortSeq(DOMAIN m, <) IN
    [i \in DOMAIN heights |-> m[heights[i]]]
Lowest(m) == IF m = Empty THEN 0 ELSE Bottom(m)

\* fs::write: the truncation, a write of a part, and the write of the rest.
Create ==
    /\ writing.step = "create"
    /\ file' = Truncated
    /\ writing' = [writing EXCEPT !.step = "write"]
    /\ UNCHANGED <<ram, put, failed, changes, faults>>

WritePart ==
    /\ writing.step = "write"
    /\ writing.map # Empty
    /\ \E n \in 0..(Cardinality(DOMAIN writing.map) - 1), tail \in BOOLEAN :
        file' = Cache(Lowest(writing.map), SubSeq(Body(writing.map), 1, n), tail)
    /\ writing' = [writing EXCEPT !.step = "rest"]
    /\ UNCHANGED <<ram, put, failed, changes, faults>>

WriteRest ==
    /\ writing.step \in {"write", "rest"}
    /\ file' = Cache(Lowest(writing.map), Body(writing.map), FALSE)
    /\ Flushed
    /\ writing' = Idle
    /\ UNCHANGED <<put, failed, changes, faults>>

\* A write fails: flush returns the error and keeps its marks.
WriteFails ==
    /\ writing.step \in {"create", "write", "rest"}
    /\ faults < MaxFaults
    /\ faults' = faults + 1
    /\ failed' = TRUE
    /\ writing' = Idle
    /\ UNCHANGED <<ram, file, put, changes>>

\* The process ends, and the next one loads what is there.
Restart ==
    /\ faults < MaxFaults
    /\ faults' = faults + 1
    /\ rows' = LoadMap(file)
    /\ file' = AfterLoad(file)
    /\ dirty' = {}
    /\ removed' = {}
    /\ failed' = FALSE
    /\ writing' = Idle
    /\ UNCHANGED <<put, changes>>

HeaderFileNext ==
    \/ AppendHeaders \/ ReplaceBranch \/ Prepend \/ Clear
    \/ FlushInPlace \/ FlushMerged
    \/ Create \/ WritePart \/ WriteRest
    \/ WriteFails \/ Restart

HeaderFileSpec == HeaderFileInit /\ [][HeaderFileNext]_headerFileVars

-----------------------------------------------------------------------------

\* Whatever was cut off or failed, a record of the file is read back at the
\* height it was stored for: the heights are not in the file, only the
\* positions of the records are.
RecordsKeepTheirHeight ==
    \A h \in DOMAIN LoadMap(file) : <<h, LoadMap(file)[h]>> \in put

InStep ==
    (writing = Idle /\ dirty = {} /\ removed = {}) => LoadMap(file) = rows

\* While no write fails, a flush that returned has made the file equal to the
\* headers in memory, after processes that ended in the middle of a write too.
FlushedIsStored == ~failed => InStep
=============================================================================
