------------------------------ MODULE RamStore ------------------------------
(***************************************************************************)
(* RamStore (persist/src/storage/ram.rs): a map cached in memory, the sets *)
(* of keys changed and removed since the last flush, and the rows of its   *)
(* store in a backend.  A key that is not in a map has the value Absent.   *)
(* A flush is one step here: the backends (Backends.tla) make it one.      *)
(***************************************************************************)
CONSTANTS Keys, Vals, Absent

VARIABLES cache, dirty, removed, rows

rvars == <<cache, dirty, removed, rows>>

Values == Vals \cup {Absent}

Init ==
    /\ rows \in [Keys -> Values]
    /\ cache = rows
    /\ dirty = {}
    /\ removed = {}

Insert(k, v) ==
    /\ removed' = removed \ {k}
    /\ dirty' = dirty \cup {k}
    /\ cache' = [cache EXCEPT ![k] = v]
    /\ rows' = rows

Remove(k) ==
    /\ dirty' = dirty \ {k}
    /\ removed' = IF cache[k] # Absent THEN removed \cup {k} ELSE removed
    /\ cache' = [cache EXCEPT ![k] = Absent]
    /\ rows' = rows

\* modify and get_mut_ref
Modify(k, v) ==
    /\ cache[k] # Absent
    /\ removed' = removed \ {k}
    /\ dirty' = dirty \cup {k}
    /\ cache' = [cache EXCEPT ![k] = v]
    /\ rows' = rows

\* The rows after flush_batch: removed first, then the dirty keys.
Flushed ==
    [k \in Keys |-> IF k \in dirty /\ cache[k] # Absent THEN cache[k]
                    ELSE IF k \in removed THEN Absent ELSE rows[k]]

Flush ==
    /\ dirty # {} \/ removed # {}
    /\ rows' = Flushed
    /\ dirty' = {}
    /\ removed' = {}
    /\ cache' = cache

\* The owner ends, and opens the store again.
Open ==
    /\ cache' = rows
    /\ dirty' = {}
    /\ removed' = {}
    /\ rows' = rows

Next ==
    \/ \E k \in Keys, v \in Vals : Insert(k, v) \/ Modify(k, v)
    \/ \E k \in Keys : Remove(k)
    \/ Flush
    \/ Open

Spec == Init /\ [][Next]_rvars

-----------------------------------------------------------------------------

\* The cache, the marks and the rows have their types.
RamTypeOK ==
    /\ cache \in [Keys -> Values]
    /\ rows \in [Keys -> Values]
    /\ dirty \subseteq Keys
    /\ removed \subseteq Keys

\* What the marks mean: a dirty key is in the cache, a removed one is not,
\* and a key with no mark has the same value in the cache and in the rows.
MarksAreRight ==
    /\ \A k \in dirty : cache[k] # Absent
    /\ \A k \in removed : cache[k] = Absent
    /\ \A k \in Keys \ (dirty \cup removed) : cache[k] = rows[k]

Durable == INSTANCE DurableMap WITH mem <- cache, durable <- rows

\* A flush of the marked keys alone makes the rows equal to the whole cache:
\* the write-back store is a durable map.
ImplementsDurableMap == Durable!DurableSpec
=============================================================================
