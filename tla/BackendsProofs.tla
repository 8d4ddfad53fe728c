--------------------------- MODULE BackendsProofs ---------------------------
(***************************************************************************)
(* What the backends keep, for any number of stores, keys, values and      *)
(* binary versions.                                                        *)
(***************************************************************************)
EXTENDS Backends, TLAPS

\* A flush on its way writes what the marks of its store ask for: neither
\* the RamStore nor the rows of the store change until it ends.
FlushIsCurrent ==
    \A s \in Stores : pc[s] # "idle" =>
        /\ owner # 0
        /\ merged[s] = MergedRows(s)
        /\ dirty[s] # {} \/ removed[s] # {}

\* Where the stamp can be when a store's rows are about to be written.
StampedFirst ==
    /\ \A s \in Stores : vfile # Torn => format[s] <= vfile
    /\ owner # 0 => \A s \in Stores : format[s] <= owner
    /\ stamped => vfile \in {owner, Torn}
    /\ \A s \in Stores :
        /\ pc[s] \in {"flag", "write"} => vfile \in {owner, Torn}
        /\ pc[s] \in {"fill", "rename"} => vtmp \in {None, Torn, owner}

\* The types of the parts this is about.
Typed ==
    /\ owner \in Versions \cup {0}
    /\ stamped \in BOOLEAN
    /\ cache \in [Stores -> Maps]
    /\ rows \in [Stores -> Maps]
    /\ merged \in [Stores -> Maps]
    /\ dirty \in [Stores -> SUBSET Keys]
    /\ removed \in [Stores -> SUBSET Keys]
    /\ pc \in [Stores -> {"idle", "stamp", "fill", "rename", "flag", "write"}]
    /\ handle \in [Stores -> {"none", "tmp", "file"}]
    /\ format \in [Stores -> Versions \cup {0}]
    /\ vfile \in VersionValues
    /\ vtmp \in VersionValues

\* A version is a number, and so is the version of nobody.
LEMMA VersionsAreNaturals == \A v \in Versions \cup {0} : v \in Nat
<1> SUFFICES ASSUME NEW v \in Versions \cup {0} PROVE v \in Nat
  OBVIOUS
<1>1. CASE v = 0
  BY <1>1
<1>2. CASE v \in Versions
  BY <1>2, VersionsAssumption
<1> QED
  BY <1>1, <1>2

\* The merge of well-typed parts is a map.
LEMMA MergedRowsType ==
    ASSUME Typed, NEW s \in Stores
    PROVE  MergedRows(s) \in Maps
BY DEF Typed, MergedRows, Maps, Values

\* The initial state is typed.
LEMMA TypedInit == Init => Typed
<1> SUFFICES ASSUME Init PROVE Typed
  OBVIOUS
<1>1. rows \in [Stores -> Maps]
  BY DEF Init, Maps, Values
<1>2. cache \in [Stores -> Maps] /\ merged \in [Stores -> Maps]
  BY <1>1 DEF Init
<1> QED
  BY <1>1, <1>2, Zenon DEF Init, Typed, VersionValues, None

\* Every step keeps the types.
LEMMA TypedNext == Typed /\ [Next]_vars => Typed'
<1> SUFFICES ASSUME Typed, [Next]_vars PROVE Typed'
  OBVIOUS
<1> USE DEF VersionValues
<1>1. CASE UNCHANGED vars
  BY <1>1 DEF vars, ram, stamping, Typed
<1>2. ASSUME NEW v \in Versions, Open(v) PROVE Typed'
  BY <1>2 DEF Open, CheckVersion, ram, Typed
<1>3. CASE Crash
  BY <1>3, Zenon DEF Crash, Typed
<1>4. ASSUME NEW s \in Stores, NEW k \in Keys, NEW v \in Vals, Put(s, k, v)
      PROVE  Typed'
  <2>1. cache' \in [Stores -> Maps]
    BY <1>4 DEF Put, Typed, Maps, Values
  <2>2. dirty' \in [Stores -> SUBSET Keys] /\ removed' \in [Stores -> SUBSET Keys]
    BY <1>4 DEF Put, Typed
  <2> QED
    BY <1>4, <2>1, <2>2 DEF Put, stamping, Typed
<1>5. ASSUME NEW s \in Stores, NEW k \in Keys, Remove(s, k) PROVE Typed'
  <2>1. cache' \in [Stores -> Maps]
    BY <1>5 DEF Remove, Typed, Maps, Values
  <2>2. dirty' \in [Stores -> SUBSET Keys] /\ removed' \in [Stores -> SUBSET Keys]
    BY <1>5 DEF Remove, Typed
  <2> QED
    BY <1>5, <2>1, <2>2 DEF Remove, stamping, Typed
<1>6. ASSUME NEW s \in Stores, FlushStep(s) PROVE Typed'
  <2>0. MergedRows(s) \in Maps
    BY MergedRowsType
  <2>1. CASE Merge(s)
    BY <2>0, <2>1 DEF Merge, ram, stamping, Typed
  <2>2. CASE AlreadyStamped(s)
    BY <2>2 DEF AlreadyStamped, ram, stamping, Typed
  <2>3. CASE StampCreate(s)
    BY <2>3 DEF StampCreate, ram, Typed
  <2>4. CASE StampFill(s)
    BY <2>4 DEF StampFill, ram, Typed, None
  <2>5. CASE StampRename(s)
    BY <2>5 DEF StampRename, ram, Typed
  <2>6. CASE StampFlag(s)
    BY <2>6 DEF StampFlag, ram, Typed
  <2>7. CASE Replace(s)
    BY <2>7 DEF Replace, MarksCleared, stamping, Typed
  <2>8. CASE FlushFails(s)
    BY <2>8 DEF FlushFails, ram, Typed
  <2>9. CASE Transact(s)
    BY <2>0, <2>9 DEF Transact, MarksCleared, MustFlush, Typed, None
  <2> QED
    BY <1>6, <2>1, <2>2, <2>3, <2>4, <2>5, <2>6, <2>7, <2>8, <2>9 DEF FlushStep
<1> QED
  BY <1>1, <1>2, <1>3, <1>4, <1>5, <1>6 DEF Next

-----------------------------------------------------------------------------

\* No flush is on its way at first.
LEMMA CurrentInit == Init => FlushIsCurrent
BY DEF Init, FlushIsCurrent

\* Every step keeps the flushes current: a step of another store touches
\* nothing of this one.
LEMMA CurrentNext ==
    Typed /\ FlushIsCurrent /\ [Next]_vars => FlushIsCurrent'
<1> SUFFICES ASSUME Typed, FlushIsCurrent, [Next]_vars,
                    NEW s \in Stores, pc'[s] # "idle"
             PROVE  /\ owner' # 0
                    /\ merged'[s] = MergedRows(s)'
                    /\ dirty'[s] # {} \/ removed'[s] # {}
  BY DEF FlushIsCurrent
<1> DEFINE Goal == /\ owner' # 0
                   /\ merged'[s] = MergedRows(s)'
                   /\ dirty'[s] # {} \/ removed'[s] # {}
           Same == /\ owner' = owner /\ pc[s] # "idle" /\ merged'[s] = merged[s]
                   /\ dirty'[s] = dirty[s] /\ removed'[s] = removed[s]
                   /\ cache'[s] = cache[s] /\ rows'[s] = rows[s]
<1>0. ASSUME Same PROVE Goal
  BY <1>0 DEF FlushIsCurrent, MergedRows
<1> SUFFICES Goal
  OBVIOUS
<1>1. CASE UNCHANGED vars
  BY <1>0, <1>1 DEF vars, ram, stamping
<1>2. ASSUME NEW v \in Versions, Open(v) PROVE Goal
  <2>1. pc[s] = "idle"
    BY <1>2 DEF Open, CheckVersion, FlushIsCurrent
  <2> QED
    BY <1>2, <2>1 DEF Open, CheckVersion
<1>3. CASE Crash
  BY <1>3 DEF Crash
<1>4. ASSUME NEW t \in Stores, NEW k \in Keys, NEW v \in Vals, Put(t, k, v)
      PROVE  Goal
  BY <1>0, <1>4 DEF Put, Typed
<1>5. ASSUME NEW t \in Stores, NEW k \in Keys, Remove(t, k) PROVE Goal
  BY <1>0, <1>5 DEF Remove, Typed
<1>6. ASSUME NEW t \in Stores, FlushStep(t) PROVE Goal
  <2>1. CASE Merge(t)
    <3>1. CASE t = s
      BY <2>1, <3>1 DEF Merge, MustFlush, MergedRows, ram, Typed
    <3>2. CASE t # s
      BY <1>0, <2>1, <3>2 DEF Merge, ram, Typed
    <3> QED
      BY <3>1, <3>2
  <2>2. CASE AlreadyStamped(t)
    BY <1>0, <2>2 DEF AlreadyStamped, ram, Typed
  <2>3. CASE StampCreate(t)
    BY <1>0, <2>3 DEF StampCreate, ram, Typed
  <2>4. CASE StampFill(t)
    BY <1>0, <2>4 DEF StampFill, ram, Typed
  <2>5. CASE StampRename(t)
    BY <1>0, <2>5 DEF StampRename, ram, Typed
  <2>6. CASE StampFlag(t)
    BY <1>0, <2>6 DEF StampFlag, ram, Typed
  <2>7. CASE Replace(t)
    BY <1>0, <2>7 DEF Replace, MarksCleared, Typed
  <2>8. CASE FlushFails(t)
    BY <1>0, <2>8 DEF FlushFails, ram, Typed
  <2>9. CASE Transact(t)
    BY <1>0, <2>9 DEF Transact, MarksCleared, MustFlush, Typed
  <2> QED
    BY <1>6, <2>1, <2>2, <2>3, <2>4, <2>5, <2>6, <2>7, <2>8, <2>9 DEF FlushStep
<1> QED
  BY <1>1, <1>2, <1>3, <1>4, <1>5, <1>6 DEF Next

-----------------------------------------------------------------------------

\* Nothing is written at first.
LEMMA StampedInit == Init => StampedFirst
BY VersionsAssumption, TornAssumption DEF Init, StampedFirst, None

\* Every step keeps the stamp ahead of the data.
LEMMA StampedNext ==
    Typed /\ FlushIsCurrent /\ StampedFirst /\ [Next]_vars => StampedFirst'
<1> SUFFICES ASSUME Typed, FlushIsCurrent, StampedFirst, [Next]_vars
             PROVE  StampedFirst'
  OBVIOUS
<1> USE VersionsAssumption, TornAssumption
<1>1. CASE UNCHANGED vars
  BY <1>1 DEF vars, ram, stamping, StampedFirst
<1>2. ASSUME NEW v \in Versions, Open(v) PROVE StampedFirst'
  <2>1. \A s \in Stores : pc[s] = "idle"
    BY <1>2 DEF Open, CheckVersion, FlushIsCurrent
  <2>2. \A s \in Stores : format[s] <= v
    <3>1. vfile \in Nat /\ v \in Nat /\ vfile <= v /\ vfile # Torn
      BY <1>2 DEF Open, CheckVersion, Typed, VersionValues, None
    <3>2. \A s \in Stores : format[s] \in Nat
      <4>1. \A s \in Stores : format[s] \in Versions \cup {0}
        BY DEF Typed
      <4> QED
        BY <4>1, VersionsAreNaturals, Zenon
    <3>3. \A s \in Stores : format[s] <= vfile
      BY <3>1 DEF StampedFirst
    <3> QED
      BY <3>1, <3>2, <3>3
  <2> QED
    BY <1>2, <2>1, <2>2, Zenon DEF Open, CheckVersion, StampedFirst
<1>3. CASE Crash
  BY <1>3 DEF Crash, StampedFirst
<1>4. ASSUME NEW t \in Stores, NEW k \in Keys, NEW v \in Vals, Put(t, k, v)
      PROVE  StampedFirst'
  BY <1>4 DEF Put, stamping, StampedFirst
<1>5. ASSUME NEW t \in Stores, NEW k \in Keys, Remove(t, k)
      PROVE  StampedFirst'
  BY <1>5 DEF Remove, stamping, StampedFirst
<1>6. ASSUME NEW t \in Stores, FlushStep(t) PROVE StampedFirst'
  <2>1. CASE Merge(t)
    BY <2>1 DEF Merge, ram, stamping, StampedFirst, Typed
  <2>2. CASE AlreadyStamped(t)
    BY <2>2 DEF AlreadyStamped, ram, stamping, StampedFirst, Typed
  <2>3. CASE StampCreate(t)
    BY <2>3 DEF StampCreate, ram, StampedFirst, Typed
  <2>4. CASE StampFill(t)
    BY <2>4 DEF StampFill, ram, StampedFirst, FlushIsCurrent, Typed, None
  <2>5. CASE StampRename(t)
    BY <2>5 DEF StampRename, ram, StampedFirst, FlushIsCurrent, Typed, None
  <2>6. CASE StampFlag(t)
    BY <2>6 DEF StampFlag, ram, StampedFirst, Typed
  <2>7. CASE Replace(t)
    BY <2>7 DEF Replace, stamping, StampedFirst, Typed
  <2>8. CASE FlushFails(t)
    BY <2>8 DEF FlushFails, ram, StampedFirst, Typed
  <2>9. CASE Transact(t)
    BY <2>9 DEF Transact, MustFlush, StampedFirst, Typed
  <2> QED
    BY <1>6, <2>1, <2>2, <2>3, <2>4, <2>5, <2>6, <2>7, <2>8, <2>9 DEF FlushStep
<1> QED
  BY <1>1, <1>2, <1>3, <1>4, <1>5, <1>6 DEF Next

\* The three together are inductive.
THEOREM BackendInvariant == Spec => [](Typed /\ FlushIsCurrent /\ StampedFirst)
<1>1. Init => Typed /\ FlushIsCurrent /\ StampedFirst
  BY TypedInit, CurrentInit, StampedInit
<1>2. /\ Typed /\ FlushIsCurrent /\ StampedFirst
      /\ [Next]_vars
      => (Typed /\ FlushIsCurrent /\ StampedFirst)'
  BY TypedNext, CurrentNext, StampedNext
<1> QED
  BY <1>1, <1>2, PTL DEF Spec

\* A binary never opens rows that a newer one wrote, for any number of
\* stores, versions and crashes.
THEOREM NewerDataIsRefused == Spec => []NoNewerData
<1>1. StampedFirst => NoNewerData
  BY DEF StampedFirst, NoNewerData
<1> QED
  BY <1>1, BackendInvariant, PTL
-----------------------------------------------------------------------------

\* What the marks of the watched store mean holds at first, ...
LEMMA MarksInit == Init => Ram!MarksAreRight
BY WatchedAssumption DEF Init, Ram!MarksAreRight

\* ... and one step of the store keeps it.
LEMMA MarksNext ==
    Ram!RamTypeOK /\ Ram!MarksAreRight /\ [Ram!Next]_(Ram!rvars)
        => Ram!MarksAreRight'
<1> SUFFICES ASSUME Ram!RamTypeOK, Ram!MarksAreRight, [Ram!Next]_(Ram!rvars)
             PROVE  Ram!MarksAreRight'
  OBVIOUS
<1> USE AbsentAssumption DEF Ram!RamTypeOK, Ram!MarksAreRight, Ram!Values
<1>1. CASE UNCHANGED Ram!rvars
  BY <1>1 DEF Ram!rvars
<1>2. ASSUME NEW k \in Keys, NEW v \in Vals, Ram!Insert(k, v) \/ Ram!Modify(k, v)
      PROVE  Ram!MarksAreRight'
  BY <1>2 DEF Ram!Insert, Ram!Modify
<1>3. ASSUME NEW k \in Keys, Ram!Remove(k) PROVE Ram!MarksAreRight'
  BY <1>3 DEF Ram!Remove
<1>4. CASE Ram!Flush
  BY <1>4 DEF Ram!Flush, Ram!Flushed
<1>5. CASE Ram!Open
  BY <1>5 DEF Ram!Open
<1> QED
  BY <1>1, <1>2, <1>3, <1>4, <1>5 DEF Ram!Next

\* The types of the watched store's RamStore.
LEMMA TypedRam == Typed => Ram!RamTypeOK
BY WatchedAssumption DEF Typed, Maps, Values, Ram!RamTypeOK, Ram!Values

\* A step of the backends is a step of the watched RamStore, or none.
LEMMA RamStep ==
    Typed /\ FlushIsCurrent /\ [Next]_vars => [Ram!Next]_(Ram!rvars)
<1> SUFFICES ASSUME Typed, FlushIsCurrent, [Next]_vars
             PROVE  [Ram!Next]_(Ram!rvars)
  OBVIOUS
<1> DEFINE Same == /\ cache'[Watched] = cache[Watched]
                   /\ dirty'[Watched] = dirty[Watched]
                   /\ removed'[Watched] = removed[Watched]
                   /\ rows'[Watched] = rows[Watched]
<1>0. ASSUME Same PROVE [Ram!Next]_(Ram!rvars)
  BY <1>0 DEF Ram!rvars
<1> USE WatchedAssumption
<1>1. CASE UNCHANGED vars
  BY <1>0, <1>1 DEF vars, ram
<1>2. ASSUME NEW v \in Versions, Open(v) PROVE [Ram!Next]_(Ram!rvars)
  BY <1>0, <1>2 DEF Open, CheckVersion, ram
<1>3. CASE Crash
  <2>1. Ram!Open
    BY <1>3 DEF Crash, Ram!Open
  <2> QED
    BY <2>1 DEF Ram!Next
<1>4. ASSUME NEW t \in Stores, NEW k \in Keys, NEW v \in Vals, Put(t, k, v)
      PROVE  [Ram!Next]_(Ram!rvars)
  <2>1. CASE t = Watched
    <3>1. Ram!Insert(k, v)
      BY <1>4, <2>1 DEF Put, Typed, Ram!Insert
    <3> QED
      BY <3>1 DEF Ram!Next
  <2>2. CASE t # Watched
    BY <1>0, <1>4, <2>2 DEF Put, Typed
  <2> QED
    BY <2>1, <2>2
<1>5. ASSUME NEW t \in Stores, NEW k \in Keys, Remove(t, k)
      PROVE  [Ram!Next]_(Ram!rvars)
  <2>1. CASE t = Watched
    <3>1. Ram!Remove(k)
      BY <1>5, <2>1 DEF Remove, Typed, Ram!Remove
    <3> QED
      BY <3>1 DEF Ram!Next
  <2>2. CASE t # Watched
    BY <1>0, <1>5, <2>2 DEF Remove, Typed
  <2> QED
    BY <2>1, <2>2
<1>6. ASSUME NEW t \in Stores, FlushStep(t) PROVE [Ram!Next]_(Ram!rvars)
  <2>0. MergedRows(Watched) = Ram!Flushed
    BY DEF MergedRows, Ram!Flushed
  <2>1. CASE UNCHANGED <<ram, rows>>
    BY <1>0, <2>1 DEF ram
  <2>2. CASE Replace(t)
    <3>1. CASE t = Watched
      <4>1. Ram!Flush
        BY <2>0, <2>2, <3>1
        DEF Replace, MarksCleared, FlushIsCurrent, Typed, Ram!Flush
      <4> QED
        BY <4>1 DEF Ram!Next
    <3>2. CASE t # Watched
      BY <1>0, <2>2, <3>2 DEF Replace, MarksCleared, Typed
    <3> QED
      BY <3>1, <3>2
  <2>3. CASE Transact(t)
    <3>1. CASE t = Watched
      <4>1. Ram!Flush
        BY <2>0, <2>3, <3>1
        DEF Transact, MarksCleared, MustFlush, Typed, Ram!Flush
      <4> QED
        BY <4>1 DEF Ram!Next
    <3>2. CASE t # Watched
      BY <1>0, <2>3, <3>2 DEF Transact, MarksCleared, Typed
    <3> QED
      BY <3>1, <3>2
  <2> QED
    BY <1>6, <2>1, <2>2, <2>3
    DEF FlushStep, Merge, AlreadyStamped, StampCreate, StampFill, StampRename,
        StampFlag, FlushFails
<1> QED
  BY <1>1, <1>2, <1>3, <1>4, <1>5, <1>6 DEF Next

\* Every store flushes as if in one step, whatever the other stores do and
\* wherever a flush fails or the process ends.
THEOREM FlushIsAtomic == Spec => ImplementsRamStore
<1>1. Init => Ram!Init
  BY WatchedAssumption, TypedInit, TypedRam DEF Init, Ram!Init, Ram!RamTypeOK
<1>2. Typed /\ FlushIsCurrent /\ [Next]_vars => [Ram!Next]_(Ram!rvars)
  BY RamStep
<1> QED
  BY <1>1, <1>2, BackendInvariant, PTL DEF Spec, ImplementsRamStore, Ram!Spec

\* A step of the watched RamStore is a step of the durable map: because the
\* marks are right, flushing the marked keys copies the whole cache.
LEMMA DurableStep ==
    Ram!RamTypeOK /\ Ram!MarksAreRight /\ [Ram!Next]_(Ram!rvars)
        => [Ram!Durable!DurableNext]_<<cache[Watched], rows[Watched]>>
<1> SUFFICES ASSUME Ram!RamTypeOK, Ram!MarksAreRight, [Ram!Next]_(Ram!rvars)
             PROVE  [Ram!Durable!DurableNext]_<<cache[Watched], rows[Watched]>>
  OBVIOUS
<1> USE DEF Ram!Durable!DurableNext
<1>1. CASE UNCHANGED Ram!rvars
  BY <1>1 DEF Ram!rvars
<1>2. ASSUME NEW k \in Keys, NEW v \in Vals, Ram!Insert(k, v) \/ Ram!Modify(k, v)
      PROVE  Ram!Durable!Write
  BY <1>2 DEF Ram!Insert, Ram!Modify, Ram!Durable!Write
<1>3. ASSUME NEW k \in Keys, Ram!Remove(k) PROVE Ram!Durable!Write
  BY <1>3 DEF Ram!Remove, Ram!Durable!Write
<1>4. ASSUME Ram!Flush PROVE Ram!Durable!Commit
  <2>1. Ram!Flushed = cache[Watched]
    BY DEF Ram!RamTypeOK, Ram!MarksAreRight, Ram!Flushed
  <2> QED
    BY <1>4, <2>1 DEF Ram!Flush, Ram!Durable!Commit
<1>5. ASSUME Ram!Open PROVE Ram!Durable!Restart
  BY <1>5 DEF Ram!Open, Ram!Durable!Restart
<1> QED
  BY <1>1, <1>2, <1>3, <1>4, <1>5 DEF Ram!Next

\* Every store of a JSON or SQLite backend is a durable map, for any number
\* of stores, keys, values and binary versions.
THEOREM StoresAreDurableMaps == Spec => ImplementsDurableMap
<1>1. Init => Ram!Durable!DurableInit
  BY WatchedAssumption, TypedInit, TypedRam
  DEF Init, Ram!RamTypeOK, Ram!Values, Ram!Durable!DurableInit, Ram!Durable!Maps
<1>2. Spec => []Ram!MarksAreRight
  <2>1. Typed /\ FlushIsCurrent /\ Ram!MarksAreRight /\ [Next]_vars
            => Ram!MarksAreRight'
    BY TypedRam, RamStep, MarksNext
  <2> QED
    BY <2>1, MarksInit, BackendInvariant, PTL DEF Spec
<1>3. Typed /\ FlushIsCurrent /\ Ram!MarksAreRight /\ [Next]_vars
          => [Ram!Durable!DurableNext]_<<cache[Watched], rows[Watched]>>
  BY TypedRam, RamStep, DurableStep
<1> QED
  BY <1>1, <1>2, <1>3, BackendInvariant, PTL
  DEF Spec, ImplementsDurableMap, Ram!ImplementsDurableMap, Ram!Durable!DurableSpec
=============================================================================
