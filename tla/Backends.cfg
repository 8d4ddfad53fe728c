CONSTANTS
    Keys = {k1, k2}
    Vals = {1}
    Absent = Absent
    Torn = Torn
    Stores = {st1, st2}
    Watched = st1
    Versions = {1, 2}
    Media = {"json", "sqlite"}
SPECIFICATION Spec
INVARIANTS NoNewerData
PROPERTIES ImplementsDurableMap
CHECK_DEADLOCK FALSE
