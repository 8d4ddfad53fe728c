CONSTANTS
    Ids = {"dev", "sim"}
    Simulators = {"sim"}
    Benches <- MCBenches
    Callers = {"c1"}
    MaxListeners = 2
    MaxProbes = 3
    MaxEvents = 2
SPECIFICATION FairSpec
INVARIANTS LockedIsBeingUnlocked
PROPERTIES ImplementsRegistry MapFollowsTheBus
CHECK_DEADLOCK FALSE
