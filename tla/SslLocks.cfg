\* Three sessions, three static locks, allocations that may fail.
CONSTANTS
    NumLocks = 3
    MaxSessions = 3
    Faults = {"malloc"}
SPECIFICATION Spec
INVARIANTS
    TypeOK
    LocksMatch
    CrashNeedsEarlierSetup
